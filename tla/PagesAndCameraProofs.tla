-------------------------- MODULE PagesAndCameraProofs -------------------------
(***************************************************************************)
(* Proofs about the parts of the browser that share no state with others:  *)
(* the two pages that poll the server, which are the operator's page, with *)
(* the handler of /admin/config, and the lobby, and both together, since a *)
(* tab shows one of them and leaves the other's state alone; and the       *)
(* camera of the local participant.                                        *)
(***************************************************************************)
EXTENDS Pages, Camera, FiniteSetTheorems, WellFoundedInduction, TLAPS

(***************************************************************************)
(* The operator's page.                                                    *)
(*                                                                         *)
(* That the form shows what is stored, and that the meeting follows it,    *)
(* rest on what is known of the answers that are still under way: if no    *)
(* two requests have crossed, there is one at most, and its answer is what *)
(* the store holds; if no handler has overtaken another one, those at work *)
(* will publish what the store holds.                                      *)
(***************************************************************************)
Partial == [Parts -> Values \cup {Unknown}]
Snapshots == Valid \cup {NoSettings}
Passwords == Secrets \cup {"none"}
Handlers == [by : {"page", "other"}, value : Snapshots]
SentCalls == [step : {"sent", "stored"}, value : Partial, with : Passwords]
AnsweredCalls == [step : {"answered"}, value : Partial, kind : {"ok", "refused", "rejected"}]
Calls == {None} \cup SentCalls \cup AnsweredCalls
RefreshStates ==
  {NoRefresh} \cup [health : {"sent", "done"}, metrics : {"sent", "done"}]

AdminTypes ==
  /\ store \in Valid /\ live \in Valid
  /\ handling \subseteq Handlers
  /\ form \in Settings /\ known \in Partial
  /\ secret \in Passwords
  /\ policy \in Calls /\ load \in Calls /\ saving \in Calls \cup {[step |-> "refreshing"]}
  /\ policy.step # "stored" /\ load.step # "stored"
  /\ refresh \in RefreshStates
  /\ available \in {"checking", "available", "unavailable"}
  /\ label \in {"checking", "ready", "watch", "unavailable"}
  /\ timer \in BOOLEAN /\ hidden \in BOOLEAN

\* An answer that says "ok" holds settings, of which the policy is a part.
OkHasSettings ==
  \A c \in {load, saving} : c.step = "answered" /\ c.kind = "ok" => c.value \in Valid

\* Requests that have not crossed: there is one at most.
OneAtATime ==
  "crossed" \notin doubt =>
    \/ policy = None /\ load = None
    \/ policy = None /\ saving = None
    \/ load = None /\ saving = None

\* Its answer is what is stored.
AnswersAreFresh ==
  /\ "crossed" \notin doubt /\ policy.step = "answered" =>
       \A p \in Parts : policy.value[p] \in {Unknown, store[p]}
  /\ "crossed" \notin doubt /\ load.step = "answered" /\ load.kind = "ok" => load.value = store
  /\ "crossed" \notin doubt /\ "overtaken" \notin doubt
       /\ saving.step = "answered" /\ saving.kind = "ok" => saving.value = store

\* Handlers that have not been overtaken publish what is stored.
HandlersAreFresh ==
  "overtaken" \notin doubt =>
    /\ \A h \in handling : h.value \in {NoSettings, store}
    /\ handling = {} => live = store

\* What was filled into a form without edits is what is stored, and it saves what it
\* shows.  Until the policy has arrived, nothing is known, or all is.
Shows(v) == \A p \in Parts : known[p] # Unknown => v[p] = store[p] /\ known[p] = store[p]
FormIsFresh ==
  doubt \subseteq {"crossed"} =>
    /\ Shows(form)
    /\ saving.step = "sent" => saving.value = form
PolicyIsFirst == policy # None => known = NoSettings \/ known \in Settings

\* What is known of the service and of the next refresh.
StatusIsKnown ==
  /\ ~hidden => timer \/ refresh # NoRefresh
  /\ available = "unavailable" => label = "unavailable"
  /\ refresh = NoRefresh \/ refresh.health = "done" => label # "checking" /\ available # "checking"

AdminInv ==
  /\ AdminTypes /\ OkHasSettings /\ OneAtATime /\ AnswersAreFresh /\ HandlersAreFresh
  /\ FormIsFresh /\ PolicyIsFirst /\ StatusIsKnown

\* What the parts of settings are made of, and what merging makes of them.
LEMMA PartsOfSettings ==
  /\ Settings \subseteq Partial /\ Valid \subseteq Partial
  /\ NoSettings \in Partial /\ NoSettings \notin Settings /\ NoSettings \notin Valid
  /\ \A v \in Settings : /\ Only("public", v) \in Partial
                         /\ \A p \in Parts : Only("public", v)[p] \in {Unknown, v[p]}
BY AdminAssumptions DEF Settings, Partial, NoSettings, Parts, Only

LEMMA Merging ==
  ASSUME NEW old \in Partial, NEW new \in Partial
  PROVE  /\ Merged(old, new) \in Partial
         /\ old \in Settings => Merged(old, new) \in Settings
         /\ new \in Settings => Merged(old, new) = new
         /\ new = NoSettings => Merged(old, new) = old
         /\ old = NoSettings => Merged(old, new) = new
         /\ \A p \in Parts : Merged(old, new)[p] = IF new[p] = Unknown THEN old[p] ELSE new[p]
<1> USE AdminAssumptions DEF Partial, Settings, NoSettings
<1>1. /\ Merged(old, new) \in Partial
      /\ \A p \in Parts : Merged(old, new)[p] = IF new[p] = Unknown THEN old[p] ELSE new[p]
  BY DEF Merged
<1>2. old \in Settings => Merged(old, new) \in Settings
  BY DEF Merged
<1>3. new \in Settings => Merged(old, new) = new
  BY <1>1
<1>4. new = NoSettings => Merged(old, new) = old
  BY <1>1
<1>5. old = NoSettings => Merged(old, new) = new
  BY <1>1
<1> QED
  BY <1>1, <1>2, <1>3, <1>4, <1>5

\* A call has the fields that its step says.
LEMMA CallFields ==
  ASSUME NEW c \in Calls \cup {[step |-> "refreshing"]}
  PROVE  /\ c.step \in {"none", "sent", "stored", "answered", "refreshing"}
         /\ c.step = "none" <=> c = None
         /\ c.step \in {"sent", "stored"} <=> c \in SentCalls
         /\ c.step = "answered" <=> c \in AnsweredCalls
         /\ c.step = "refreshing" <=> c = [step |-> "refreshing"]
<1>1. None.step = "none" /\ [step |-> "refreshing"].step = "refreshing"
  BY DEF None
<1>2. \A d \in SentCalls : d.step \in {"sent", "stored"}
  BY DEF SentCalls
<1>3. \A d \in AnsweredCalls : d.step = "answered"
  BY DEF AnsweredCalls
<1> QED
  BY <1>1, <1>2, <1>3 DEF Calls

\* What Sent and Answered make.
LEMMA MadeCalls ==
  /\ \A v \in Partial, s \in Passwords :
       /\ Sent(v, s) \in Calls /\ Sent(v, s).step = "sent" /\ Sent(v, s).value = v
  /\ \A v \in Partial, k \in {"ok", "refused", "rejected"} :
       /\ Answered(v, k) \in Calls /\ Answered(v, k).step = "answered"
       /\ Answered(v, k).value = v /\ Answered(v, k).kind = k
BY DEF Sent, Answered, Calls, SentCalls, AnsweredCalls

\* What a request of refreshStatus carries.
LEMMA RefreshFields ==
  ASSUME NEW r \in RefreshStates
  PROVE  /\ r.health \in {"none", "sent", "done"} /\ r.metrics \in {"none", "sent", "done"}
         /\ r = NoRefresh <=> r.health = "none"
         /\ r = NoRefresh <=> r.metrics = "none"
BY DEF RefreshStates, NoRefresh

\* The page that is loaded, with nothing asked yet, satisfies the invariant.
LEMMA AdminStarts == ASSUME AdminInit PROVE AdminInv
<1> USE AdminAssumptions, PartsOfSettings DEF AdminInit
<1>1. /\ policy \in Calls /\ policy.step = "sent"
      /\ load = None /\ saving = None /\ None \in Calls /\ None.step = "none"
  BY MadeCalls DEF None, Calls, Passwords
<1>2. refresh \in RefreshStates /\ refresh # NoRefresh /\ refresh.health = "sent"
  BY DEF RefreshStates, NoRefresh
<1>3. AdminTypes
  BY <1>1, <1>2 DEF AdminTypes, Passwords
<1>4. OkHasSettings /\ OneAtATime /\ AnswersAreFresh
  BY <1>1 DEF OkHasSettings, OneAtATime, AnswersAreFresh
<1>5. HandlersAreFresh /\ PolicyIsFirst
  BY DEF HandlersAreFresh, PolicyIsFirst
<1>6. FormIsFresh
  BY <1>1 DEF FormIsFresh, Shows, NoSettings
<1>7. StatusIsKnown
  BY <1>2 DEF StatusIsKnown
<1> QED
  BY <1>3, <1>4, <1>5, <1>6, <1>7 DEF AdminInv

\* The parts of AdminTypes: what the status shows, and the rest.
StatusTypes ==
  /\ refresh \in RefreshStates
  /\ available \in {"checking", "available", "unavailable"}
  /\ label \in {"checking", "ready", "watch", "unavailable"}
  /\ timer \in BOOLEAN /\ hidden \in BOOLEAN

\* A step that leaves store, form and requests alone has the status to care for.
LEMMA StatusStep ==
  ASSUME AdminInv, UNCHANGED <<serverVars, formVars, requestVars>>, StatusTypes', StatusIsKnown'
  PROVE  AdminInv'
BY DEF AdminInv, AdminTypes, StatusTypes, serverVars, formVars, requestVars, OkHasSettings,
       OneAtATime, AnswersAreFresh, HandlersAreFresh, FormIsFresh, Shows, PolicyIsFirst

\* refreshStatus, with or without a refresh under way.
LEMMA RefreshingKnows ==
  ASSUME AdminInv, Refreshing, timer' \in BOOLEAN, hidden' \in BOOLEAN
  PROVE  StatusTypes' /\ StatusIsKnown' /\ refresh' # NoRefresh
<1>1. CASE refresh # NoRefresh
  BY <1>1 DEF AdminInv, AdminTypes, StatusTypes, StatusIsKnown, Refreshing
<1>2. CASE refresh = NoRefresh
  <2>1. /\ refresh' = [health |-> "sent", metrics |-> "sent"]
        /\ available' = "checking" /\ label' = "checking"
    BY <1>2 DEF Refreshing
  <2>2. refresh' \in RefreshStates /\ refresh' # NoRefresh /\ refresh'.health = "sent"
    BY <2>1 DEF RefreshStates, NoRefresh
  <2> QED
    BY <2>1, <2>2 DEF StatusTypes, StatusIsKnown
<1> QED
  BY <1>1, <1>2

\* The steps of the status loop and its requests keep the invariant.
LEMMA StatusActions ==
  ASSUME AdminInv,
         \/ \E ok \in BOOLEAN : HealthArrives(ok)
         \/ \E watch \in BOOLEAN : MetricsArrive(watch)
         \/ RefreshTimer \/ RefreshNow \/ HidePage \/ ShowPage
  PROVE  AdminInv'
<1> USE DEF AdminInv, AdminTypes
<1>1. ASSUME NEW ok \in BOOLEAN, HealthArrives(ok)
      PROVE  AdminInv'
  <2>1. /\ refresh' = [refresh EXCEPT !.health = "done"] /\ refresh.health = "sent"
        /\ refresh \in RefreshStates
    BY <1>1 DEF HealthArrives
  <2>2. refresh' \in RefreshStates /\ refresh' # NoRefresh /\ refresh # NoRefresh
    BY <2>1, Zenon, RefreshFields DEF RefreshStates, NoRefresh
  <2>3. StatusTypes'
    BY <1>1, <2>2 DEF StatusTypes, HealthArrives
  <2>4. StatusIsKnown'
    BY <1>1, <2>2 DEF StatusIsKnown, HealthArrives
  <2> QED
    BY <1>1, <2>3, <2>4, StatusStep DEF HealthArrives
<1>2. ASSUME NEW watch \in BOOLEAN, MetricsArrive(watch)
      PROVE  AdminInv'
  <2>1. /\ refresh' = [refresh EXCEPT !.metrics = "done"] /\ refresh.metrics = "sent"
        /\ refresh \in RefreshStates
    BY <1>2 DEF MetricsArrive
  <2>2. /\ refresh' \in RefreshStates /\ refresh' # NoRefresh /\ refresh # NoRefresh
        /\ refresh'.health = refresh.health
    BY <2>1 DEF RefreshStates, NoRefresh
  <2>3. StatusTypes'
    BY <1>2, <2>2 DEF StatusTypes, MetricsArrive
  <2>4. StatusIsKnown'
    BY <1>2, <2>2 DEF StatusIsKnown, MetricsArrive
  <2> QED
    BY <1>2, <2>3, <2>4, StatusStep DEF MetricsArrive
<1>3. CASE RefreshTimer
  BY <1>3, RefreshingKnows, StatusStep DEF RefreshTimer
<1>4. CASE RefreshNow
  BY <1>4, RefreshingKnows, StatusStep DEF RefreshNow
<1>5. CASE HidePage
  <2>1. StatusTypes' /\ StatusIsKnown'
    BY <1>5 DEF HidePage, StatusTypes, StatusIsKnown
  <2> QED
    BY <1>5, <2>1, StatusStep DEF HidePage
<1>6. CASE ShowPage
  BY <1>6, RefreshingKnows, StatusStep DEF ShowPage
<1> QED
  BY <1>1, <1>2, <1>3, <1>4, <1>5, <1>6

\* The status is left alone, or refreshStatus is called.
LEMMA StatusKept ==
  ASSUME AdminInv, UNCHANGED statusVars
  PROVE  StatusTypes' /\ StatusIsKnown'
BY DEF AdminInv, AdminTypes, StatusTypes, StatusIsKnown, statusVars

\* The actions of the server.
LEMMA ServerActions ==
  ASSUME AdminInv,
         ServePolicy \/ ServeLoad \/ Update \/ Snapshot \/ Publish \/ \E v \in Valid : OtherUpdate(v)
  PROVE  AdminInv'
<1> USE AdminAssumptions, PartsOfSettings DEF AdminInv, AdminTypes
<1>k. StatusTypes' /\ StatusIsKnown'
  BY StatusKept DEF ServePolicy, ServeLoad, Update, Snapshot, Publish, OtherUpdate
<1>f. ASSUME NEW c \in {policy, load, saving}
      PROVE  /\ c.step \in {"none", "sent", "stored", "answered", "refreshing"}
             /\ c.step = "none" <=> c = None
             /\ c.step \in {"sent", "stored"} => c \in SentCalls
  BY CallFields
<1>1. CASE ServePolicy
  <2>1. /\ policy' \in Calls /\ policy'.step = "answered" /\ policy # None
        /\ \A p \in Parts : policy'.value[p] \in {Unknown, store[p]}
    BY <1>1, MadeCalls, <1>f DEF ServePolicy
  <2> QED
    BY <1>1, <2>1, <1>k DEF StatusTypes, ServePolicy, serverVars, formVars, OkHasSettings, OneAtATime,
       AnswersAreFresh, HandlersAreFresh, FormIsFresh, Shows, PolicyIsFirst
<1>2. CASE ServeLoad
  <2>1. /\ load' \in Calls /\ load'.step = "answered" /\ load # None
        /\ load'.kind = "ok" => load'.value = store
    BY <1>2, MadeCalls, <1>f DEF ServeLoad
  <2> QED
    BY <1>2, <2>1, <1>k DEF StatusTypes, ServeLoad, serverVars, formVars, OkHasSettings, OneAtATime,
       AnswersAreFresh, HandlersAreFresh, FormIsFresh, Shows, PolicyIsFirst
<1>3. CASE Update
  <2>1. saving # None /\ saving \in SentCalls
    BY <1>3, <1>f DEF Update
  <2>2. CASE UNCHANGED serverVars /\ \E k \in {"refused", "rejected"} : saving' = Answered(NoSettings, k)
    <3>1. /\ saving' \in Calls /\ saving'.step = "answered" /\ saving'.kind # "ok"
          /\ UNCHANGED serverVars
      BY <2>2, MadeCalls
    <3>2. UNCHANGED <<form, known, secret, policy, load, doubt>>
      BY <1>3, <3>1 DEF Update, serverVars
    <3> QED
      BY <2>1, <3>1, <3>2, <1>k DEF StatusTypes, serverVars, OkHasSettings, OneAtATime,
         AnswersAreFresh, HandlersAreFresh, FormIsFresh, Shows, PolicyIsFirst
  <2>3. CASE /\ saving.value \in Valid /\ store' = saving.value
             /\ handling' = handling \cup {[by |-> "page", value |-> NoSettings]}
             /\ saving' = [saving EXCEPT !.step = "stored"] /\ UNCHANGED live
    <3>1. /\ store' = saving.value
          /\ handling' = handling \cup {[by |-> "page", value |-> NoSettings]}
          /\ saving' = [saving EXCEPT !.step = "stored"]
          /\ doubt' = IF store' # store /\ handling # {} THEN doubt \cup {"overtaken"} ELSE doubt
          /\ UNCHANGED <<live, form, known, secret, policy, load>>
          /\ saving.step = "sent"
      BY <1>3, <2>3 DEF Update
    <3>2. saving' \in SentCalls /\ saving'.step = "stored" /\ saving' # None
      BY <2>1, <3>1 DEF SentCalls, None
    <3>3. [by |-> "page", value |-> NoSettings] \in Handlers
      BY DEF Handlers, Snapshots
    <3>4. AdminTypes'
      BY <3>1, <3>2, <3>3, <2>3, <1>k DEF StatusTypes, Calls
    <3>5. OkHasSettings' /\ OneAtATime' /\ AnswersAreFresh'
      BY <2>1, <3>1, <3>2, <1>f DEF OkHasSettings, OneAtATime, AnswersAreFresh, None
    <3>6. HandlersAreFresh'
      <4> DEFINE new == [by |-> "page", value |-> NoSettings]
      <4>1. new.value = NoSettings /\ handling' = handling \cup {new}
        BY <3>1
      <4>2. "overtaken" \notin doubt' =>
              /\ "overtaken" \notin doubt
              /\ store' = store \/ handling = {}
        BY <3>1
      <4> HIDE DEF new
      <4> QED
        BY <4>1, <4>2 DEF HandlersAreFresh
    <3>7. FormIsFresh' /\ PolicyIsFirst'
      <4>1. doubt \subseteq doubt'
        BY <3>1
      <4>2. saving'.step # "sent"
        BY <3>2
      <4>3. doubt \subseteq {"crossed"} => store' = form /\ Shows(form)
        BY <3>1 DEF FormIsFresh
      <4>4. doubt \subseteq {"crossed"} => Shows(form)'
        BY <3>1, <4>3 DEF Shows
      <4> QED
        BY <3>1, <4>1, <4>2, <4>4 DEF FormIsFresh, PolicyIsFirst
    <3> QED
      BY <3>4, <3>5, <3>6, <3>7, <1>k
  <2> QED
    BY <1>3, <2>2, <2>3 DEF Update
<1>4. CASE Snapshot
  <2>1. PICK h \in handling :
          /\ h.value = NoSettings
          /\ handling' = (handling \ {h}) \cup {[h EXCEPT !.value = store]}
          /\ UNCHANGED <<store, live, formVars, requestVars, statusVars, acts>>
    BY <1>4 DEF Snapshot
  <2>2. [h EXCEPT !.value = store] \in Handlers /\ [h EXCEPT !.value = store].value = store
    BY DEF Handlers, Snapshots
  <2>3. HandlersAreFresh' /\ handling' \subseteq Handlers
    BY <2>1, <2>2 DEF HandlersAreFresh, formVars
  <2> QED
    BY <2>1, <2>3, <1>k DEF StatusTypes, formVars, requestVars, OkHasSettings, OneAtATime,
       AnswersAreFresh, FormIsFresh, Shows, PolicyIsFirst
<1>5. CASE Publish
  <2>1. PICK h \in handling :
          /\ h.value # NoSettings /\ live' = h.value /\ handling' = handling \ {h}
          /\ saving' = IF h.by = "page" /\ saving.step = "stored" THEN Answered(h.value, "ok") ELSE saving
          /\ UNCHANGED <<store, formVars, policy, load, statusVars, acts>>
    BY <1>5 DEF Publish
  <2>2. h.value \in Valid
    BY <2>1 DEF Handlers, Snapshots
  <2>3. \/ saving' = saving
        \/ /\ saving' \in Calls /\ saving'.step = "answered" /\ saving'.kind = "ok"
           /\ saving'.value = h.value /\ saving # None
    BY <2>1, <2>2, MadeCalls, <1>f
  <2>4. AdminTypes'
    BY <2>1, <2>2, <2>3, <1>k DEF StatusTypes, formVars
  <2>5. OkHasSettings' /\ OneAtATime'
    BY <2>1, <2>2, <2>3 DEF OkHasSettings, OneAtATime, formVars
  <2>6. AnswersAreFresh' /\ HandlersAreFresh'
    BY <2>1, <2>2, <2>3 DEF AnswersAreFresh, HandlersAreFresh, formVars
  <2>7. FormIsFresh' /\ PolicyIsFirst'
    BY <2>1, <2>3 DEF FormIsFresh, Shows, PolicyIsFirst, formVars
  <2> QED
    BY <2>4, <2>5, <2>6, <2>7, <1>k
<1>6. ASSUME NEW v \in Valid, OtherUpdate(v)
      PROVE  AdminInv'
  <2>1. [by |-> "other", value |-> NoSettings] \in Handlers
    BY DEF Handlers, Snapshots
  <2>2. AdminTypes'
    BY <1>6, <2>1, <1>k DEF OtherUpdate, StatusTypes, requestVars
  <2>3. "unsure" \in doubt' /\ ("crossed" \notin doubt' => Alone)
    BY <1>6 DEF OtherUpdate
  <2>4. Alone => policy = None /\ load = None /\ saving = None
    BY DEF Alone
  <2>r. UNCHANGED <<policy, load, saving>>
    BY <1>6 DEF OtherUpdate, requestVars
  <2>5. OkHasSettings' /\ OneAtATime' /\ AnswersAreFresh'
    <3>1. "crossed" \notin doubt' => policy.step = "none" /\ load.step = "none" /\ saving.step = "none"
      BY <2>3, <2>4, <1>f
    <3>2. AnswersAreFresh'
      BY <2>r, <3>1 DEF AnswersAreFresh
    <3>3. OneAtATime'
      BY <2>r, <2>3, <2>4 DEF OneAtATime
    <3>4. OkHasSettings'
      BY <2>r DEF OkHasSettings
    <3> QED
      BY <3>2, <3>3, <3>4
  <2>6. HandlersAreFresh'
    <3> DEFINE new == [by |-> "other", value |-> NoSettings]
    <3>1. new.value = NoSettings /\ handling' = handling \cup {new}
      BY <1>6 DEF OtherUpdate
    <3>2. "overtaken" \notin doubt' => "overtaken" \notin doubt /\ handling = {}
      BY <1>6 DEF OtherUpdate
    <3> HIDE DEF new
    <3> QED
      BY <3>1, <3>2 DEF HandlersAreFresh
  <2>7. FormIsFresh' /\ PolicyIsFirst'
    BY <1>6, <2>3, <2>r DEF OtherUpdate, FormIsFresh, PolicyIsFirst
  <2> QED
    BY <2>2, <2>5, <2>6, <2>7, <1>k
<1> QED
  BY <1>1, <1>2, <1>3, <1>4, <1>5, <1>6

\* The actions of the form and its requests.
LEMMA FormActions ==
  ASSUME AdminInv,
         \/ \E p \in Parts, v \in Values : Edit(p, v)
         \/ \E s \in Secrets : TypeSecret(s)
         \/ Load \/ PolicyArrives \/ LoadArrives \/ LoadFails \/ SubmitSettings \/ SaveFails
  PROVE  AdminInv'
<1> USE AdminAssumptions, PartsOfSettings DEF AdminInv, AdminTypes
<1>k. StatusTypes' /\ StatusIsKnown'
  BY StatusKept DEF Edit, TypeSecret, Load, PolicyArrives, LoadArrives, LoadFails,
     SubmitSettings, SaveFails
<1>f. ASSUME NEW c \in {policy, load, saving}
      PROVE  /\ c.step \in {"none", "sent", "stored", "answered", "refreshing"}
             /\ c.step = "none" <=> c = None
             /\ c.step = "answered" => c \in AnsweredCalls
  BY CallFields
<1>n. None \in Calls /\ None.step = "none"
  BY DEF Calls, None
<1>h. ASSUME UNCHANGED serverVars, "overtaken" \in doubt => "overtaken" \in doubt'
      PROVE  HandlersAreFresh'
  BY <1>h DEF HandlersAreFresh, serverVars
<1>1. ASSUME NEW p \in Parts, NEW v \in Values, Edit(p, v)
      PROVE  AdminInv'
  <2>0. form' \in Settings
    BY <1>1 DEF Edit, Settings
  <2>1. AdminTypes' /\ OkHasSettings' /\ OneAtATime' /\ AnswersAreFresh'
    BY <1>1, <2>0, <1>k DEF Edit, StatusTypes, serverVars, requestVars, OkHasSettings, OneAtATime, AnswersAreFresh
  <2>2. FormIsFresh' /\ PolicyIsFirst' /\ HandlersAreFresh'
    BY <1>1, <1>h DEF Edit, requestVars, FormIsFresh, PolicyIsFirst
  <2> QED
    BY <2>1, <2>2, <1>k
<1>2. ASSUME NEW s \in Secrets, TypeSecret(s)
      PROVE  AdminInv'
  BY <1>2, <1>k, <1>h DEF TypeSecret, StatusTypes, serverVars, requestVars, Passwords, OkHasSettings,
     OneAtATime, AnswersAreFresh, FormIsFresh, Shows, PolicyIsFirst
<1>3. CASE Load
  <2>1. /\ load' \in Calls /\ load'.step = "sent" /\ load = None
        /\ doubt' = Starting /\ UNCHANGED <<serverVars, form, known, secret, policy, saving>>
    BY <1>3, MadeCalls DEF Load, Passwords
  <2>2. /\ "crossed" \notin doubt' => policy = None /\ saving = None
        /\ doubt' \subseteq {"crossed"} => doubt \subseteq {"crossed"}
        /\ "overtaken" \in doubt => "overtaken" \in doubt'
    BY <2>1 DEF Starting, Alone
  <2>3. AdminTypes' /\ OkHasSettings' /\ OneAtATime'
    BY <2>1, <2>2, <1>k DEF serverVars, StatusTypes, OkHasSettings, OneAtATime
  <2>4. AnswersAreFresh' /\ FormIsFresh' /\ PolicyIsFirst'
    BY <2>1, <2>2, <1>n DEF serverVars, AnswersAreFresh, FormIsFresh, Shows, PolicyIsFirst
  <2> QED
    BY <2>1, <2>2, <2>3, <2>4, <1>k, <1>h
<1>4. CASE SubmitSettings
  <2>1. /\ saving' \in Calls /\ saving'.step = "sent" /\ saving'.value = form /\ saving = None
        /\ doubt' = Starting /\ UNCHANGED <<serverVars, form, known, secret, policy, load>>
    BY <1>4, MadeCalls DEF SubmitSettings
  <2>2. /\ "crossed" \notin doubt' => policy = None /\ load = None
        /\ doubt' \subseteq {"crossed"} => doubt \subseteq {"crossed"}
        /\ "overtaken" \in doubt => "overtaken" \in doubt'
    BY <2>1 DEF Starting, Alone
  <2>3. AdminTypes' /\ OkHasSettings' /\ OneAtATime'
    BY <2>1, <2>2, <1>k DEF serverVars, StatusTypes, OkHasSettings, OneAtATime
  <2>4. AnswersAreFresh' /\ FormIsFresh' /\ PolicyIsFirst'
    BY <2>1, <2>2, <1>n DEF serverVars, AnswersAreFresh, FormIsFresh, Shows, PolicyIsFirst
  <2> QED
    BY <2>1, <2>2, <2>3, <2>4, <1>k, <1>h
<1>5. CASE PolicyArrives
  <2>1. /\ policy.step = "answered" /\ policy' = None /\ policy # None
        /\ policy.value \in Partial
        /\ UNCHANGED <<serverVars, secret, load, saving>>
    BY <1>5, <1>f, <1>n DEF PolicyArrives, AnsweredCalls
  <2>2. CASE known = NoSettings
    <3>1. /\ known' = policy.value /\ form' = Merged(form, policy.value) /\ doubt' = Settled
          /\ form' \in Settings
      BY <1>5, <2>1, <2>2, Merging DEF PolicyArrives, Applied
    <3>2. /\ "crossed" \notin doubt' => "crossed" \notin doubt
          /\ doubt' \subseteq {"crossed"} => "crossed" \notin doubt
          /\ "overtaken" \in doubt => "overtaken" \in doubt'
          /\ "overtaken" \in doubt' => "overtaken" \in doubt
      BY <3>1 DEF Settled
    <3>3. AdminTypes' /\ OkHasSettings'
      BY <2>1, <3>1, <1>n, <1>k DEF serverVars, StatusTypes, OkHasSettings
    <3>4. OneAtATime' /\ AnswersAreFresh'
      <4>1. OneAtATime'
        <5>1. CASE "crossed" \in doubt
          BY <3>1, <5>1 DEF Settled, OneAtATime
        <5>2. CASE "crossed" \notin doubt
          BY <2>1, <5>2 DEF OneAtATime
        <5> QED
          BY <5>1, <5>2
      <4>2. CASE "crossed" \in doubt
        <5>1. "crossed" \in doubt'
          BY <3>1, <4>2 DEF Settled
        <5> QED
          BY <4>1, <5>1 DEF AnswersAreFresh
      <4>3. CASE "crossed" \notin doubt
        <5>1. "overtaken" \notin doubt' => "overtaken" \notin doubt
          BY <3>2
        <5>2. policy'.step = "none" /\ UNCHANGED <<store, load, saving>>
          BY <2>1, <1>n DEF serverVars
        <5> QED
          BY <4>1, <4>3, <5>1, <5>2 DEF AnswersAreFresh
      <4> QED
        BY <4>1, <4>2, <4>3
    <3>5. FormIsFresh' /\ PolicyIsFirst'
      <4>1. doubt' \subseteq {"crossed"} =>
              saving = None /\ \A p \in Parts : policy.value[p] \in {Unknown, store[p]}
        BY <2>1, <3>2 DEF AnswersAreFresh, OneAtATime
      <4>2. \A p \in Parts : policy.value[p] # Unknown => form'[p] = policy.value[p]
        BY <2>1, <3>1, Merging
      <4>3. doubt' \subseteq {"crossed"} => Shows(form)'
        BY <2>1, <3>1, <4>1, <4>2 DEF serverVars, Shows
      <4> QED
        BY <2>1, <4>1, <4>3, <1>n DEF FormIsFresh, PolicyIsFirst
    <3> QED
      BY <2>1, <3>2, <3>3, <3>4, <3>5, <1>k, <1>h
  <2>3. CASE known # NoSettings
    <3>1. known \in Settings /\ known' = known /\ form' = known /\ doubt' = doubt
      BY <1>5, <2>1, <2>3, Merging DEF PolicyArrives, Applied, PolicyIsFirst
    <3>2. AdminTypes' /\ OkHasSettings' /\ OneAtATime'
      BY <2>1, <3>1, <1>n, <1>k DEF serverVars, StatusTypes, OkHasSettings, OneAtATime
    <3>3. AnswersAreFresh' /\ FormIsFresh' /\ PolicyIsFirst'
      <4>1. doubt' \subseteq {"crossed"} => known = store /\ form = store
        BY <2>1, <3>1 DEF FormIsFresh, Shows, Settings
      <4> QED
        BY <2>1, <3>1, <4>1, <1>n DEF serverVars, AnswersAreFresh, FormIsFresh, Shows, PolicyIsFirst
    <3> QED
      BY <2>1, <3>1, <3>2, <3>3, <1>k, <1>h
  <2> QED
    BY <2>2, <2>3
<1>6. CASE LoadArrives
  <2>1. /\ load.step = "answered" /\ load' = None /\ load # None
        /\ UNCHANGED <<serverVars, policy, saving>>
    BY <1>6, <1>f, <1>n DEF LoadArrives
  <2>2. CASE load.kind = "ok"
    <3>1. /\ known' = load.value /\ form' = load.value /\ doubt' = Settled
          /\ secret' = secret /\ load.value \in Valid
      BY <1>6, <2>1, <2>2, Merging DEF LoadArrives, Applied, OkHasSettings
    <3>2. /\ doubt' \subseteq {"crossed"} => "crossed" \notin doubt
          /\ "overtaken" \in doubt <=> "overtaken" \in doubt'
      BY <3>1 DEF Settled
    <3>3. AdminTypes' /\ OkHasSettings'
      BY <2>1, <3>1, <1>n, <1>k DEF serverVars, StatusTypes, OkHasSettings
    <3>4. OneAtATime' /\ AnswersAreFresh'
      <4>1. CASE "crossed" \in doubt
        BY <3>1, <4>1 DEF Settled, OneAtATime, AnswersAreFresh
      <4>2. CASE "crossed" \notin doubt
        BY <2>1, <3>2, <4>2, <1>n DEF serverVars, OneAtATime, AnswersAreFresh
      <4> QED
        BY <4>1, <4>2
    <3>5. FormIsFresh' /\ PolicyIsFirst'
      <4>1. doubt' \subseteq {"crossed"} => load.value = store /\ saving = None
        BY <2>1, <2>2, <3>2 DEF AnswersAreFresh, OneAtATime
      <4> QED
        BY <2>1, <3>1, <4>1, <1>n DEF serverVars, FormIsFresh, Shows, PolicyIsFirst
    <3> QED
      BY <2>1, <3>2, <3>3, <3>4, <3>5, <1>k, <1>h
  <2>3. CASE load.kind # "ok"
    <3>1. secret' = "none" /\ UNCHANGED <<form, known, doubt>>
      BY <1>6, <2>3 DEF LoadArrives
    <3> QED
      BY <2>1, <3>1, <1>n, <1>k, <1>h DEF serverVars, StatusTypes, Passwords, OkHasSettings, OneAtATime,
         AnswersAreFresh, FormIsFresh, Shows, PolicyIsFirst
  <2> QED
    BY <2>2, <2>3
<1>7. CASE LoadFails
  <2>1. /\ policy' \in {policy, None} /\ load' \in {load, None}
        /\ UNCHANGED <<serverVars, form, known, secret, doubt, saving>>
    BY <1>7 DEF LoadFails
  <2>2. AdminTypes' /\ OkHasSettings' /\ OneAtATime'
    BY <2>1, <1>n, <1>k DEF serverVars, StatusTypes, OkHasSettings, OneAtATime
  <2>3. AnswersAreFresh' /\ FormIsFresh' /\ PolicyIsFirst'
    BY <2>1, <1>n DEF serverVars, AnswersAreFresh, FormIsFresh, Shows, PolicyIsFirst
  <2> QED
    BY <2>1, <2>2, <2>3, <1>k, <1>h
<1>8. CASE SaveFails
  <2>1. /\ saving' = None /\ doubt' = doubt \cup {"unsure"}
        /\ UNCHANGED <<serverVars, form, known, secret, policy, load>>
    BY <1>8 DEF SaveFails
  <2>2. AdminTypes' /\ OkHasSettings' /\ OneAtATime'
    BY <2>1, <1>n, <1>k DEF serverVars, StatusTypes, OkHasSettings, OneAtATime
  <2>3. AnswersAreFresh' /\ FormIsFresh' /\ PolicyIsFirst'
    BY <2>1, <1>n DEF serverVars, AnswersAreFresh, FormIsFresh, Shows, PolicyIsFirst
  <2> QED
    BY <2>1, <2>2, <2>3, <1>k, <1>h
<1> QED
  BY <1>1, <1>2, <1>3, <1>4, <1>5, <1>6, <1>7, <1>8

\* A save that ends, with the refresh of the status that follows it.
LEMMA SaveEnds == ASSUME AdminInv, SaveArrives \/ Refreshed PROVE AdminInv'
<1> USE AdminAssumptions, PartsOfSettings DEF AdminInv, AdminTypes
<1>n. None \in Calls /\ None.step = "none" /\ [step |-> "refreshing"].step = "refreshing"
  BY DEF Calls, None
<1>1. CASE Refreshed
  <2>1. /\ refresh' = NoRefresh /\ timer' = ~hidden /\ saving' \in {saving, None}
        /\ refresh.health = "done"
        /\ UNCHANGED <<serverVars, formVars, policy, load, available, label, hidden>>
    BY <1>1 DEF Refreshed
  <2>2. StatusTypes' /\ StatusIsKnown'
    BY <2>1 DEF StatusTypes, StatusIsKnown, RefreshStates
  <2>3. AdminTypes' /\ OkHasSettings' /\ OneAtATime'
    BY <2>1, <2>2, <1>n DEF serverVars, formVars, StatusTypes, OkHasSettings, OneAtATime
  <2>4. AnswersAreFresh' /\ HandlersAreFresh' /\ FormIsFresh' /\ PolicyIsFirst'
    BY <2>1, <1>n DEF serverVars, formVars, AnswersAreFresh, HandlersAreFresh, FormIsFresh, Shows, PolicyIsFirst
  <2> QED
    BY <2>2, <2>3, <2>4
<1>2. CASE SaveArrives
  <2>1. /\ saving.step = "answered" /\ saving # None
        /\ UNCHANGED <<serverVars, policy, load, timer, hidden>>
    BY <1>2, <1>n DEF SaveArrives
  <2>2. CASE saving.kind = "ok"
    <3>1. /\ known' = saving.value /\ form' = saving.value /\ doubt' = Settled
          /\ saving' = [step |-> "refreshing"] /\ Refreshing /\ secret' = secret
          /\ saving.value \in Valid
      BY <1>2, <2>1, <2>2, Merging DEF SaveArrives, Applied, OkHasSettings
    <3>2. StatusTypes' /\ StatusIsKnown'
      BY <2>1, <3>1, RefreshingKnows
    <3>3. /\ doubt' \subseteq {"crossed"} => "crossed" \notin doubt /\ "overtaken" \notin doubt
          /\ "overtaken" \in doubt <=> "overtaken" \in doubt'
      BY <3>1 DEF Settled
    <3>4. AdminTypes' /\ OkHasSettings'
      BY <2>1, <3>1, <3>2, <1>n DEF serverVars, StatusTypes, OkHasSettings
    <3>5. OneAtATime' /\ AnswersAreFresh'
      <4>1. CASE "crossed" \in doubt
        BY <3>1, <4>1 DEF Settled, OneAtATime, AnswersAreFresh
      <4>2. CASE "crossed" \notin doubt
        BY <2>1, <3>1, <4>2, <1>n DEF serverVars, OneAtATime, AnswersAreFresh
      <4> QED
        BY <4>1, <4>2
    <3>6. HandlersAreFresh'
      BY <2>1, <3>3 DEF HandlersAreFresh, serverVars
    <3>7. FormIsFresh' /\ PolicyIsFirst'
      BY <2>1, <2>2, <3>1, <3>3, <1>n DEF serverVars, AnswersAreFresh, FormIsFresh, Shows, PolicyIsFirst
    <3> QED
      BY <3>2, <3>4, <3>5, <3>6, <3>7
  <2>3. CASE saving.kind # "ok"
    <3>1. /\ saving' = None /\ secret' \in {secret, "none"}
          /\ UNCHANGED <<form, known, doubt, refresh, available, label>>
      BY <1>2, <2>3 DEF SaveArrives
    <3>2. StatusTypes' /\ StatusIsKnown'
      BY <2>1, <3>1, StatusKept DEF statusVars
    <3>3. AdminTypes' /\ OkHasSettings' /\ OneAtATime'
      BY <2>1, <3>1, <3>2, <1>n DEF serverVars, StatusTypes, Passwords, OkHasSettings, OneAtATime
    <3>4. AnswersAreFresh' /\ HandlersAreFresh' /\ FormIsFresh' /\ PolicyIsFirst'
      BY <2>1, <3>1, <1>n DEF serverVars, AnswersAreFresh, HandlersAreFresh, FormIsFresh, Shows, PolicyIsFirst
    <3> QED
      BY <3>2, <3>3, <3>4
  <2> QED
    BY <2>2, <2>3
<1> QED
  BY <1>1, <1>2

\* No step of the page, of a handler of /admin/config or of the network breaks the invariant.
LEMMA AdminStep == ASSUME AdminInv, AdminNext PROVE AdminInv'
BY StatusActions, ServerActions, FormActions, SaveEnds DEF AdminNext

\* The invariant is about the operator's page and the server's store only.
LEMMA AdminStutters == ASSUME AdminInv, UNCHANGED adminVars PROVE AdminInv'
<1>1. UNCHANGED <<serverVars, formVars, requestVars, statusVars>>
  BY DEF adminVars
<1> QED
  BY <1>1, StatusKept, StatusStep

\* What the runs check follows from the invariant.
LEMMA AdminInvImplies ==
  AdminInv => AdminTypeOK /\ StatusIsKept /\ FormIsServed /\ MeetingFollowsStore
<1> SUFFICES ASSUME AdminInv
             PROVE  AdminTypeOK /\ StatusIsKept /\ FormIsServed /\ MeetingFollowsStore
  OBVIOUS
<1> USE DEF AdminInv, AdminTypes
<1>1. AdminTypeOK
  <2>1. \A h \in handling : h.by \in {"page", "other"} /\ h.value \in Valid \cup {NoSettings}
    BY DEF Handlers, Snapshots
  <2>2. /\ policy.step \in {"none", "sent", "answered"} /\ load.step \in {"none", "sent", "answered"}
        /\ saving.step \in {"none", "sent", "stored", "answered", "refreshing"}
    <3>1. \A c \in {policy, load} : c.step \in {"none", "sent", "stored", "answered"}
      BY DEF Calls, None, SentCalls, AnsweredCalls
    <3>2. saving.step \in {"none", "sent", "stored", "answered", "refreshing"}
      BY CallFields
    <3> QED
      BY <3>1, <3>2
  <2>3. {refresh.health, refresh.metrics} \subseteq {"none", "sent", "done"}
    BY RefreshFields
  <2> QED
    BY <2>1, <2>2, <2>3 DEF AdminTypeOK, Passwords, Partial
<1>2. StatusIsKept
  BY DEF StatusIsKnown, StatusIsKept
<1>3. FormIsServed
  BY DEF FormIsFresh, Shows, FormIsServed
<1>4. MeetingFollowsStore
  BY DEF HandlersAreFresh, MeetingFollowsStore
<1> QED
  BY <1>1, <1>2, <1>3, <1>4

(***************************************************************************)
(* The lobby.                                                              *)
(*                                                                         *)
(* That no late answer brings the list of participants back rests on what  *)
(* every request under way has in common: the one that is current was sent *)
(* with the password that is typed now, and only the right password is     *)
(* answered with the list.                                                 *)
(***************************************************************************)
Requests == [password : BOOLEAN, current : BOOLEAN,
             reply : {"none", "old", "new", "refused"}]
Tests == [step : {"camera", "microphone", "devices"}, current : BOOLEAN]

LobbyTypes ==
  /\ screen \in {"welcome", "joining", "meeting", "ended"}
  /\ away \in BOOLEAN /\ typed \in BOOLEAN /\ canPoll \in BOOLEAN
  /\ polling \in BOOLEAN /\ debounce \in BOOLEAN /\ lapsed \in BOOLEAN
  /\ rows \in {"none", "old", "new"}
  /\ requests \subseteq Requests
  /\ config \subseteq {"visible", "submit"}
  /\ capture \subseteq {"camera", "microphone"}
  /\ tests \subseteq Tests

\* There is one current request and one current test at most.
OneRequest == \A r, s \in requests : r.current /\ s.current => r = s
OneTest == \A t, u \in tests : t.current /\ u.current => t = u

\* A poll is not armed while a request is under way.
PollOrRequest == polling => \A r \in requests : ~r.current

\* A request that counts has the password that is typed, and what came back is
\* the list for the right one only.
CurrentIsTyped == \A r \in requests : r.current => r.password = typed
ListIsEarned == \A r \in requests : r.reply \in {"old", "new"} => r.password

\* Only the form can be submitted, and beyond it nothing asks for the list.
SubmittedIsForm == "submit" \in config => screen = "welcome"
QuietBeyond ==
  screen \in {"meeting", "ended"} => ~debounce /\ ~polling /\ \A r \in requests : ~r.current

\* Beyond the form no test goes on, if none is started there.
TestIsOver ==
  ~TestsLate /\ screen # "welcome" => capture = {} /\ \A t \in tests : ~t.current

LobbyInv ==
  /\ LobbyTypes /\ OneRequest /\ OneTest /\ PollOrRequest
  /\ CurrentIsTyped /\ ListIsEarned /\ SubmittedIsForm /\ QuietBeyond /\ TestIsOver
  /\ RosterIsAllowed

\* A set without two different elements has at most one.
LEMMA AtMostOneElement ==
  ASSUME NEW S, \A x, y \in S : x = y
  PROVE  Cardinality(S) <= 1
<1>1. CASE S = {}
  BY <1>1, FS_EmptySet
<1>2. CASE S # {}
  <2>1. PICK x \in S : TRUE
    BY <1>2
  <2>2. S = {x}
    BY <2>1
  <2> QED
    BY <2>2, FS_Singleton
<1> QED
  BY <1>1, <1>2

\* Superseding keeps what was asked and answered, and nothing is current.
LEMMA SupersededRequests ==
  ASSUME NEW rs \in SUBSET Requests
  PROVE  /\ Superseded(rs) \in SUBSET Requests
         /\ \A s \in Superseded(rs) :
              /\ ~s.current
              /\ \E r \in rs : s.password = r.password /\ s.reply = r.reply
BY DEF Superseded, Requests

\* The page that is loaded satisfies the invariant.
LEMMA LobbyStarts == ASSUME LobbyInit PROVE LobbyInv
<1>1. [password |-> FALSE, current |-> TRUE, reply |-> "none"] \in Requests
  BY DEF Requests
<1>2. LobbyTypes
  BY <1>1 DEF LobbyInit, LobbyTypes
<1>3. OneRequest /\ OneTest /\ PollOrRequest /\ CurrentIsTyped /\ ListIsEarned
  <2> DEFINE first == [password |-> FALSE, current |-> TRUE, reply |-> "none"]
  <2>1. first.password = FALSE /\ first.reply = "none" /\ requests = {first}
    BY DEF LobbyInit
  <2> HIDE DEF first
  <2>2. OneRequest /\ ListIsEarned
    BY <2>1 DEF OneRequest, ListIsEarned
  <2>3. CurrentIsTyped
    BY <2>1, typed = FALSE DEF LobbyInit, CurrentIsTyped
  <2>4. OneTest /\ PollOrRequest
    BY DEF LobbyInit, OneTest, PollOrRequest
  <2> QED
    BY <2>2, <2>3, <2>4
<1>4. SubmittedIsForm /\ QuietBeyond /\ TestIsOver /\ RosterIsAllowed
  BY DEF LobbyInit, SubmittedIsForm, QuietBeyond, TestIsOver, RosterIsAllowed
<1> QED
  BY <1>2, <1>3, <1>4 DEF LobbyInv

\* No event of the page, answer or timer breaks the invariant.
LEMMA LobbyStep == ASSUME LobbyInv, LobbyNext PROVE LobbyInv'
<1> USE DEF LobbyInv, LobbyTypes, Welcome, Asking
<1> DEFINE Kept == Superseded(requests)
<1>0. /\ Kept \in SUBSET Requests
      /\ \A s \in Kept : ~s.current /\ \E r \in requests : s.password = r.password /\ s.reply = r.reply
  BY SupersededRequests
<1> HIDE DEF Kept
<1>r. ASSUME Refresh, UNCHANGED <<screen, away, typed>>
      PROVE  /\ requests' \subseteq Requests /\ polling' \in BOOLEAN /\ lapsed' \in BOOLEAN
             /\ OneRequest' /\ CurrentIsTyped' /\ ListIsEarned'
             /\ away \/ ~Welcome => UNCHANGED <<requests, polling, lapsed>>
             /\ ~away /\ Welcome => ~polling' /\ \E r \in requests' : r.current
  <2>1. CASE away \/ ~Welcome
    BY <1>r, <2>1 DEF Refresh, OneRequest, CurrentIsTyped, ListIsEarned
  <2>2. CASE ~(away \/ ~Welcome)
    <3>1. /\ requests' = Kept \cup {Request}
          /\ polling' = FALSE /\ lapsed' = FALSE
      BY <1>r, <2>2 DEF Refresh, Kept
    <3>2. Request \in Requests /\ Request.current /\ Request.password = typed /\ Request.reply = "none"
      BY DEF Request, Requests
    <3> QED
      BY <3>1, <3>2, <1>0, <2>2, <1>r DEF OneRequest, CurrentIsTyped, ListIsEarned
  <2> QED
    BY <2>1, <2>2
<1>s. ASSUME requests' = Kept
      PROVE  requests' \subseteq Requests /\ OneRequest' /\ CurrentIsTyped' /\ ListIsEarned'
             /\ \A r \in requests' : ~r.current
  BY <1>0, <1>s DEF OneRequest, CurrentIsTyped, ListIsEarned
<1>t. ASSUME StopTest
      PROVE  capture' = {} /\ tests' \subseteq Tests /\ OneTest' /\ \A t \in tests' : ~t.current
  BY <1>t DEF StopTest, Tests, OneTest
<1>a. ASSUME NEW r \in requests, NEW reply \in {"old", "new", "refused", "failed"},
             requests' = requests \ {r}, Answer(r, reply),
             reply \in {"old", "new"} => r.password,
             UNCHANGED <<screen, away, typed, config, debounce, lapsed>>
      PROVE  /\ rows' \in {"none", "old", "new"} /\ canPoll' \in BOOLEAN /\ polling' \in BOOLEAN
             /\ requests' \subseteq Requests
             /\ OneRequest' /\ PollOrRequest' /\ CurrentIsTyped' /\ ListIsEarned' /\ QuietBeyond'
             /\ RosterIsAllowed'
  <2>1. CASE ~r.current
    BY <1>a, <2>1 DEF Answer, OneRequest, PollOrRequest, CurrentIsTyped, ListIsEarned,
                      QuietBeyond, RosterIsAllowed
  <2>2. CASE r.current
    <3>1. /\ rows' = IF reply = "refused" THEN "none" ELSE IF reply = "failed" THEN rows ELSE reply
          /\ canPoll' = (reply # "refused")
          /\ polling' = (reply # "refused" /\ ~away /\ Welcome)
      BY <1>a, <2>2 DEF Answer
    <3>2. \A s \in requests' : ~s.current
      BY <1>a, <2>2 DEF OneRequest
    <3>3. r.password = typed
      BY <2>2 DEF CurrentIsTyped
    <3> QED
      BY <1>a, <3>1, <3>2, <3>3 DEF OneRequest, PollOrRequest, CurrentIsTyped, ListIsEarned,
                      QuietBeyond, RosterIsAllowed
  <2> QED
    BY <2>1, <2>2, <1>a DEF Requests
<1>1. CASE TypePassword
  BY <1>1, <1>s DEF TypePassword, Queue, testVars, Kept, OneTest, PollOrRequest,
     SubmittedIsForm, QuietBeyond, TestIsOver, RosterIsAllowed
<1>2. CASE DebounceTimer
  BY <1>2, <1>r DEF DebounceTimer, testVars, OneTest, PollOrRequest,
     SubmittedIsForm, QuietBeyond, TestIsOver, RosterIsAllowed
<1>3. CASE PollTimer
  <2>1. CASE away \/ ~Welcome
    BY <1>3, <2>1 DEF PollTimer, testVars, OneTest, PollOrRequest, OneRequest, CurrentIsTyped,
       ListIsEarned, SubmittedIsForm, QuietBeyond, TestIsOver, RosterIsAllowed
  <2>2. CASE ~(away \/ ~Welcome)
    BY <1>3, <2>2, <1>r DEF PollTimer, testVars, OneTest, PollOrRequest,
       SubmittedIsForm, QuietBeyond, TestIsOver, RosterIsAllowed
  <2> QED
    BY <2>1, <2>2
<1>4. CASE Serve
  <2>1. PICK r \in requests :
          /\ r.reply = "none"
          /\ requests' = (requests \ {r})
               \cup {[r EXCEPT !.reply = IF r.password THEN "new" ELSE "refused"]}
          /\ UNCHANGED <<screen, away, typed, config, rows, canPoll, polling, debounce, lapsed,
                         testVars, events>>
    BY <1>4 DEF Serve
  <2> DEFINE s == [r EXCEPT !.reply = IF r.password THEN "new" ELSE "refused"]
  <2>2. /\ s \in Requests /\ s.current = r.current /\ s.password = r.password
        /\ s.reply \in {"old", "new"} => s.password
    BY DEF Requests
  <2>3. requests' = (requests \ {r}) \cup {s}
    BY <2>1
  <2> HIDE DEF s
  <2> QED
    BY <2>1, <2>2, <2>3 DEF testVars, OneTest, PollOrRequest, OneRequest, CurrentIsTyped,
       ListIsEarned, SubmittedIsForm, QuietBeyond, TestIsOver, RosterIsAllowed
<1>5. CASE RoomChanges
  <2> DEFINE Aged(r) == [r EXCEPT !.reply = IF @ = "new" THEN "old" ELSE @]
  <2>1. \A r \in requests :
          /\ Aged(r) \in Requests /\ Aged(r).current = r.current /\ Aged(r).password = r.password
          /\ Aged(r).reply \in {"old", "new"} => r.reply \in {"old", "new"}
    BY DEF Requests
  <2>2. requests' = {Aged(r) : r \in requests}
    BY <1>5 DEF RoomChanges
  <2> HIDE DEF Aged
  <2>3. /\ requests' \subseteq Requests /\ OneRequest' /\ CurrentIsTyped' /\ ListIsEarned'
        /\ (\E r \in requests' : r.current) <=> (\E r \in requests : r.current)
    BY <1>5, <2>1, <2>2 DEF RoomChanges, OneRequest, CurrentIsTyped, ListIsEarned
  <2> QED
    BY <1>5, <2>3 DEF RoomChanges, testVars, OneTest, PollOrRequest,
       SubmittedIsForm, QuietBeyond, TestIsOver, RosterIsAllowed
<1>6. CASE Arrive
  <2>1. PICK r \in requests :
          /\ r.reply # "none" /\ requests' = requests \ {r} /\ Answer(r, r.reply)
          /\ UNCHANGED <<screen, away, typed, config, debounce, lapsed, testVars, events>>
    BY <1>6 DEF Arrive
  <2>2. r.reply \in {"old", "new", "refused", "failed"} /\ (r.reply \in {"old", "new"} => r.password)
    BY <2>1 DEF Requests, ListIsEarned
  <2> QED
    BY <2>1, <2>2, <1>a DEF testVars, OneTest, SubmittedIsForm, TestIsOver
<1>7. CASE Fail
  <2>1. PICK r \in requests :
          /\ requests' = requests \ {r}
          /\ IF r.current
               THEN /\ events < MaxEvents /\ events' = events + 1
                    /\ Answer(r, "failed")
               ELSE UNCHANGED <<rows, canPoll, polling, events>>
          /\ UNCHANGED <<screen, away, typed, config, debounce, lapsed, testVars>>
    BY <1>7 DEF Fail
  <2>2. Answer(r, "failed")
    BY <2>1 DEF Answer
  <2> QED
    BY <2>1, <2>2, <1>a DEF testVars, OneTest, SubmittedIsForm, TestIsOver
<1>8. CASE StartTest
  <2>1. [step |-> "camera", current |-> TRUE] \in Tests
    BY DEF Tests
  <2> QED
    BY <1>8, <2>1 DEF StartTest, rosterVars, OneTest, PollOrRequest, OneRequest, CurrentIsTyped,
       ListIsEarned, SubmittedIsForm, QuietBeyond, TestIsOver, RosterIsAllowed
<1>9. CASE PressStop
  BY <1>9, <1>t DEF PressStop, rosterVars, PollOrRequest, OneRequest, CurrentIsTyped,
       ListIsEarned, SubmittedIsForm, QuietBeyond, TestIsOver, RosterIsAllowed
<1>10. CASE GetDevice
  <2>1. PICK t \in tests :
          /\ t.step \in {"camera", "microphone"}
          /\ \/ Granted(t)
             \/ /\ tests' = (tests \ {t}) \cup {[t EXCEPT !.step = After(t.step)]}
                /\ UNCHANGED capture
          /\ UNCHANGED <<screen, away, typed, config, rosterVars, events>>
    BY <1>10 DEF GetDevice
  <2> DEFINE u == [t EXCEPT !.step = After(t.step)]
  <2>2. u \in Tests /\ u.current = t.current
    BY DEF Tests, After
  <2>3. \/ tests' = tests \ {t} /\ capture' = capture
        \/ tests' = (tests \ {t}) \cup {u} /\ capture' = capture
        \/ tests' = (tests \ {t}) \cup {u} /\ t.current /\ capture' = capture \cup {t.step}
    BY <2>1 DEF Granted
  <2> HIDE DEF u
  <2>4. capture' \subseteq {"camera", "microphone"} /\ tests' \subseteq Tests /\ OneTest' /\ TestIsOver'
    BY <2>1, <2>2, <2>3 DEF OneTest, TestIsOver
  <2> QED
    BY <2>1, <2>4 DEF rosterVars, PollOrRequest, OneRequest, CurrentIsTyped,
       ListIsEarned, SubmittedIsForm, QuietBeyond, RosterIsAllowed
<1>11. CASE EndTest
  BY <1>11 DEF EndTest, rosterVars, OneTest, PollOrRequest, OneRequest, CurrentIsTyped,
       ListIsEarned, SubmittedIsForm, QuietBeyond, TestIsOver, RosterIsAllowed
<1>12. CASE HideTab
  BY <1>12 DEF HideTab, testVars, OneTest, PollOrRequest, OneRequest, CurrentIsTyped,
       ListIsEarned, SubmittedIsForm, QuietBeyond, TestIsOver, RosterIsAllowed
<1>13. CASE ShowTab
  BY <1>13 DEF ShowTab, rosterVars, testVars, OneTest, PollOrRequest, OneRequest, CurrentIsTyped,
       ListIsEarned, SubmittedIsForm, QuietBeyond, TestIsOver, RosterIsAllowed
<1>14. CASE SubmitForm
  BY <1>14 DEF SubmitForm, rosterVars, testVars, OneTest, PollOrRequest, OneRequest, CurrentIsTyped,
       ListIsEarned, SubmittedIsForm, QuietBeyond, TestIsOver, RosterIsAllowed
<1>15. CASE ConfigArrives
  <2>1. /\ config' = {} /\ UNCHANGED <<away, typed, rows, canPoll, debounce, events>>
        /\ IF "submit" \in config THEN screen = "welcome" /\ screen' = "joining" /\ StopTest
                                  ELSE UNCHANGED <<screen, testVars>>
        /\ IF "visible" \in config THEN Refresh ELSE UNCHANGED <<requests, polling, lapsed>>
    BY <1>15 DEF ConfigArrives, SubmittedIsForm
  <2>2. screen' \in {"welcome", "joining", "meeting", "ended"} /\ (Welcome' <=> Welcome) /\ SubmittedIsForm'
    BY <2>1 DEF SubmittedIsForm
  <2>3. /\ capture' \subseteq {"camera", "microphone"} /\ tests' \subseteq Tests
        /\ OneTest' /\ TestIsOver'
    BY <2>1, <1>t DEF testVars, OneTest, TestIsOver
  <2>4. /\ requests' \subseteq Requests /\ polling' \in BOOLEAN /\ lapsed' \in BOOLEAN
        /\ OneRequest' /\ CurrentIsTyped' /\ ListIsEarned'
        /\ away \/ ~Welcome \/ "visible" \notin config => UNCHANGED <<requests, polling, lapsed>>
        /\ ~away /\ Welcome /\ "visible" \in config => ~polling' /\ \E r \in requests' : r.current
    <3>1. CASE ~("visible" \in config /\ ~away /\ Welcome)
      BY <2>1, <3>1 DEF Refresh, OneRequest, CurrentIsTyped, ListIsEarned
    <3>2. CASE "visible" \in config /\ ~away /\ Welcome
      <4>1. requests' = Kept \cup {Request} /\ polling' = FALSE /\ lapsed' = FALSE
        BY <2>1, <3>2 DEF Refresh, Kept
      <4>2. Request \in Requests /\ Request.current /\ Request.password = typed /\ Request.reply = "none"
        BY DEF Request, Requests
      <4> QED
        BY <4>1, <4>2, <2>1, <3>2, <1>0 DEF OneRequest, CurrentIsTyped, ListIsEarned
    <3> QED
      BY <3>1, <3>2
  <2> QED
    BY <2>1, <2>2, <2>3, <2>4 DEF PollOrRequest, QuietBeyond, RosterIsAllowed
<1>16. CASE ConfigFails
  BY <1>16 DEF ConfigFails, testVars, OneTest, PollOrRequest, OneRequest, CurrentIsTyped,
       ListIsEarned, SubmittedIsForm, QuietBeyond, TestIsOver, RosterIsAllowed
<1>17. CASE Admitted
  BY <1>17, <1>s DEF Admitted, StopRoster, testVars, Kept, OneTest, PollOrRequest,
       SubmittedIsForm, QuietBeyond, TestIsOver, RosterIsAllowed
<1>18. CASE Refused
  BY <1>18 DEF Refused, rosterVars, testVars, OneTest, PollOrRequest, OneRequest, CurrentIsTyped,
       ListIsEarned, SubmittedIsForm, QuietBeyond, TestIsOver, RosterIsAllowed
<1>19. CASE Leave
  BY <1>19 DEF Leave, rosterVars, testVars, OneTest, PollOrRequest, OneRequest, CurrentIsTyped,
       ListIsEarned, SubmittedIsForm, QuietBeyond, TestIsOver, RosterIsAllowed
<1>20. CASE Rejoin
  BY <1>20, <1>s DEF Rejoin, Queue, testVars, Kept, OneTest, PollOrRequest,
       SubmittedIsForm, QuietBeyond, TestIsOver, RosterIsAllowed
<1> QED
  BY <1>1, <1>2, <1>3, <1>4, <1>5, <1>6, <1>7, <1>8, <1>9, <1>10, <1>11, <1>12, <1>13,
     <1>14, <1>15, <1>16, <1>17, <1>18, <1>19, <1>20 DEF LobbyNext

\* The invariant is about the lobby's state only.
LEMMA LobbyStutters == ASSUME LobbyInv, UNCHANGED lobbyVars PROVE LobbyInv'
BY DEF LobbyInv, LobbyTypes, lobbyVars, rosterVars, testVars, OneRequest, OneTest, PollOrRequest,
       CurrentIsTyped, ListIsEarned, SubmittedIsForm, QuietBeyond, TestIsOver,
       RosterIsAllowed, Welcome, Asking

\* What the runs check follows from the invariant.
LEMMA LobbyInvImplies == LobbyInv => LobbyTypeOK /\ QuietInMeeting /\ RosterIsAllowed
<1> SUFFICES ASSUME LobbyInv PROVE LobbyTypeOK /\ QuietInMeeting /\ RosterIsAllowed
  OBVIOUS
<1>1. Cardinality({r \in requests : r.current}) <= 1
  BY AtMostOneElement DEF LobbyInv, OneRequest
<1>2. Cardinality({t \in tests : t.current}) <= 1
  BY AtMostOneElement DEF LobbyInv, OneTest
<1>3. \A r \in requests : r.reply \in {"none", "old", "new", "refused"}
  BY DEF LobbyInv, LobbyTypes, Requests
<1>4. LobbyTypeOK
  BY <1>1, <1>2, <1>3 DEF LobbyInv, LobbyTypes, LobbyTypeOK, PollOrRequest
<1>5. QuietInMeeting
  BY DEF LobbyInv, QuietInMeeting, QuietBeyond, TestIsOver, Asking
<1> QED
  BY <1>4, <1>5 DEF LobbyInv

(***************************************************************************)
(* The two together.                                                       *)
(***************************************************************************)
\* The invariants of the two pages hold in every reachable state.
LEMMA BothInvariants == PagesSpec => [](AdminInv /\ LobbyInv)
<1>1. PagesInit => AdminInv /\ LobbyInv
  BY AdminStarts, LobbyStarts DEF PagesInit
<1>2. AdminInv /\ LobbyInv /\ [PagesNext]_pagesVars => (AdminInv /\ LobbyInv)'
  <2> SUFFICES ASSUME AdminInv, LobbyInv, [PagesNext]_pagesVars
               PROVE  AdminInv' /\ LobbyInv'
    OBVIOUS
  <2>1. CASE AdminNext /\ UNCHANGED lobbyVars
    BY <2>1, AdminStep, LobbyStutters
  <2>2. CASE LobbyNext /\ UNCHANGED adminVars
    BY <2>2, LobbyStep, AdminStutters
  <2>3. CASE UNCHANGED pagesVars
    <3>1. UNCHANGED adminVars /\ UNCHANGED lobbyVars
      BY <2>3 DEF pagesVars
    <3> QED
      BY <3>1, AdminStutters, LobbyStutters
  <2> QED
    BY <2>1, <2>2, <2>3 DEF PagesNext
<1> QED
  BY <1>1, <1>2, PTL DEF PagesSpec

\* Whatever order answers, timers and clicks come in, the types are right, the
\* status that is shown is looked after (admin.js, refreshStatus), and in a meeting
\* nothing asks for the list of participants nor holds a device of the lobby's.
THEOREM PagesKeepQuiet == PagesSpec => []PagesInv
<1>1. AdminInv /\ LobbyInv => PagesInv
  BY AdminInvImplies, LobbyInvImplies DEF PagesInv
<1> QED
  BY <1>1, BothInvariants, PTL

\* Each part of the form that an answer has filled in shows what the server stores,
\* unless it was edited, another operator saved, an answer was lost or requests
\* crossed, although the public policy tells only one of the parts (server.go:91-102);
\* and the meeting follows what is stored unless a handler of /admin/config overtook
\* another one (server.go:252).
THEOREM FormFollowsStore == PagesSpec => []StoreIsFollowed
<1>1. AdminInv => StoreIsFollowed
  BY AdminInvImplies DEF StoreIsFollowed
<1> QED
  BY <1>1, BothInvariants, PTL

\* The list of participants is shown only to a password that may see it, or while
\* the page is about to ask again: no late answer of refreshRoomRoster brings it back.
THEOREM ListNeedsPassword == PagesSpec => []RosterIsAllowed
<1>1. LobbyInv => RosterIsAllowed
  BY LobbyInvImplies
<1> QED
  BY <1>1, BothInvariants, PTL

(***************************************************************************)
(* The camera.                                                             *)
(*                                                                         *)
(* The invariant says what is true between two awaits of the four tasks,   *)
(* in layers: the calls of setVideoSending that wait and the target, which *)
(* hold always; who is under way, what the device does and what is shown,  *)
(* until two tasks cross; what is wanted, unless "Protect audio" meets an  *)
(* operation; and what is published, as long as nothing fails.             *)
(* requestCameraState goes through several functions between two awaits,   *)
(* so the layers are predicates on a camera and the places of the tasks    *)
(* (CamGood), and each function takes a camera for which they hold to one  *)
(* for which they hold.                                                    *)
(*                                                                         *)
(* That a sender can always be added (Supply) is proved beside it: the     *)
(* model gives a connection four of them, the code as many as it wants.    *)
(***************************************************************************)
Handles == {0} \union Captures
Places == {0} \union Senders
Sends == [on : BOOLEAN, who : {"op", "restore", "none"}]
Cams == [live : SUBSET Captures, enabled : SUBSET Captures, handle : Handles,
         tracks : Seq(Captures), attached : [Senders -> Handles], active : SUBSET Senders,
         sender : Places, negotiated : BOOLEAN, requested : BOOLEAN,
         target : {"none", "on", "off"}, suspended : BOOLEAN, automatic : BOOLEAN,
         sends : Seq(Sends), audioOnly : BOOLEAN, before : BOOLEAN, quality : BOOLEAN,
         said : {"nothing", "on", "off"}]
Placing == {"constraining", "attaching", "activating", "negotiating"}
Enabling == {"capturing"} \union Placing
Disabling == {"detaching", "undoing"}
OpPcs == {"idle", "waiting", "resuming"} \union Enabling \union Disabling
RestorePcs == {"idle", "setup", "sending", "offering"} \union (Enabling \ {"negotiating"})
Procs == [pc : OpPcs \union RestorePcs, peer : Nat, cap : Handles, sender : Places, try : 0 .. 2,
          want : BOOLEAN, was : BOOLEAN]
Switches == [pc : {"idle", "capturing", "replacing"}, peer : Nat, cap : Handles, prev : Handles,
             sender : Places]

\* cap and sender are there where they are used.
ProcTyped(r) ==
  /\ r \in Procs
  /\ r.pc \in Placing => r.cap # 0
  /\ r.pc = "attaching" => r.sender # 0
OpTyped(r) ==
  /\ ProcTyped(r) /\ r.pc \in OpPcs
  /\ r.pc \in Enabling => r.peer # 0
  /\ r.want <=> r.pc \notin {"idle", "detaching"}
  /\ r.peer <= conns
RestoreTyped(r) ==
  /\ ProcTyped(r) /\ r.pc \in RestorePcs
  /\ r.pc # "idle" => peer # 0 /\ r.peer = peer

\* The types, what else is there when a task is where it is, and stream.
CameraTyped ==
  /\ cam \in Cams /\ DOMAIN proc = {"op", "restore"}
  /\ OpTyped(proc["op"]) /\ RestoreTyped(proc["restore"])
  /\ switch \in Switches /\ switch.peer <= conns
  /\ switch.pc = "replacing" => switch.cap # 0 /\ switch.sender # 0
  /\ switch.pc = "idle" => switch = NoSwitch
  /\ conns \in Nat /\ cameraActs \in Nat /\ drops \in Nat /\ failures \in Nat
  /\ peer \in 0 .. conns /\ stream = (IF peer = 0 \/ At("restore", "setup") THEN 0 ELSE peer)
  /\ asked \in {"none", "on", "off"} /\ crossed \in BOOLEAN /\ meddled \in BOOLEAN

\* What holds of the calls of setVideoSending that wait.
SendsInv(c, op, re) ==
  /\ \A i \in DOMAIN c.sends :
       /\ c.sends[i].who = "op" => op.pc = "resuming"
       /\ c.sends[i].who = "restore" => re.pc = "sending"
  /\ \A i, j \in DOMAIN c.sends : c.sends[i].who = c.sends[j].who => i = j \/ c.sends[i].who = "none"
  /\ c.sends # <<>> => c.sends[Len(c.sends)].on = ~c.suspended
  /\ c.audioOnly => c.suspended

\* The target is there while the operation is, and is what was asked last.
TargetInv(c, op) ==
  /\ c.target # "none" <=> op.pc # "idle"
  /\ op.pc # "idle" => /\ asked \in {"none", c.target}
                       /\ peer = 0 => asked # "on"
                       /\ ~c.quality => c.target = "off"

\* Until two tasks cross, one is under way: a switch meets nothing else, the restoration
\* meets no operation, and an operation that awaits is one of this connection.
OneTask(c, op, re) ==
  /\ switch # NoSwitch => /\ op.pc = "idle" /\ re.pc = "idle" /\ c.sends = <<>>
                          /\ peer # 0 /\ switch.peer = peer
  /\ re.pc # "idle" => op.pc = "idle" /\ \A i \in DOMAIN c.sends : c.sends[i].who = "restore"
  /\ op.pc \in Enabling \union Disabling /\ peer # 0 => op.peer = peer

Tracks(c) == {c.tracks[i] : i \in DOMAIN c.tracks}
\* Before the microphone is ready there is nothing.
Nothing(c) ==
  /\ c.handle = 0 /\ c.live = {} /\ c.tracks = <<>> /\ c.sender = 0
  /\ \A s \in Senders : c.attached[s] = 0

\* Where enableCameraOnce is with the capture that it places.
PlacedBy(c, r) ==
  r.pc \in Placing /\ r.peer = peer =>
     /\ c.handle = r.cap
     /\ r.pc \in {"constraining", "attaching"} => r.sender = c.sender
     /\ r.pc \in {"activating", "negotiating"} => c.sender # 0 /\ c.attached[c.sender] = r.cap

\* The device: what runs is what the handle names, or the capture that a switch is
\* about to adopt; what is attached is that capture, on the sender that was chosen.
Device(c, op, re) ==
  /\ stream = 0 => Nothing(c)
  /\ c.live \subseteq {c.handle} \union (IF switch.pc = "replacing" THEN {switch.cap} ELSE {})
  /\ c.handle # 0 /\ op.pc \notin Disabling => c.handle \in c.live /\ c.handle \in Tracks(c)
  /\ op.pc \in Disabling => /\ c.live = {}
                            /\ stream # 0 => op.cap = c.handle /\ op.sender = c.sender
  /\ op.pc \in {"capturing", "waiting"} \/ re.pc = "capturing" => c.handle = 0
  /\ PlacedBy(c, op) /\ PlacedBy(c, re)
  /\ \A s \in Senders : c.attached[s] # 0 => s = c.sender /\ c.attached[s] = c.handle
  /\ switch.pc = "replacing" => /\ switch.sender = c.sender /\ c.attached[c.sender] # 0
                                /\ switch.cap \in c.live

\* A track that is enabled is wanted, not suspended, and said to be on.
Shown(c, op, re) ==
  c.sends = <<>> /\ op.pc \notin Disabling /\ c.handle # 0 /\ c.handle \in c.enabled =>
    /\ c.requested /\ ~c.suspended
    /\ op.pc \notin Enabling /\ re.pc \notin Enabling => c.said = "on"

\* What is wanted at each await, unless "Protect audio" meets an operation.
Wished(c, op, re) ==
  /\ op.pc \in Disabling => ~c.requested
  /\ op.pc \in Placing => c.requested
  /\ op.pc = "resuming" => c.requested \/ peer = 0
  /\ c.audioOnly => op.pc = "idle" /\ ~c.requested /\ (c.before => c.quality)
  /\ op.pc = "idle" /\ ~c.quality => ~c.requested

Wants(c) == c.requested \/ (c.audioOnly /\ c.before)
\* The restoration enables the camera only if it is wanted.
RestoreWished(c, re) ==
  re.pc \in Enabling => re.want = ~c.audioOnly /\ Wants(c)

\* As long as nothing fails, what is wanted is published when the tasks are over,
\* and the camera is what was asked last.
Published(c) == c.sender # 0 /\ c.handle # 0 /\ c.attached[c.sender] = c.handle
Succeeds(c, op, re) ==
  /\ op.pc \in Enabling => op.try = 0
  /\ op.pc # "undoing"
  /\ op.pc = "waiting" => peer = 0
  /\ op.pc = "idle" => asked \in {"none", IF c.requested THEN "on" ELSE "off"}
  /\ re.pc = "offering" /\ Wants(c) => Published(c)
  /\ stream # 0 /\ re.pc = "idle" /\ op.pc \in {"idle", "turn", "resuming"} /\ Wants(c)
       => Published(c) /\ c.negotiated

\* All of it, of a camera c, an operation op, a restoration re and f failures: a step
\* changes these one after the other.
CamGood(c, op, re, f) ==
  /\ SendsInv(c, op, re) /\ TargetInv(c, op)
  /\ ~crossed => /\ OneTask(c, op, re) /\ Device(c, op, re) /\ Shown(c, op, re) /\ RestoreWished(c, re)
                 /\ ~meddled => /\ Wished(c, op, re)
                                /\ f = 0 => Succeeds(c, op, re)

\* Senders 2 to 4 that are taken, and calls that are about to add one.  The start of a
\* connection forgets one sender at most, so there is always a fourth.
One(b) == IF b THEN 1 ELSE 0
Pending(p) == One(At(p, "constraining") /\ ~Stale(p) /\ proc[p].sender = 0)
Taken(s) ==
  \/ cam.attached[s] # 0 \/ cam.sender = s
  \/ \E p \in {"op", "restore"} : /\ proc[p].pc \in {"constraining", "attaching"} /\ ~Stale(p)
                                  /\ proc[p].sender = s
  \/ switch.pc = "replacing" /\ peer # 0 /\ switch.peer = peer /\ switch.sender = s
TakenAll == One(Taken(2)) + One(Taken(3)) + One(Taken(4))
Supply ==
  IF stream = 0 THEN /\ TakenAll + Pending("op") <= 1
                     /\ cam.sender = 0 => TakenAll = 0
  ELSE /\ TakenAll + Pending("op") + Pending("restore") <= 3
       /\ cam.sender = 0 => TakenAll <= 1

\* A switch belongs to a connection.
SwitchPlaced == switch.pc # "idle" => switch.peer # 0


\* A turn of the loop of requestCameraState, between two awaits.
Turn == [Idle EXCEPT !.pc = "turn"]

\* What the functions of the model leave alone.
SameDevice(c, d) ==
  /\ d.live = c.live /\ d.handle = c.handle /\ d.tracks = c.tracks
  /\ d.attached = c.attached /\ d.sender = c.sender /\ d.negotiated = c.negotiated
SameWish(c, d) ==
  /\ d.requested = c.requested /\ d.target = c.target /\ d.audioOnly = c.audioOnly
  /\ d.before = c.before /\ d.quality = c.quality
SameSends(c, d) == d.suspended = c.suspended /\ d.automatic = c.automatic /\ d.sends = c.sends

\* What the functions do: they keep the types and leave most of the camera alone.
LEMMA AnnounceDoes ==
  ASSUME NEW c \in Cams
  PROVE  LET d == Announce(c) IN
         /\ d \in Cams /\ SameDevice(c, d) /\ SameWish(c, d) /\ SameSends(c, d)
         /\ d.enabled = c.enabled /\ d.active = c.active
         /\ d.said = IF peer = 0 THEN c.said
                     ELSE IF CameraOn(c) /\ c.handle \in c.enabled THEN "on" ELSE "off"
BY DEF Announce, Cams, SameDevice, SameWish, SameSends

LEMMA EnableDoes ==
  ASSUME NEW c \in Cams, NEW track \in Handles, NEW on \in BOOLEAN
  PROVE  LET d == Enable(c, track, on) IN
         /\ d \in Cams /\ SameDevice(c, d) /\ SameWish(c, d) /\ SameSends(c, d)
         /\ d.said = c.said /\ d.active = c.active
         /\ d.enabled = IF track = 0 THEN c.enabled
                        ELSE IF on THEN c.enabled \union {track} ELSE c.enabled \ {track}
BY DEF Enable, Cams, SameDevice, SameWish, SameSends, Handles

LEMMA ActivateDoes ==
  ASSUME NEW c \in Cams, NEW on \in BOOLEAN
  PROVE  LET d == Activate(c, on) IN
         /\ d \in Cams /\ SameDevice(c, d) /\ SameWish(c, d) /\ SameSends(c, d)
         /\ d.said = c.said /\ d.enabled = c.enabled
BY DEF Activate, Cams, SameDevice, SameWish, SameSends, Places

LEMMA SetVideoSendingDoes ==
  ASSUME NEW c \in Cams, NEW on \in BOOLEAN, NEW automatic \in BOOLEAN,
         NEW who \in {"op", "restore", "none"}
  PROVE  LET d == SetVideoSending(c, on, automatic, who)
             sending == on /\ ~c.audioOnly
         IN
         /\ d \in Cams /\ SameDevice(c, d) /\ SameWish(c, d)
         /\ d.said = c.said /\ d.enabled = c.enabled
         /\ d.suspended = ~sending /\ d.sends = Append(c.sends, [on |-> sending, who |-> who])
<1> DEFINE sending == on /\ ~c.audioOnly
           e == Activate(c, sending /\ c.requested)
<1>1. sending \in BOOLEAN /\ c.requested \in BOOLEAN /\ c.audioOnly \in BOOLEAN
  BY DEF Cams
<1>2. /\ e \in Cams /\ SameDevice(c, e) /\ SameWish(c, e) /\ SameSends(c, e)
      /\ e.said = c.said /\ e.enabled = c.enabled
  BY <1>1, ActivateDoes
<1>3. [on |-> sending, who |-> who] \in Sends
  BY <1>1 DEF Sends
<1>4. Append(e.sends, [on |-> sending, who |-> who]) \in Seq(Sends)
  BY <1>2, <1>3 DEF Cams
<1>5. SetVideoSending(c, on, automatic, who)
        = [e EXCEPT !.suspended = ~sending, !.automatic = ~sending /\ automatic /\ ~c.audioOnly,
                    !.sends = Append(@, [on |-> sending, who |-> who])]
  BY DEF SetVideoSending
<1> DEFINE d == SetVideoSending(c, on, automatic, who)
<1>6. (~sending) \in BOOLEAN /\ (~sending /\ automatic /\ ~c.audioOnly) \in BOOLEAN
  BY <1>1
<1> HIDE DEF sending, e
<1>7. /\ d \in Cams /\ SameDevice(e, d) /\ SameWish(e, d)
      /\ d.said = e.said /\ d.enabled = e.enabled
      /\ d.suspended = ~sending /\ d.sends = Append(e.sends, [on |-> sending, who |-> who])
  BY <1>2, <1>4, <1>5, <1>6 DEF Cams, SameDevice, SameWish
<1> HIDE DEF d
<1>8. /\ d \in Cams /\ SameDevice(c, d) /\ SameWish(c, d)
      /\ d.said = c.said /\ d.enabled = c.enabled
      /\ d.suspended = ~sending /\ d.sends = Append(c.sends, [on |-> sending, who |-> who])
  BY <1>2, <1>7 DEF SameDevice, SameWish, SameSends
<1> QED BY <1>8 DEF d, sending

LEMMA Assumed ==
  /\ MaxCaptures \in Nat /\ MaxFailures \in Nat /\ MaxDrops \in Nat /\ MaxCameraActs \in Nat
  /\ 0 \notin Captures /\ 0 \notin Senders
BY CameraAssumptions DEF Captures, Senders

\* The result of a function, for the operation and below for the restoration.
OpGood(x, re, f) == x.cam \in Cams /\ OpTyped(x.r) /\ CamGood(x.cam, x.r, re, f)

\* The operation fails, or begins anew: less is known than at a turn.
Loose(c, re) ==
  /\ SendsInv(c, Turn, re) /\ TargetInv(c, Turn)
  /\ ~crossed => /\ OneTask(c, Turn, re) /\ Device(c, Turn, re)
                 /\ ~meddled => ~c.audioOnly

\* A turn of the loop, and an operation that awaits, know enough to fail.
LEMMA TurnIsLoose ==
  ASSUME NEW c, NEW re, NEW f, CamGood(c, Turn, re, f)
  PROVE  Loose(c, re)
BY DEF CamGood, Loose, Wished, Turn, Idle

LEMMA EnablingIsLoose ==
  ASSUME NEW c \in Cams, NEW op, NEW re, NEW f, CamGood(c, op, re, f),
         op.pc \in Enabling \union {"waiting"}
  PROVE  Loose(c, re)
<1>1. Turn.pc = "turn" /\ op.pc \notin {"idle", "resuming"} /\ op.pc \notin Disabling
  BY DEF Turn, Idle, Enabling, Placing, Disabling
<1>2. SendsInv(c, Turn, re) /\ TargetInv(c, Turn)
  BY <1>1 DEF CamGood, SendsInv, TargetInv
<1>3. ~crossed => OneTask(c, Turn, re)
  BY <1>1 DEF CamGood, OneTask, Enabling, Placing, Disabling
<1>4. ~crossed => Device(c, Turn, re)
  BY <1>1 DEF CamGood, Device, Enabling, Placing, Disabling, PlacedBy
<1>5. ~crossed /\ ~meddled => ~c.audioOnly
  BY <1>1 DEF CamGood, Wished
<1> QED BY <1>2, <1>3, <1>4, <1>5 DEF Loose

\* What the loop does at the end of a turn: it finishes, or disables, resumes or enables.
LEMMA FinishGood ==
  ASSUME NEW c \in Cams, NEW re, NEW f, CamGood(c, Turn, re, f), conns \in Nat,
         ~crossed /\ ~meddled => /\ ~c.quality => ~c.requested
                                 /\ f = 0 => asked \in {"none", IF c.requested THEN "on" ELSE "off"}
  PROVE  OpGood(Finish(c), re, f)
<1> DEFINE d == [c EXCEPT !.target = "none"]
<1>1. Finish(c).cam = d /\ Finish(c).r = Idle
  BY DEF Finish, Result
<1>2. /\ d \in Cams /\ SameDevice(c, d) /\ SameSends(c, d)
      /\ d.enabled = c.enabled /\ d.said = c.said /\ d.target = "none"
      /\ d.requested = c.requested /\ d.audioOnly = c.audioOnly /\ d.before = c.before
      /\ d.quality = c.quality
  BY DEF Cams, SameDevice, SameSends
<1> HIDE DEF d
<1>3. Idle.pc = "idle" /\ Turn.pc = "turn" /\ Turn.cap = 0
  BY DEF Idle, Turn
<1>4. SendsInv(d, Idle, re) /\ TargetInv(d, Idle)
  BY <1>2, <1>3 DEF CamGood, SendsInv, TargetInv, SameSends
<1>5. ~crossed => OneTask(d, Idle, re) /\ RestoreWished(d, re) /\ Shown(d, Idle, re)
  BY <1>2, <1>3 DEF CamGood, OneTask, RestoreWished, Shown, SameSends, SameDevice, Enabling, Disabling, Placing
<1>6. ~crossed => Device(d, Idle, re)
  BY <1>2, <1>3 DEF CamGood, Device, SameDevice, Enabling, Disabling, Placing, Nothing, PlacedBy, Tracks
<1>7. ~crossed /\ ~meddled => Wished(d, Idle, re)
  BY <1>2, <1>3 DEF CamGood, Wished, Disabling, Placing
<1>8. ~crossed /\ ~meddled /\ f = 0 => Succeeds(d, Idle, re)
  BY <1>2, <1>3 DEF CamGood, Succeeds, SameDevice, Enabling, Disabling, Placing, Wants, Published
<1>9. OpTyped(Idle)
  BY DEF OpTyped, ProcTyped, Idle, Procs, OpPcs, Placing, Enabling, Handles, Places
<1> QED BY <1>1, <1>2, <1>4, <1>5, <1>6, <1>7, <1>8, <1>9 DEF CamGood, OpGood

LEMMA DisableGood ==
  ASSUME NEW c \in Cams, NEW r \in Procs, NEW pc \in Disabling, NEW re, NEW f, Loose(c, re),
         conns \in Nat, peer \in 0 .. conns, r.want <=> pc = "undoing",
         ~crossed /\ ~meddled /\ f = 0 => pc = "detaching"
  PROVE  OpGood(Disable(c, r, pc), re, f)
<1> DEFINE d == [c EXCEPT !.requested = FALSE, !.live = @ \ {c.handle}]
           q == [r EXCEPT !.pc = pc, !.peer = peer, !.cap = c.handle, !.sender = c.sender]
<1>1. Disable(c, r, pc).cam = d /\ Disable(c, r, pc).r = q
  BY DEF Disable, Result
<1>2. /\ d \in Cams /\ d.live = c.live \ {c.handle} /\ d.requested = FALSE
      /\ d.handle = c.handle /\ d.tracks = c.tracks /\ d.attached = c.attached
      /\ d.sender = c.sender /\ d.negotiated = c.negotiated
      /\ d.enabled = c.enabled /\ d.said = c.said /\ d.target = c.target
      /\ d.audioOnly = c.audioOnly /\ d.before = c.before /\ d.quality = c.quality
      /\ SameSends(c, d)
  BY DEF Cams, SameSends
<1>3. /\ q \in Procs /\ q.pc = pc /\ q.peer = peer /\ q.cap = c.handle /\ q.sender = c.sender
      /\ q.want = r.want
  <2>1. /\ peer \in Nat /\ c.handle \in Handles /\ c.sender \in Places
        /\ pc \in OpPcs \union RestorePcs
    BY DEF Cams, OpPcs, Disabling
  <2> QED BY <2>1 DEF Procs
<1> HIDE DEF d, q
<1>4. Turn.pc = "turn" /\ pc \in {"detaching", "undoing"}
  BY DEF Idle, Turn, Disabling
<1>5. OpTyped(q)
  BY <1>3, <1>4 DEF OpTyped, ProcTyped, OpPcs, Placing, Enabling, Disabling
<1>6. SendsInv(d, q, re) /\ TargetInv(d, q)
  BY <1>2, <1>3, <1>4 DEF Loose, SendsInv, TargetInv, SameSends
<1>7. ~crossed => OneTask(d, q, re)
  BY <1>2, <1>3, <1>4 DEF Loose, OneTask, SameSends
<1>8. ~crossed => Device(d, q, re)
  <2> SUFFICES ASSUME ~crossed PROVE Device(d, q, re)
    OBVIOUS
  <2>1. OneTask(c, Turn, re) /\ Device(c, Turn, re)
    BY DEF Loose
  <2>2. switch.pc # "replacing" /\ re.pc = "idle"
    BY <2>1, <1>4 DEF OneTask, NoSwitch
  <2>3. d.live = {}
    BY <2>1, <2>2, <1>2 DEF Device
  <2> QED BY <2>1, <2>2, <2>3, <1>2, <1>3, <1>4 DEF Device, Nothing, PlacedBy, Tracks, Placing, Disabling
<1>9. ~crossed => RestoreWished(d, re) /\ Shown(d, q, re)
  BY <1>2, <1>3, <1>4 DEF Loose, OneTask, RestoreWished, Shown, Enabling, Placing
<1>10. ~crossed /\ ~meddled => Wished(d, q, re)
  BY <1>2, <1>3, <1>4 DEF Loose, Wished, Disabling, Placing
<1>11. ~crossed /\ ~meddled /\ f = 0 => Succeeds(d, q, re)
  BY <1>2, <1>3, <1>4 DEF Loose, OneTask, Succeeds, Enabling, Disabling, Placing, Wants, Published
<1> QED BY <1>1, <1>2, <1>5, <1>6, <1>7, <1>8, <1>9, <1>10, <1>11 DEF CamGood, OpGood

LEMMA ResumeGood ==
  ASSUME NEW c \in Cams, NEW r \in Procs, NEW re, NEW f, CamGood(c, Turn, re, f),
         conns \in Nat, r.want,
         ~crossed /\ ~meddled => c.requested \/ peer = 0
  PROVE  OpGood(Resume(c, r), re, f)
<1> DEFINE d == SetVideoSending(c, TRUE, FALSE, "op")
           q == [Idle EXCEPT !.pc = "resuming", !.want = r.want, !.was = r.was]
<1>1. Resume(c, r).cam = d /\ Resume(c, r).r = q
  BY DEF Resume, Result
<1>2. /\ d \in Cams /\ SameDevice(c, d) /\ SameWish(c, d)
      /\ d.said = c.said /\ d.enabled = c.enabled
      /\ d.suspended = c.audioOnly /\ d.sends = Append(c.sends, [on |-> ~c.audioOnly, who |-> "op"])
  <2>1. c.audioOnly \in BOOLEAN
    BY DEF Cams
  <2> QED BY <2>1, SetVideoSendingDoes
<1>3. q.pc = "resuming" /\ q.want /\ q \in Procs /\ q.peer = 0
  <2>1. r.want \in BOOLEAN /\ r.was \in BOOLEAN
    BY DEF Procs
  <2>2. 0 \in Handles /\ 0 \in Places /\ "resuming" \in OpPcs
    BY DEF Handles, Places, OpPcs
  <2>3. Idle \in Procs /\ Idle.peer = 0
    BY DEF Idle, Procs, OpPcs, Handles, Places
  <2> QED BY <2>1, <2>2, <2>3 DEF Procs
<1> HIDE DEF d, q
<1>4. Turn.pc = "turn"
  BY DEF Idle, Turn
<1>5. OpTyped(q)
  BY <1>3, <1>4 DEF OpTyped, ProcTyped, OpPcs, Placing, Enabling, Disabling
<1>6. SendsInv(d, q, re)
  <2>1. c.sends \in Seq(Sends) /\ c.audioOnly \in BOOLEAN
    BY DEF Cams
  <2>2. SendsInv(c, Turn, re)
    BY DEF CamGood
  <2> QED BY <1>2, <1>3, <1>4, <2>1, <2>2 DEF SendsInv, SameWish
<1>7. TargetInv(d, q)
  BY <1>2, <1>3, <1>4 DEF CamGood, TargetInv, SameWish
<1>8. ~crossed => OneTask(d, q, re)
  BY <1>2, <1>3, <1>4 DEF CamGood, OneTask, Enabling, Placing, Disabling
<1>9. ~crossed => Device(d, q, re)
  BY <1>2, <1>3, <1>4 DEF CamGood, Device, SameDevice, Enabling, Disabling, Placing, Nothing, PlacedBy, Tracks
<1>10. ~crossed => RestoreWished(d, re) /\ Shown(d, q, re)
  <2>1. c.sends \in Seq(Sends)
    BY DEF Cams
  <2>2. d.sends # <<>>
    BY <2>1, <1>2
  <2> QED BY <2>2, <1>2, <1>3, <1>4 DEF CamGood, OneTask, RestoreWished, Shown, Enabling, Placing, SameWish
<1>11. ~crossed /\ ~meddled => Wished(d, q, re)
  BY <1>2, <1>3, <1>4 DEF CamGood, Wished, Disabling, Placing, SameWish
<1>12. ~crossed /\ ~meddled /\ f = 0 => Succeeds(d, q, re)
  BY <1>2, <1>3, <1>4 DEF CamGood, OneTask, Succeeds, Enabling, Disabling, Placing, Wants, Published, SameDevice, SameWish
<1> QED BY <1>1, <1>2, <1>5, <1>6, <1>7, <1>8, <1>9, <1>10, <1>11, <1>12 DEF CamGood, OpGood

\* enableCameraOnce has its capture.
LEMMA PrepareDoes ==
  ASSUME NEW c \in Cams, NEW r \in Procs, r.cap # 0
  PROVE  LET d == Prepare(c, r).cam
             q == Prepare(c, r).r
         IN
         /\ d \in Cams /\ SameSends(c, d) /\ d.handle = r.cap /\ d.live = c.live
         /\ d.enabled = IF ~c.suspended /\ ~c.audioOnly THEN c.enabled \union {r.cap} ELSE c.enabled \ {r.cap}
         /\ d.tracks = IF r.cap = c.handle \/ stream = 0 THEN c.tracks ELSE Append(c.tracks, r.cap)
         /\ d.requested = (c.requested \/ r.want) /\ d.negotiated = (c.negotiated /\ c.sender # 0)
         /\ d.attached = c.attached /\ d.sender = c.sender /\ d.said = c.said
         /\ d.target = c.target /\ d.audioOnly = c.audioOnly /\ d.before = c.before /\ d.quality = c.quality
         /\ q \in Procs /\ q = [r EXCEPT !.pc = "constraining", !.sender = c.sender]
<1> DEFINE on == ~c.suspended /\ ~c.audioOnly
           e == Enable(c, r.cap, on)
           tracks == IF r.cap = c.handle \/ stream = 0 THEN c.tracks ELSE Append(c.tracks, r.cap)
           d == [e EXCEPT !.handle = r.cap,
                  !.tracks = IF r.cap = c.handle \/ stream = 0 THEN @ ELSE Append(@, r.cap),
                  !.requested = @ \/ r.want,
                  !.negotiated = @ /\ c.sender # 0]
           q == [r EXCEPT !.pc = "constraining", !.sender = c.sender]
<1>1. Prepare(c, r).cam = d /\ Prepare(c, r).r = q
  BY DEF Prepare, Result, TrackEnabled
<1>2. r.cap \in Captures /\ r.cap \in Handles /\ r.want \in BOOLEAN
  BY DEF Procs, Handles
<1>3. c.suspended \in BOOLEAN /\ c.audioOnly \in BOOLEAN /\ c.tracks \in Seq(Captures)
      /\ on \in BOOLEAN
  BY DEF Cams
<1>4. /\ e \in Cams /\ SameDevice(c, e) /\ SameWish(c, e) /\ SameSends(c, e)
      /\ e.said = c.said
      /\ e.enabled = IF ~c.suspended /\ ~c.audioOnly THEN c.enabled \union {r.cap} ELSE c.enabled \ {r.cap}
  BY <1>2, <1>3, EnableDoes
<1> HIDE DEF e
<1>5. tracks \in Seq(Captures)
  BY <1>2, <1>3
<1>6. /\ d \in Cams /\ d.handle = r.cap /\ d.tracks = tracks
      /\ d.requested = (c.requested \/ r.want) /\ d.negotiated = (c.negotiated /\ c.sender # 0)
      /\ d.live = e.live /\ d.enabled = e.enabled /\ d.attached = e.attached /\ d.sender = e.sender
      /\ d.target = e.target /\ d.audioOnly = e.audioOnly /\ d.before = e.before
      /\ d.quality = e.quality /\ d.said = e.said /\ SameSends(e, d)
  <2>1. (e.requested \/ r.want) \in BOOLEAN /\ (e.negotiated /\ c.sender # 0) \in BOOLEAN
        /\ e.requested = c.requested /\ e.negotiated = c.negotiated /\ e.tracks = c.tracks
    BY <1>2, <1>4 DEF Cams, SameDevice, SameWish
  <2>2. d = [e EXCEPT !.handle = r.cap, !.tracks = tracks, !.requested = e.requested \/ r.want,
                      !.negotiated = e.negotiated /\ c.sender # 0]
    BY <1>4, <2>1
  <2> HIDE DEF d, tracks
  <2> QED BY <1>2, <1>4, <1>5, <2>1, <2>2 DEF Cams, SameSends
<1>7. q \in Procs
  BY DEF Procs, Cams, Enabling, Placing, RestorePcs, OpPcs
<1> QED BY <1>1, <1>4, <1>6, <1>7 DEF SameDevice, SameWish, SameSends

\* enableCameraOnce has a capture, the one that runs.
Captured(c, r) ==
  ~crossed =>
    /\ stream # 0 /\ switch = NoSwitch
    /\ c.live = {r.cap} /\ c.handle \in {0, r.cap}
    /\ c.handle # 0 => r.cap \in Tracks(c)
    /\ \A s \in Senders : c.attached[s] # 0 => s = c.sender /\ c.attached[s] = c.handle

LEMMA PrepareOp ==
  ASSUME NEW c \in Cams, NEW r \in Procs, r.cap # 0, r.want, r.peer = peer, peer # 0,
         conns \in Nat, peer \in 0 .. conns, NEW re, NEW f,
         SendsInv(c, Turn, re), TargetInv(c, Turn),
         ~crossed => OneTask(c, Turn, re) /\ (~meddled => ~c.audioOnly),
         ~crossed /\ ~meddled /\ f = 0 => r.try = 0,
         Captured(c, r)
  PROVE  OpGood(Prepare(c, r), re, f)
<1> DEFINE d == Prepare(c, r).cam
           q == Prepare(c, r).r
<1>1. /\ d \in Cams /\ SameSends(c, d) /\ d.handle = r.cap /\ d.live = c.live
      /\ d.enabled = IF ~c.suspended /\ ~c.audioOnly THEN c.enabled \union {r.cap} ELSE c.enabled \ {r.cap}
      /\ d.tracks = IF r.cap = c.handle \/ stream = 0 THEN c.tracks ELSE Append(c.tracks, r.cap)
      /\ d.requested = (c.requested \/ r.want) /\ d.negotiated = (c.negotiated /\ c.sender # 0)
      /\ d.attached = c.attached /\ d.sender = c.sender /\ d.said = c.said
      /\ d.target = c.target /\ d.audioOnly = c.audioOnly /\ d.before = c.before /\ d.quality = c.quality
      /\ q \in Procs /\ q = [r EXCEPT !.pc = "constraining", !.sender = c.sender]
  BY PrepareDoes
<1>2. /\ q.pc = "constraining" /\ q.cap = r.cap /\ q.want = r.want /\ q.peer = peer
      /\ q.sender = c.sender /\ q.try = r.try
  BY <1>1 DEF Procs
<1> HIDE DEF d, q
<1>3. Turn.pc = "turn"
  BY DEF Idle, Turn
<1>4. OpTyped(q)
  BY <1>1, <1>2 DEF OpTyped, ProcTyped, OpPcs, Placing, Enabling, Disabling
<1>5. SendsInv(d, q, re) /\ TargetInv(d, q)
  BY <1>1, <1>2, <1>3 DEF SendsInv, TargetInv, SameSends
<1>6. ~crossed => OneTask(d, q, re)
  BY <1>1, <1>2, <1>3 DEF OneTask, SameSends, Enabling, Disabling, Placing
<1>7. ~crossed => Device(d, q, re)
  <2> SUFFICES ASSUME ~crossed PROVE Device(d, q, re)
    OBVIOUS
  <2>1. re.pc = "idle" /\ NoSwitch.pc = "idle" /\ switch = NoSwitch /\ stream # 0
    BY <1>3 DEF OneTask, NoSwitch, Captured
  <2>2. r.cap \in Tracks(d)
    <3>1. CASE r.cap = c.handle
      BY <3>1, <1>1 DEF Captured, Tracks
    <3>2. CASE r.cap # c.handle
      <4>1. d.tracks = Append(c.tracks, r.cap) /\ c.tracks \in Seq(Captures)
        BY <3>2, <2>1, <1>1 DEF Cams
      <4> QED BY <4>1 DEF Tracks
    <3> QED BY <3>1, <3>2
  <2>3. PlacedBy(d, q) /\ PlacedBy(d, re)
    BY <1>1, <1>2, <2>1 DEF PlacedBy, Placing
  <2>4. \A s \in Senders : d.attached[s] # 0 => s = d.sender /\ d.attached[s] = d.handle
    BY <1>1 DEF Captured
  <2>5. d.live = {d.handle}
    BY <1>1 DEF Captured
  <2>6. switch.pc # "replacing"
    BY <2>1
  <2> HIDE DEF Device
  <2> QED BY <2>1, <2>2, <2>3, <2>4, <2>5, <2>6, <1>1, <1>2 DEF Device, Disabling
<1>8. ~crossed => RestoreWished(d, re) /\ Shown(d, q, re)
  <2> SUFFICES ASSUME ~crossed PROVE RestoreWished(d, re) /\ Shown(d, q, re)
    OBVIOUS
  <2>1. re.pc = "idle"
    BY <1>3 DEF OneTask
  <2>2. c.suspended \in BOOLEAN /\ d.suspended = c.suspended
    BY <1>1 DEF Cams, SameSends
  <2> QED BY <1>1, <1>2, <2>1, <2>2 DEF RestoreWished, Shown, Enabling, Placing, Disabling
<1>9. ~crossed /\ ~meddled => Wished(d, q, re)
  BY <1>1, <1>2 DEF Wished, Disabling, Placing
<1>10. ~crossed /\ ~meddled /\ f = 0 => Succeeds(d, q, re)
  BY <1>1, <1>2, <1>3 DEF OneTask, Succeeds, Enabling, Disabling, Placing
<1> QED BY <1>1, <1>4, <1>5, <1>6, <1>7, <1>8, <1>9, <1>10 DEF CamGood, OpGood, d, q

RestoreGood(x, op, f) == x.cam \in Cams /\ RestoreTyped(x.r) /\ CamGood(x.cam, op, x.r, f)

LEMMA PrepareRestore ==
  ASSUME NEW c \in Cams, NEW r \in Procs, r.cap # 0, r.peer = peer, peer # 0, NEW op, NEW f,
         SendsInv(c, op, Turn), TargetInv(c, op),
         ~crossed => OneTask(c, op, Turn) /\ r.want = ~c.audioOnly /\ Wants(c),
         ~crossed /\ ~meddled => Wished(c, op, Turn),
         ~crossed /\ ~meddled /\ f = 0 => Succeeds(c, op, Turn),
         Captured(c, r)
  PROVE  RestoreGood(Prepare(c, r), op, f)
<1> DEFINE d == Prepare(c, r).cam
           q == Prepare(c, r).r
<1>1. /\ d \in Cams /\ SameSends(c, d) /\ d.handle = r.cap /\ d.live = c.live
      /\ d.enabled = IF ~c.suspended /\ ~c.audioOnly THEN c.enabled \union {r.cap} ELSE c.enabled \ {r.cap}
      /\ d.tracks = IF r.cap = c.handle \/ stream = 0 THEN c.tracks ELSE Append(c.tracks, r.cap)
      /\ d.requested = (c.requested \/ r.want) /\ d.negotiated = (c.negotiated /\ c.sender # 0)
      /\ d.attached = c.attached /\ d.sender = c.sender /\ d.said = c.said
      /\ d.target = c.target /\ d.audioOnly = c.audioOnly /\ d.before = c.before /\ d.quality = c.quality
      /\ q \in Procs /\ q = [r EXCEPT !.pc = "constraining", !.sender = c.sender]
  BY PrepareDoes
<1>2. /\ q.pc = "constraining" /\ q.cap = r.cap /\ q.want = r.want /\ q.peer = peer
      /\ q.sender = c.sender /\ q.try = r.try
  BY <1>1 DEF Procs
<1> HIDE DEF d, q
<1>3. Turn.pc = "turn" /\ r.want \in BOOLEAN /\ c.audioOnly \in BOOLEAN /\ c.requested \in BOOLEAN
  BY DEF Idle, Turn, Procs, Cams
<1>4. RestoreTyped(q)
  BY <1>1, <1>2 DEF RestoreTyped, ProcTyped, RestorePcs, Placing, Enabling
<1>5. SendsInv(d, op, q) /\ TargetInv(d, op)
  BY <1>1, <1>2, <1>3 DEF SendsInv, TargetInv, SameSends
<1>6. ~crossed => OneTask(d, op, q)
  BY <1>1, <1>2, <1>3 DEF OneTask, SameSends, Enabling, Disabling, Placing
<1>7. ~crossed => Device(d, op, q)
  <2> SUFFICES ASSUME ~crossed PROVE Device(d, op, q)
    OBVIOUS
  <2>1. op.pc = "idle" /\ NoSwitch.pc = "idle" /\ switch = NoSwitch /\ stream # 0
    BY <1>3 DEF OneTask, NoSwitch, Captured
  <2>2. r.cap \in Tracks(d)
    <3>1. CASE r.cap = c.handle
      BY <3>1, <1>1 DEF Captured, Tracks
    <3>2. CASE r.cap # c.handle
      <4>1. d.tracks = Append(c.tracks, r.cap) /\ c.tracks \in Seq(Captures)
        BY <3>2, <2>1, <1>1 DEF Cams
      <4> QED BY <4>1 DEF Tracks
    <3> QED BY <3>1, <3>2
  <2>3. PlacedBy(d, q) /\ PlacedBy(d, op)
    BY <1>1, <1>2, <2>1 DEF PlacedBy, Placing
  <2>4. \A s \in Senders : d.attached[s] # 0 => s = d.sender /\ d.attached[s] = d.handle
    BY <1>1 DEF Captured
  <2>5. d.live = {d.handle}
    BY <1>1 DEF Captured
  <2>6. switch.pc # "replacing"
    BY <2>1
  <2> QED BY <2>1, <2>2, <2>3, <2>4, <2>5, <2>6, <1>1, <1>2 DEF Device, Disabling
<1>8. ~crossed => RestoreWished(d, q) /\ Shown(d, op, q)
  <2> SUFFICES ASSUME ~crossed PROVE RestoreWished(d, q) /\ Shown(d, op, q)
    OBVIOUS
  <2>1. op.pc = "idle"
    BY <1>3 DEF OneTask
  <2>2. c.suspended \in BOOLEAN /\ d.suspended = c.suspended
    BY <1>1 DEF Cams, SameSends
  <2> QED BY <1>1, <1>2, <1>3, <2>1, <2>2 DEF RestoreWished, Shown, Enabling, Placing, Disabling, Wants
<1>9. ~crossed /\ ~meddled => Wished(d, op, q)
  BY <1>1, <1>2, <1>3 DEF Wished, Disabling, Placing, Wants, OneTask
<1>10. ~crossed /\ ~meddled /\ f = 0 => Succeeds(d, op, q)
  BY <1>1, <1>2, <1>3 DEF OneTask, Succeeds, Enabling, Disabling, Placing, Wants, Wished
<1> QED BY <1>1, <1>4, <1>5, <1>6, <1>7, <1>8, <1>9, <1>10 DEF CamGood, RestoreGood, d, q

\* What the operators below read besides the camera.
Around(re) ==
  /\ conns \in Nat /\ peer \in 0 .. conns
  /\ stream = (IF peer = 0 \/ re.pc = "setup" THEN 0 ELSE peer)

LEMMA EnableOnceOp ==
  ASSUME NEW c \in Cams, NEW r \in Procs, NEW re, NEW f, Loose(c, re), Around(re),
         r.want, peer # 0, ~crossed /\ ~meddled /\ f = 0 => r.try = 0
  PROVE  OpGood(EnableOnce(c, r), re, f)
<1>1. CASE c.handle # 0 /\ c.handle \in c.live
  <2> DEFINE q == [r EXCEPT !.peer = peer, !.cap = c.handle]
  <2>1. EnableOnce(c, r) = Prepare(c, q)
    BY <1>1 DEF EnableOnce
  <2>2. peer \in Nat /\ c.handle \in Handles
    BY DEF Around, Cams
  <2>3. /\ q \in Procs /\ q.cap = c.handle /\ q.peer = peer /\ q.want = r.want /\ q.try = r.try
    BY <2>2 DEF Procs
  <2> HIDE DEF q
  <2>4. Captured(c, q)
    <3> SUFFICES ASSUME ~crossed
                 PROVE  /\ stream # 0 /\ switch = NoSwitch
                        /\ c.live = {q.cap} /\ c.handle \in {0, q.cap}
                        /\ c.handle # 0 => q.cap \in Tracks(c)
                        /\ \A s \in Senders : c.attached[s] # 0 => s = c.sender /\ c.attached[s] = c.handle
      BY DEF Captured
    <3>1. OneTask(c, Turn, re) /\ Device(c, Turn, re) /\ Turn.pc = "turn"
      BY DEF Loose, Turn, Idle
    <3>2. re.pc = "idle" /\ switch = NoSwitch /\ NoSwitch.pc = "idle"
      BY <3>1 DEF OneTask, NoSwitch
    <3>3. stream # 0
      BY <3>2 DEF Around
    <3>4. c.live \subseteq {c.handle}
      BY <3>1, <3>2 DEF Device
    <3> QED BY <1>1, <2>3, <3>1, <3>2, <3>3, <3>4 DEF Device, Disabling
  <2> QED BY <1>1, <2>1, <2>3, <2>4, PrepareOp DEF Around, Loose
<1>2. CASE ~(c.handle # 0 /\ c.handle \in c.live)
  <2> DEFINE d == [c EXCEPT !.handle = 0]
             q == [r EXCEPT !.pc = "capturing", !.peer = peer]
  <2>1. EnableOnce(c, r).cam = d /\ EnableOnce(c, r).r = q
    BY <1>2 DEF EnableOnce, Result
  <2>2. /\ d \in Cams /\ SameWish(c, d) /\ SameSends(c, d) /\ d.enabled = c.enabled /\ d.said = c.said
        /\ d.handle = 0 /\ d.live = c.live /\ d.tracks = c.tracks /\ d.attached = c.attached
        /\ d.sender = c.sender /\ d.negotiated = c.negotiated
    BY DEF Cams, SameWish, SameSends, Handles
  <2>3. q \in Procs /\ q.pc = "capturing" /\ q.peer = peer /\ q.want = r.want /\ q.try = r.try
    <3>1. peer \in Nat /\ "capturing" \in OpPcs
      BY DEF Around, OpPcs, Enabling
    <3> QED BY <3>1 DEF Procs
  <2> HIDE DEF d, q
  <2>4. Turn.pc = "turn"
    BY DEF Turn, Idle
  <2>5. OpTyped(q)
    BY <2>3 DEF Around, OpTyped, ProcTyped, OpPcs, Placing, Enabling, Disabling
  <2>6. SendsInv(d, q, re) /\ TargetInv(d, q)
    BY <2>2, <2>3, <2>4 DEF Loose, SendsInv, TargetInv, SameWish, SameSends
  <2>7. ~crossed => OneTask(d, q, re) /\ RestoreWished(d, re)
    BY <2>2, <2>3, <2>4 DEF Loose, OneTask, RestoreWished, Enabling, Placing, Disabling, SameSends
  <2>8. ~crossed => Device(d, q, re) /\ Shown(d, q, re)
    <3> SUFFICES ASSUME ~crossed PROVE Device(d, q, re) /\ Shown(d, q, re)
      OBVIOUS
    <3>1. OneTask(c, Turn, re) /\ Device(c, Turn, re)
      BY DEF Loose
    <3>2. re.pc = "idle" /\ c.handle = 0
      BY <1>2, <2>4, <3>1 DEF OneTask, Device, Disabling
    <3>3. PlacedBy(d, q) /\ PlacedBy(d, re)
      BY <2>3, <3>2 DEF PlacedBy, Placing
    <3> QED BY <2>2, <2>3, <2>4, <3>1, <3>2, <3>3 DEF Device, Nothing, Shown, Disabling, Tracks
  <2>9. ~crossed /\ ~meddled => Wished(d, q, re)
    BY <2>2, <2>3 DEF Loose, Wished, Disabling, Placing, SameWish
  <2>10. ~crossed /\ ~meddled /\ f = 0 => Succeeds(d, q, re)
    BY <2>2, <2>3, <2>4 DEF Loose, OneTask, Succeeds, Enabling, Disabling, Placing
  <2> QED BY <2>1, <2>2, <2>5, <2>6, <2>7, <2>8, <2>9, <2>10 DEF CamGood, OpGood
<1> QED BY <1>1, <1>2

\* One turn of the loop, and its condition.
LEMMA IterateGood ==
  ASSUME NEW c \in Cams, NEW re, NEW f, CamGood(c, Turn, re, f), Around(re)
  PROVE  OpGood(Iterate(c), re, f)
<1> DEFINE r == [Idle EXCEPT !.want = c.target = "on", !.was = c.requested]
<1>1. r \in Procs /\ r.want = (c.target = "on") /\ r.try = 0
  <2>1. Idle \in Procs /\ Idle.try = 0
    BY DEF Idle, Procs, OpPcs, Handles, Places
  <2>2. c.requested \in BOOLEAN
    BY DEF Cams
  <2> QED BY <2>1, <2>2 DEF Procs
<1>2. Loose(c, re)
  BY TurnIsLoose
<1>3. /\ ~r.want => Iterate(c) = Disable(c, r, "detaching")
      /\ r.want /\ peer # 0 => Iterate(c) = EnableOnce(c, r)
      /\ r.want /\ peer = 0 => Iterate(c) = IF c.automatic THEN Resume(c, r) ELSE Finish(c)
  BY DEF Iterate
<1> HIDE DEF r
<1>4. CASE ~r.want
  BY <1>1, <1>2, <1>3, <1>4, DisableGood DEF Around, Disabling
<1>5. CASE r.want /\ peer # 0
  BY <1>1, <1>2, <1>3, <1>5, EnableOnceOp
<1>6. CASE r.want /\ peer = 0
  <2>1. OpGood(Resume(c, r), re, f)
    BY <1>1, <1>6, ResumeGood DEF Around
  <2>2. c.quality /\ asked = "none"
    BY <1>1, <1>6 DEF CamGood, TargetInv, Turn, Idle
  <2>3. OpGood(Finish(c), re, f)
    BY <2>2, FinishGood DEF Around
  <2> QED BY <1>3, <1>6, <2>1, <2>3
<1> QED BY <1>4, <1>5, <1>6

LEMMA LoopAgainGood ==
  ASSUME NEW c \in Cams, NEW r, NEW re, NEW f, CamGood(c, Turn, re, f), Around(re),
         ~crossed /\ ~meddled => IF r.want THEN c.requested \/ peer = 0 ELSE ~c.requested
  PROVE  OpGood(LoopAgain(c, r), re, f)
<1>1. CASE \/ c.requested = r.was /\ (c.target = "on") = r.want
           \/ c.requested = (c.target = "on")
  <2>1. LoopAgain(c, r) = Finish(c)
    BY <1>1 DEF LoopAgain
  <2>2. asked \in {"none", c.target} /\ (peer = 0 => asked # "on") /\ (~c.quality => c.target = "off")
        /\ c.target \in {"on", "off"}
    BY DEF CamGood, TargetInv, Turn, Idle, Cams
  <2>3. ~crossed /\ ~meddled => /\ ~c.quality => ~c.requested
                                /\ asked \in {"none", IF c.requested THEN "on" ELSE "off"}
    BY <1>1, <2>2
  <2> QED BY <2>1, <2>3, FinishGood DEF Around
<1>2. CASE ~ \/ c.requested = r.was /\ (c.target = "on") = r.want
             \/ c.requested = (c.target = "on")
  BY <1>2, IterateGood DEF LoopAgain
<1> QED BY <1>1, <1>2

LEMMA EnabledOp ==
  ASSUME NEW c \in Cams, NEW r \in Procs, NEW re, NEW f, CamGood(c, Turn, re, f), Around(re), r.want,
         ~crossed /\ ~meddled => c.requested \/ peer = 0
  PROVE  OpGood(Enabled("op", c, r), re, f)
<1>1. OpGood(Resume(c, r), re, f)
  BY ResumeGood DEF Around
<1>2. OpGood(LoopAgain(c, r), re, f)
  BY LoopAgainGood
<1> QED BY <1>1, <1>2 DEF Enabled

\* A failed attempt is undone, repeated, or given up.
LEMMA RetryOrGiveUpGood ==
  ASSUME NEW c \in Cams, NEW r \in Procs, NEW re, NEW f, Loose(c, re), Around(re), r.want,
         ~crossed => c.handle = 0,
         ~crossed /\ ~meddled /\ f = 0 => r.try = 0 /\ peer = 0
  PROVE  OpGood(RetryOrGiveUp(c, r), re, f)
<1>0. Turn.pc = "turn" /\ r.try \in 0 .. 2
  BY DEF Turn, Idle, Procs
<1>1. CASE r.try < 2
  <2> DEFINE q == [Idle EXCEPT !.pc = "waiting", !.try = r.try + 1, !.want = r.want, !.was = r.was]
  <2>1. RetryOrGiveUp(c, r).cam = c /\ RetryOrGiveUp(c, r).r = q
    BY <1>1 DEF RetryOrGiveUp, Result
  <2>2. q \in Procs /\ q.pc = "waiting" /\ q.want /\ q.peer = 0
    <3>1. Idle \in Procs /\ Idle.peer = 0
      BY DEF Idle, Procs, OpPcs, Handles, Places
    <3>2. r.try + 1 \in 0 .. 2 /\ r.was \in BOOLEAN /\ r.want \in BOOLEAN
      BY <1>1 DEF Procs
    <3> QED BY <3>1, <3>2 DEF Procs, OpPcs
  <2> HIDE DEF q
  <2>3. OpTyped(q)
    BY <2>2 DEF Around, OpTyped, ProcTyped, OpPcs, Placing, Enabling, Disabling
  <2>4. SendsInv(c, q, re) /\ TargetInv(c, q)
    BY <1>0, <2>2 DEF Loose, SendsInv, TargetInv
  <2>5. ~crossed => OneTask(c, q, re) /\ RestoreWished(c, re) /\ Shown(c, q, re)
    BY <1>0, <2>2 DEF Loose, OneTask, RestoreWished, Shown, Enabling, Disabling, Placing
  <2>6. ~crossed => Device(c, q, re)
    BY <1>0, <2>2 DEF Loose, Device, Disabling, PlacedBy, Placing
  <2>7. ~crossed /\ ~meddled => Wished(c, q, re)
    BY <2>2 DEF Loose, Wished, Disabling, Placing
  <2>8. ~crossed /\ ~meddled /\ f = 0 => Succeeds(c, q, re)
    BY <1>0, <2>2 DEF Loose, OneTask, Succeeds, Enabling, Disabling, Placing
  <2> QED BY <2>1, <2>3, <2>4, <2>5, <2>6, <2>7, <2>8 DEF CamGood, OpGood
<1>2. CASE r.try = 2
  <2> DEFINE d == [c EXCEPT !.requested = FALSE]
  <2>1. RetryOrGiveUp(c, r) = Finish(d)
    BY <1>2 DEF RetryOrGiveUp
  <2>2. /\ d \in Cams /\ SameDevice(c, d) /\ SameSends(c, d) /\ d.requested = FALSE
        /\ d.target = c.target /\ d.audioOnly = c.audioOnly /\ d.quality = c.quality
    BY DEF Cams, SameDevice, SameSends
  <2> HIDE DEF d
  <2>3. SendsInv(d, Turn, re) /\ TargetInv(d, Turn)
    BY <2>2 DEF Loose, SendsInv, TargetInv, SameSends
  <2>4. ~crossed => OneTask(d, Turn, re) /\ RestoreWished(d, re) /\ Shown(d, Turn, re)
    BY <1>0, <2>2 DEF Loose, OneTask, RestoreWished, Shown, Enabling, Disabling, Placing, SameSends, SameDevice
  <2>5. ~crossed => Device(d, Turn, re)
    BY <1>0, <2>2 DEF Loose, Device, Nothing, Tracks, PlacedBy, SameDevice
  <2>6. ~crossed /\ ~meddled => Wished(d, Turn, re)
    BY <1>0, <2>2 DEF Loose, Wished, Disabling, Placing
  <2>7. ~crossed /\ ~meddled => f # 0
    BY <1>2
  <2>8. CamGood(d, Turn, re, f)
    BY <2>3, <2>4, <2>5, <2>6, <2>7 DEF CamGood
  <2> QED BY <2>1, <2>2, <2>7, <2>8, FinishGood DEF Around
<1> QED BY <1>0, <1>1, <1>2

LEMMA FailedOp ==
  ASSUME NEW c \in Cams, NEW r \in Procs, NEW re, NEW f, Loose(c, re), Around(re), r.want,
         ~crossed /\ ~meddled /\ f = 0 => r.try = 0 /\ peer = 0
  PROVE  OpGood(Failed("op", c, r), re, f)
<1>1. CASE c.handle # 0 \/ c.sender # 0
  <2>1. Failed("op", c, r) = Disable(c, r, "undoing")
    BY <1>1 DEF Failed
  <2>2. ~(~crossed /\ ~meddled /\ f = 0)
    BY <1>1 DEF Around, Loose, Device, Nothing
  <2> QED BY <2>1, <2>2, DisableGood DEF Around, Disabling
<1>2. CASE ~(c.handle # 0 \/ c.sender # 0)
  BY <1>2, RetryOrGiveUpGood DEF Failed
<1> QED BY <1>1, <1>2

\* A set of natural numbers has a least one.
LEMMA LeastNumber ==
  ASSUME NEW T, T \subseteq Nat, T # {}
  PROVE  \E x \in T : \A y \in T : x <= y
<1>1. PICK x \in T : \A y \in T : <<y, x>> \notin OpToRel(<, Nat)
  BY WFMin, NatLessThanWellFounded, Zenon
<1>2. \A y \in T : ~(y < x)
  BY <1>1, Zenon DEF OpToRel
<1>3. QED
  BY <1>2

\* Induction up to n, by the least number that is not in the set.
LEMMA UpTo ==
  ASSUME NEW n \in Nat, NEW T, 0 \in T, \A i \in 0 .. n - 1 : i \in T => i + 1 \in T
  PROVE  \A i \in 0 .. n : i \in T
<1> DEFINE B == (0 .. n) \ T
<1> SUFFICES ASSUME B # {} PROVE FALSE
  OBVIOUS
<1>1. B \subseteq Nat
  OBVIOUS
<1> HIDE DEF B
<1>2. PICK x \in B : \A y \in B : x <= y
  BY <1>1, LeastNumber
<1>3. x # 0
  BY DEF B
<1>4. x - 1 \in 0 .. n - 1 /\ x - 1 \notin B
  BY <1>2, <1>3 DEF B
<1>5. QED
  BY <1>4 DEF B
\* f collects the elements of s that lie in S, up to the n-th.
KeptBy(f, s, S, n) ==
  f = [i \in 0 .. n |-> IF i = 0 THEN <<>>
                        ELSE IF s[i] \in S THEN Append(f[i - 1], s[i]) ELSE f[i - 1]]

\* Keep is the value of such a function.
LEMMA KeptExists ==
  ASSUME NEW s, NEW S, NEW n \in Nat
  PROVE  \E f : KeptBy(f, s, S, n)
<1> DEFINE T == {i \in 0 .. n : \E f : KeptBy(f, s, S, i)}
<1>1. 0 \in T
  <2> DEFINE g == [i \in 0 .. 0 |-> <<>>]
  <2>1. KeptBy(g, s, S, 0)
    BY DEF KeptBy
  <2>2. QED
    BY <2>1
<1>2. ASSUME NEW i \in 0 .. n - 1, i \in T
      PROVE  i + 1 \in T
  <2>1. PICK f : KeptBy(f, s, S, i)
    BY <1>2
  <2> DEFINE last == IF s[i + 1] \in S THEN Append(f[i], s[i + 1]) ELSE f[i]
             g == [j \in 0 .. i + 1 |-> IF j = i + 1 THEN last ELSE f[j]]
  <2>2. ASSUME NEW j \in 0 .. i + 1
        PROVE  g[j] = IF j = 0 THEN <<>>
                      ELSE IF s[j] \in S THEN Append(g[j - 1], s[j]) ELSE g[j - 1]
    <3>1. CASE j = i + 1
      BY <3>1
    <3>2. CASE j # i + 1
      <4>1. j \in 0 .. i /\ g[j] = f[j] /\ (j # 0 => g[j - 1] = f[j - 1])
        BY <3>2
      <4>2. f[j] = IF j = 0 THEN <<>>
                   ELSE IF s[j] \in S THEN Append(f[j - 1], s[j]) ELSE f[j - 1]
        BY <2>1, <4>1 DEF KeptBy
      <4>3. QED
        BY <4>1, <4>2
    <3>3. QED
      BY <3>1, <3>2
  <2>3. KeptBy(g, s, S, i + 1)
    BY <2>2 DEF KeptBy
  <2>4. QED
    BY <2>3
<1>3. \A i \in 0 .. n : i \in T
  <2> HIDE DEF T
  <2>1. QED
    BY <1>1, <1>2, UpTo
<1>4. QED
  BY <1>3

\* Whether the next element is collected.
LEMMA KeptLast ==
  ASSUME NEW s, NEW S, Len(s) \in Nat
  PROVE  \E f : KeptBy(f, s, S, Len(s)) /\ Keep(s, S) = f[Len(s)]
<1> DEFINE f == CHOOSE f : KeptBy(f, s, S, Len(s))
<1>1. KeptBy(f, s, S, Len(s))
  BY KeptExists
<1>2. Keep(s, S) = f[Len(s)]
  BY Zenon DEF Keep, KeptBy
<1>3. QED
  BY <1>1, <1>2

\* What is kept of a sequence over E is a sequence over E, and not a longer one.
LEMMA KeepDoes ==
  ASSUME NEW E, NEW s \in Seq(E), NEW S
  PROVE  Keep(s, S) \in Seq(E) /\ Len(Keep(s, S)) <= Len(s)
<1>1. PICK f : KeptBy(f, s, S, Len(s)) /\ Keep(s, S) = f[Len(s)]
  BY KeptLast
<1> DEFINE n == Len(s)
           T == {i \in 0 .. n : f[i] \in Seq(E) /\ Len(f[i]) <= i}
<1>2. n \in Nat /\ \A i \in 1 .. n : s[i] \in E
  OBVIOUS
<1>3. 0 \in T
  BY <1>1, <1>2 DEF KeptBy
<1>4. ASSUME NEW i \in 0 .. n - 1, i \in T
      PROVE  i + 1 \in T
  <2>1. f[i + 1] = IF s[i + 1] \in S THEN Append(f[i], s[i + 1]) ELSE f[i]
    <3>1. i + 1 \in 0 .. Len(s) /\ i + 1 # 0 /\ (i + 1) - 1 = i
      OBVIOUS
    <3>2. QED
      BY <1>1, <3>1 DEF KeptBy
  <2>2. f[i] \in Seq(E) /\ Len(f[i]) <= i /\ s[i + 1] \in E /\ i + 1 \in 0 .. n
    BY <1>2, <1>4
  <2>3. f[i + 1] \in Seq(E) /\ Len(f[i + 1]) <= i + 1
    BY <2>1, <2>2
  <2> QED BY <2>2, <2>3
<1>5. n \in 0 .. n
  BY <1>2
<1>6. n \in T
  <2> HIDE DEF T, n
  <2> QED BY <1>2, <1>3, <1>4, <1>5, UpTo
<1> QED BY <1>1, <1>6


\* The invariant, but for the supply of senders.
Good == CameraTyped /\ CamGood(cam, proc["op"], proc["restore"], failures)

\* A step of one task keeps the invariant if its result does.
LEMMA StepOp ==
  ASSUME Good, NEW x, Step("op", x), failures' \in Nat, OpGood(x, proc["restore"], failures')
  PROVE  Good'
<1> DEFINE re == proc["restore"]
<1>1. /\ proc'["op"] = x.r /\ proc'["restore"] = re /\ cam' = x.cam /\ DOMAIN proc' = {"op", "restore"}
      /\ peer' = peer /\ stream' = stream /\ switch' = switch /\ asked' = asked
      /\ crossed' = crossed /\ meddled' = meddled /\ conns' = conns
      /\ cameraActs' = cameraActs /\ drops' = drops
  BY DEF Step, Good, CameraTyped
<1>2. /\ x.cam \in Cams /\ OpTyped(x.r) /\ CamGood(x.cam, x.r, re, failures')
  BY DEF OpGood
<1> HIDE DEF re
<1>3. CameraTyped'
  <2>1. OpTyped(proc["op"])' /\ RestoreTyped(proc["restore"])'
    BY <1>1, <1>2 DEF Good, CameraTyped, OpTyped, RestoreTyped, ProcTyped, re
  <2>2. stream' = (IF peer' = 0 \/ proc'["restore"].pc = "setup" THEN 0 ELSE peer')
    BY <1>1 DEF Good, CameraTyped, At, re
  <2> QED BY <1>1, <1>2, <2>1, <2>2 DEF Good, CameraTyped, At
<1>4. SendsInv(cam, proc["op"], proc["restore"])' /\ TargetInv(cam, proc["op"])'
  BY <1>1, <1>2 DEF CamGood, SendsInv, TargetInv
<1>5. ~crossed => OneTask(cam, proc["op"], proc["restore"])' /\ RestoreWished(cam, proc["restore"])'
  BY <1>1, <1>2 DEF CamGood, OneTask, RestoreWished, Wants
<1>6. ~crossed => Device(cam, proc["op"], proc["restore"])'
  BY <1>1, <1>2 DEF CamGood, Device, Nothing, PlacedBy, Tracks
<1>7. ~crossed => Shown(cam, proc["op"], proc["restore"])'
  BY <1>1, <1>2 DEF CamGood, Shown
<1>8. ~crossed /\ ~meddled => Wished(cam, proc["op"], proc["restore"])'
  BY <1>1, <1>2 DEF CamGood, Wished
<1>9. ~crossed /\ ~meddled /\ failures' = 0 => Succeeds(cam, proc["op"], proc["restore"])'
  BY <1>1, <1>2 DEF CamGood, Succeeds, Wants, Published
<1> QED BY <1>1, <1>3, <1>4, <1>5, <1>6, <1>7, <1>8, <1>9 DEF Good, CamGood

LEMMA StepRestore ==
  ASSUME Good, NEW x, Step("restore", x), failures' \in Nat, RestoreGood(x, proc["op"], failures'),
         At("restore", "setup") <=> x.r.pc = "setup"
  PROVE  Good'
<1> DEFINE op == proc["op"]
<1>1. /\ proc'["restore"] = x.r /\ proc'["op"] = op /\ cam' = x.cam /\ DOMAIN proc' = {"op", "restore"}
      /\ peer' = peer /\ stream' = stream /\ switch' = switch /\ asked' = asked
      /\ crossed' = crossed /\ meddled' = meddled /\ conns' = conns
      /\ cameraActs' = cameraActs /\ drops' = drops
  BY DEF Step, Good, CameraTyped
<1>2. /\ x.cam \in Cams /\ RestoreTyped(x.r) /\ CamGood(x.cam, op, x.r, failures')
  BY DEF RestoreGood
<1> HIDE DEF op
<1>3. CameraTyped'
  <2>1. OpTyped(proc["op"])' /\ RestoreTyped(proc["restore"])'
    BY <1>1, <1>2 DEF Good, CameraTyped, OpTyped, RestoreTyped, ProcTyped, op
  <2>2. stream' = (IF peer' = 0 \/ proc'["restore"].pc = "setup" THEN 0 ELSE peer')
    BY <1>1 DEF Good, CameraTyped, At
  <2> QED BY <1>1, <1>2, <2>1, <2>2 DEF Good, CameraTyped, At
<1>4. SendsInv(cam, proc["op"], proc["restore"])' /\ TargetInv(cam, proc["op"])'
  BY <1>1, <1>2 DEF CamGood, SendsInv, TargetInv
<1>5. ~crossed => OneTask(cam, proc["op"], proc["restore"])' /\ RestoreWished(cam, proc["restore"])'
  BY <1>1, <1>2 DEF CamGood, OneTask, RestoreWished, Wants
<1>6. ~crossed => Device(cam, proc["op"], proc["restore"])'
  BY <1>1, <1>2 DEF CamGood, Device, Nothing, PlacedBy, Tracks
<1>7. ~crossed => Shown(cam, proc["op"], proc["restore"])'
  BY <1>1, <1>2 DEF CamGood, Shown
<1>8. ~crossed /\ ~meddled => Wished(cam, proc["op"], proc["restore"])'
  BY <1>1, <1>2 DEF CamGood, Wished
<1>9. ~crossed /\ ~meddled /\ failures' = 0 => Succeeds(cam, proc["op"], proc["restore"])'
  BY <1>1, <1>2 DEF CamGood, Succeeds, Wants, Published
<1> QED BY <1>1, <1>3, <1>4, <1>5, <1>6, <1>7, <1>8, <1>9 DEF Good, CamGood

\* What happens to the camera between two awaits of enableCameraOnce.
Placed(c, d, q) ==
  /\ d \in Cams /\ SameWish(c, d) /\ SameSends(c, d)
  /\ d.live = c.live /\ d.handle = c.handle /\ d.tracks = c.tracks
  /\ d.enabled = c.enabled /\ d.said = c.said
  /\ q \in Procs /\ q.pc \in Placing /\ (q.pc = "attaching" => q.sender # 0)
  /\ ~crossed => PlacedBy(d, q) /\ \A s \in Senders : d.attached[s] # 0 => s = d.sender /\ d.attached[s] = d.handle

\* A task goes on to its next await.
LEMMA AdvanceOp ==
  ASSUME Good, proc["op"].pc \in Placing, ~Stale("op"),
         NEW d, NEW q, Placed(cam, d, q), q = [proc["op"] EXCEPT !.pc = q.pc, !.sender = q.sender]
  PROVE  OpGood(Result(d, q), proc["restore"], failures)
<1> DEFINE op == proc["op"]
           re == proc["restore"]
<1>1. /\ CameraTyped /\ CamGood(cam, op, re, failures) /\ op \in Procs /\ OpTyped(op) /\ op.pc \in Placing
      /\ op.peer = peer
  BY DEF Good, CameraTyped, OpTyped, ProcTyped, Stale
<1>2. q.cap = op.cap /\ q.peer = op.peer /\ q.want = op.want /\ q.try = op.try
  BY <1>1 DEF Procs, Placed
<1> HIDE DEF op, re
<1>3. OpTyped(q)
  BY <1>1, <1>2 DEF Placed, OpTyped, ProcTyped, OpPcs, Placing, Enabling
<1>4. SendsInv(d, q, re) /\ TargetInv(d, q)
  BY <1>1, <1>2 DEF CamGood, Placed, SendsInv, TargetInv, SameWish, SameSends, Placing
<1>5. ~crossed => OneTask(d, q, re)
  BY <1>1, <1>2 DEF CamGood, Placed, OneTask, SameSends, Enabling, Disabling, Placing
<1>6. ~crossed => Device(d, q, re)
  <2> SUFFICES ASSUME ~crossed PROVE Device(d, q, re)
    OBVIOUS
  <2>1. Device(cam, op, re) /\ OneTask(cam, op, re)
    BY <1>1 DEF CamGood
  <2>2. stream # 0 /\ re.pc = "idle" /\ switch = NoSwitch /\ NoSwitch.pc = "idle"
    BY <1>1, <2>1 DEF CameraTyped, OneTask, OpTyped, At, Placing, re, NoSwitch, Enabling
  <2>3. PlacedBy(d, re)
    BY <2>2 DEF PlacedBy, Placing
  <2>4. q.pc \notin Disabling /\ op.pc \notin Disabling /\ q.pc \notin {"capturing", "waiting"}
    BY <1>1 DEF Placed, Placing, Disabling
  <2> QED BY <2>1, <2>2, <2>3, <2>4 DEF Device, Placed, Tracks
<1>7. ~crossed => RestoreWished(d, re) /\ Shown(d, q, re)
  BY <1>1 DEF CamGood, OneTask, Placed, RestoreWished, Shown, Enabling, Placing, Disabling, SameWish, SameSends
<1>8. ~crossed /\ ~meddled => Wished(d, q, re)
  BY <1>1 DEF CamGood, Placed, Wished, Disabling, Placing, SameWish
<1>9. ~crossed /\ ~meddled /\ failures = 0 => Succeeds(d, q, re)
  BY <1>1, <1>2 DEF CamGood, OneTask, Placed, Succeeds, Enabling, Disabling, Placing
<1> QED BY <1>1, <1>3, <1>4, <1>5, <1>6, <1>7, <1>8, <1>9 DEF CamGood, OpGood, Placed, Result, re

LEMMA AdvanceRestore ==
  ASSUME Good, proc["restore"].pc \in Placing,
         NEW d, NEW q, Placed(cam, d, q), q.pc # "negotiating",
         q = [proc["restore"] EXCEPT !.pc = q.pc, !.sender = q.sender]
  PROVE  RestoreGood(Result(d, q), proc["op"], failures)
<1> DEFINE op == proc["op"]
           re == proc["restore"]
<1>1. /\ CameraTyped /\ CamGood(cam, op, re, failures) /\ re \in Procs /\ RestoreTyped(re) /\ re.pc \in Placing
      /\ re.peer = peer /\ peer # 0
  BY DEF Good, CameraTyped, RestoreTyped, ProcTyped, Placing
<1>2. q.cap = re.cap /\ q.peer = re.peer /\ q.want = re.want /\ q.try = re.try
  BY <1>1 DEF Procs, Placed
<1>0. stream # 0
  BY <1>1 DEF CameraTyped, At, Placing
<1> HIDE DEF op, re
<1>3. RestoreTyped(q)
  BY <1>1, <1>2 DEF Placed, RestoreTyped, ProcTyped, RestorePcs, Placing, Enabling
<1>4. SendsInv(d, op, q) /\ TargetInv(d, op)
  BY <1>1, <1>2 DEF CamGood, Placed, SendsInv, TargetInv, SameWish, SameSends, Placing
<1>5. ~crossed => OneTask(d, op, q)
  BY <1>1, <1>2 DEF CamGood, Placed, OneTask, SameSends, Enabling, Disabling, Placing
<1>6. ~crossed => Device(d, op, q)
  <2> SUFFICES ASSUME ~crossed PROVE Device(d, op, q)
    OBVIOUS
  <2>1. Device(cam, op, re) /\ OneTask(cam, op, re)
    BY <1>1 DEF CamGood
  <2>2. op.pc = "idle" /\ switch = NoSwitch /\ NoSwitch.pc = "idle"
    BY <1>1, <2>1 DEF OneTask, Placing, NoSwitch
  <2>3. PlacedBy(d, op)
    BY <2>2 DEF PlacedBy, Placing
  <2>4. q.pc # "capturing"
    BY <1>1 DEF Placed, Placing
  <2> QED BY <1>0, <2>1, <2>2, <2>3, <2>4 DEF Device, Placed, Tracks, Disabling
<1>7. ~crossed => RestoreWished(d, q) /\ Shown(d, op, q)
  BY <1>1, <1>2 DEF CamGood, OneTask, Placed, RestoreWished, Shown, Enabling, Placing, Disabling, SameWish, SameSends, Wants
<1>8. ~crossed /\ ~meddled => Wished(d, op, q)
  BY <1>1 DEF CamGood, Placed, Wished, Disabling, Placing, SameWish
<1>9. ~crossed /\ ~meddled /\ failures = 0 => Succeeds(d, op, q)
  BY <1>1, <1>2 DEF CamGood, OneTask, Placed, Succeeds, Enabling, Disabling, Placing, SameWish
<1> QED BY <1>1, <1>3, <1>4, <1>5, <1>6, <1>7, <1>8, <1>9 DEF CamGood, RestoreGood, Placed, Result, op

\* A capture that is granted is referred to by nobody.
LEMMA Fresh ==
  ASSUME Room
  PROVE  FreshCapture \in Captures /\ FreshCapture \notin Refers
BY DEF Room, FreshCapture

LEMMA AnnounceGood ==
  ASSUME NEW c \in Cams, c.audioOnly => c.suspended
  PROVE  LET d == Announce(c) IN
         peer # 0 /\ d.handle # 0 /\ d.handle \in d.enabled /\ d.requested /\ ~d.suspended => d.said = "on"
BY AnnounceDoes DEF CameraOn, SameDevice, SameWish, SameSends

\* The steps, one after the other: getUserMedia answers.
LEMMA CameraCapturedOp ==
  ASSUME Good, CameraCaptured("op")
  PROVE  Good'
<1> DEFINE op == proc["op"]
           re == proc["restore"]
           r == [op EXCEPT !.cap = FreshCapture]
           c == [cam EXCEPT !.live = @ \union {r.cap}]
<1>1. /\ op.pc = "capturing" /\ failures' = failures /\ failures \in Nat
      /\ Step("op", IF Stale("op") THEN Failed("op", cam, op) ELSE Prepare(c, r))
      /\ CameraTyped /\ CamGood(cam, op, re, failures) /\ cam \in Cams /\ op \in Procs /\ op.want
      /\ op.peer # 0 /\ Around(re)
  BY DEF CameraCaptured, At, Works, Good, CameraTyped, OpTyped, ProcTyped, Enabling, Around
<1>2. Loose(cam, re)
  BY <1>1, EnablingIsLoose DEF Enabling
<1>3. ~crossed /\ ~meddled /\ failures = 0 => op.try = 0
  BY <1>1 DEF CamGood, Succeeds, Enabling
<1>4. CASE Stale("op")
  <2>1. ~crossed => peer = 0
    BY <1>1, <1>4 DEF Stale, CamGood, OneTask, Enabling
  <2>2. OpGood(Failed("op", cam, op), re, failures)
    BY <1>1, <1>2, <1>3, <2>1, FailedOp
  <2> QED BY <1>1, <1>4, <2>2, StepOp
<1>5. CASE ~Stale("op")
  <2>0. FreshCapture \in Captures /\ FreshCapture \notin Refers /\ FreshCapture # 0
    BY Fresh, Assumed DEF CameraCaptured
  <2>1. /\ r \in Procs /\ r.cap = FreshCapture /\ r.peer = peer /\ r.want /\ r.try = op.try /\ peer # 0
    BY <1>1, <1>5, <2>0 DEF Procs, Handles, Stale
  <2> HIDE DEF r
  <2>2. /\ c \in Cams /\ c.live = cam.live \union {r.cap} /\ SameWish(cam, c) /\ SameSends(cam, c)
        /\ c.handle = cam.handle /\ c.tracks = cam.tracks /\ c.attached = cam.attached
        /\ c.sender = cam.sender
    BY <1>1, <2>0, <2>1 DEF Cams, SameWish, SameSends
  <2> HIDE DEF c
  <2>3. SendsInv(c, Turn, re) /\ TargetInv(c, Turn)
    BY <1>2, <2>2 DEF Loose, SendsInv, TargetInv, SameWish, SameSends
  <2>4. ~crossed => OneTask(c, Turn, re) /\ (~meddled => ~c.audioOnly)
    BY <1>2, <2>2 DEF Loose, OneTask, SameWish, SameSends
  <2>5. Captured(c, r)
    <3> SUFFICES ASSUME ~crossed
                 PROVE  /\ stream # 0 /\ switch = NoSwitch
                        /\ c.live = {r.cap} /\ c.handle \in {0, r.cap}
                        /\ c.handle # 0 => r.cap \in Tracks(c)
                        /\ \A s \in Senders : c.attached[s] # 0 => s = c.sender /\ c.attached[s] = c.handle
      BY DEF Captured
    <3>1. OneTask(cam, op, re) /\ Device(cam, op, re)
      BY <1>1 DEF CamGood
    <3>2. re.pc = "idle" /\ switch = NoSwitch /\ NoSwitch.pc = "idle"
      BY <1>1, <3>1 DEF OneTask, NoSwitch
    <3>3. stream # 0 /\ cam.handle = 0
      BY <1>1, <2>1, <3>1, <3>2 DEF Around, Device
    <3>4. cam.live = {}
      BY <1>1, <3>1, <3>2, <3>3, Assumed DEF Device, Cams
    <3> QED BY <2>2, <3>1, <3>2, <3>3, <3>4 DEF Device
  <2>6. OpGood(Prepare(c, r), re, failures)
    BY <1>1, <1>3, <2>0, <2>1, <2>2, <2>3, <2>4, <2>5, PrepareOp DEF Around
  <2> QED BY <1>1, <1>5, <2>6, StepOp
<1> QED BY <1>4, <1>5

LEMMA EnableOnceRestore ==
  ASSUME NEW c \in Cams, NEW r \in Procs, NEW op, NEW f, CamGood(c, op, Turn, f),
         peer \in Nat, peer # 0, stream = peer, r.want = ~c.audioOnly, Wants(c)
  PROVE  RestoreGood(EnableOnce(c, r), op, f)
<1>0. Turn.pc = "turn"
  BY DEF Turn, Idle
<1>1. CASE c.handle # 0 /\ c.handle \in c.live
  <2> DEFINE q == [r EXCEPT !.peer = peer, !.cap = c.handle]
  <2>1. EnableOnce(c, r) = Prepare(c, q)
    BY <1>1 DEF EnableOnce
  <2>3. /\ q \in Procs /\ q.cap = c.handle /\ q.peer = peer /\ q.want = r.want /\ q.try = r.try
    BY DEF Procs, Cams
  <2> HIDE DEF q
  <2>4. Captured(c, q)
    <3> SUFFICES ASSUME ~crossed
                 PROVE  /\ stream # 0 /\ switch = NoSwitch
                        /\ c.live = {q.cap} /\ c.handle \in {0, q.cap}
                        /\ c.handle # 0 => q.cap \in Tracks(c)
                        /\ \A s \in Senders : c.attached[s] # 0 => s = c.sender /\ c.attached[s] = c.handle
      BY DEF Captured
    <3>1. OneTask(c, op, Turn) /\ Device(c, op, Turn)
      BY DEF CamGood
    <3>2. op.pc = "idle" /\ switch = NoSwitch /\ NoSwitch.pc = "idle"
      BY <1>0, <3>1 DEF OneTask, NoSwitch
    <3>4. c.live \subseteq {c.handle}
      BY <3>1, <3>2 DEF Device
    <3> QED BY <1>1, <2>3, <3>1, <3>2, <3>4 DEF Device, Disabling
  <2> QED BY <1>1, <2>1, <2>3, <2>4, PrepareRestore DEF CamGood
<1>2. CASE ~(c.handle # 0 /\ c.handle \in c.live)
  <2> DEFINE d == [c EXCEPT !.handle = 0]
             q == [r EXCEPT !.pc = "capturing", !.peer = peer]
  <2>1. EnableOnce(c, r).cam = d /\ EnableOnce(c, r).r = q
    BY <1>2 DEF EnableOnce, Result
  <2>2. /\ d \in Cams /\ SameWish(c, d) /\ SameSends(c, d) /\ d.enabled = c.enabled /\ d.said = c.said
        /\ d.handle = 0 /\ d.live = c.live /\ d.tracks = c.tracks /\ d.attached = c.attached
        /\ d.sender = c.sender /\ d.negotiated = c.negotiated
    BY DEF Cams, SameWish, SameSends, Handles
  <2>3. q \in Procs /\ q.pc = "capturing" /\ q.peer = peer /\ q.want = r.want /\ q.try = r.try
    <3>1. "capturing" \in OpPcs
      BY DEF OpPcs, Enabling
    <3> QED BY <3>1 DEF Procs
  <2> HIDE DEF d, q
  <2>5. RestoreTyped(q)
    BY <2>3 DEF RestoreTyped, ProcTyped, RestorePcs, Placing, Enabling, Disabling
  <2>6. SendsInv(d, op, q) /\ TargetInv(d, op)
    BY <1>0, <2>2, <2>3 DEF CamGood, SendsInv, TargetInv, SameWish, SameSends
  <2>7. ~crossed => OneTask(d, op, q) /\ RestoreWished(d, q)
    BY <1>0, <2>2, <2>3 DEF CamGood, OneTask, RestoreWished, Enabling, Placing, Disabling, SameSends, SameWish, Wants
  <2>8. ~crossed => Device(d, op, q) /\ Shown(d, op, q)
    <3> SUFFICES ASSUME ~crossed PROVE Device(d, op, q) /\ Shown(d, op, q)
      OBVIOUS
    <3>1. OneTask(c, op, Turn) /\ Device(c, op, Turn)
      BY DEF CamGood
    <3>2. op.pc = "idle" /\ c.handle = 0
      BY <1>2, <1>0, <3>1 DEF OneTask, Device, Disabling
    <3>3. PlacedBy(d, q) /\ PlacedBy(d, op)
      BY <2>3, <3>2 DEF PlacedBy, Placing
    <3> QED BY <2>2, <2>3, <3>1, <3>2, <3>3 DEF Device, Nothing, Shown, Disabling, Tracks
  <2>9. ~crossed /\ ~meddled => Wished(d, op, q)
    BY <2>2, <2>3 DEF CamGood, Wished, Disabling, Placing, SameWish
  <2>10. ~crossed /\ ~meddled /\ f = 0 => Succeeds(d, op, q)
    BY <2>2, <2>3, <1>0 DEF CamGood, OneTask, Succeeds, Enabling, Disabling, Placing, SameWish
  <2> QED BY <2>1, <2>2, <2>5, <2>6, <2>7, <2>8, <2>9, <2>10 DEF CamGood, RestoreGood
<1> QED BY <1>1, <1>2

LEMMA CameraCapturedRestore ==
  ASSUME Good, CameraCaptured("restore")
  PROVE  Good'
<1> DEFINE op == proc["op"]
           re == proc["restore"]
           r == [re EXCEPT !.cap = FreshCapture]
           c == [cam EXCEPT !.live = @ \union {r.cap}]
<1>1. /\ re.pc = "capturing" /\ failures' = failures /\ failures \in Nat
      /\ re.peer = peer /\ peer # 0 /\ stream = peer
      /\ CameraTyped /\ CamGood(cam, op, re, failures) /\ cam \in Cams /\ re \in Procs
  BY DEF CameraCaptured, At, Works, Good, CameraTyped, RestoreTyped, ProcTyped
<1>2. Step("restore", Prepare(c, r))
  BY <1>1 DEF CameraCaptured, Stale
<1>3. FreshCapture \in Captures /\ FreshCapture \notin Refers /\ FreshCapture # 0
  BY Fresh, Assumed DEF CameraCaptured
<1>4. r \in Procs /\ r.cap = FreshCapture /\ r.peer = peer /\ r.want = re.want
  BY <1>1, <1>3 DEF Procs, Handles
<1> HIDE DEF r
<1>5. /\ c \in Cams /\ c.live = cam.live \union {r.cap} /\ SameWish(cam, c) /\ SameSends(cam, c)
      /\ c.handle = cam.handle /\ c.tracks = cam.tracks /\ c.attached = cam.attached
      /\ c.sender = cam.sender /\ c.negotiated = cam.negotiated
  BY <1>1, <1>3, <1>4 DEF Cams, SameWish, SameSends
<1> HIDE DEF c, op, re
<1>6. Turn.pc = "turn"
  BY DEF Turn, Idle
<1>7. SendsInv(c, op, Turn) /\ TargetInv(c, op)
  BY <1>1, <1>5, <1>6 DEF CamGood, SendsInv, TargetInv, SameWish, SameSends
<1>8. ~crossed => OneTask(c, op, Turn) /\ r.want = ~c.audioOnly /\ Wants(c)
  BY <1>1, <1>4, <1>5, <1>6 DEF CamGood, OneTask, SameWish, SameSends, RestoreWished, Enabling, Wants
<1>9. ~crossed /\ ~meddled => Wished(c, op, Turn)
  BY <1>1, <1>5 DEF CamGood, Wished, SameWish
<1>10. ~crossed /\ ~meddled /\ failures = 0 => Succeeds(c, op, Turn)
  BY <1>1, <1>5, <1>6 DEF CamGood, OneTask, Succeeds, SameWish
<1>11. Captured(c, r)
  <2> SUFFICES ASSUME ~crossed
               PROVE  /\ stream # 0 /\ switch = NoSwitch
                      /\ c.live = {r.cap} /\ c.handle \in {0, r.cap}
                      /\ c.handle # 0 => r.cap \in Tracks(c)
                      /\ \A s \in Senders : c.attached[s] # 0 => s = c.sender /\ c.attached[s] = c.handle
    BY DEF Captured
  <2>1. OneTask(cam, op, re) /\ Device(cam, op, re)
    BY <1>1 DEF CamGood
  <2>2. switch = NoSwitch /\ NoSwitch.pc = "idle" /\ cam.handle = 0
    BY <1>1, <2>1 DEF OneTask, NoSwitch, Device
  <2>3. cam.live = {}
    BY <1>1, <2>1, <2>2, Assumed DEF Device, Cams
  <2> QED BY <1>1, <1>5, <2>1, <2>2, <2>3 DEF Device
<1>12. RestoreGood(Prepare(c, r), op, failures)
  BY <1>1, <1>3, <1>4, <1>5, <1>7, <1>8, <1>9, <1>10, <1>11, PrepareRestore
<1>13. Prepare(c, r).r.pc = "constraining"
  <2>1. Prepare(c, r).r = [r EXCEPT !.pc = "constraining", !.sender = c.sender]
    BY DEF Prepare, Result
  <2> QED BY <1>4, <2>1 DEF Procs
<1> QED BY <1>1, <1>2, <1>12, <1>13, StepRestore DEF op, re, At

LEMMA CameraRefusedGood ==
  ASSUME Good, NEW p \in {"op", "restore"}, CameraRefused(p)
  PROVE  Good'
<1> DEFINE op == proc["op"]
           re == proc["restore"]
<1>1. /\ proc[p].pc = "capturing" /\ failures' = failures + 1 /\ failures \in Nat
      /\ Step(p, Failed(p, cam, proc[p]))
      /\ CameraTyped /\ CamGood(cam, op, re, failures) /\ cam \in Cams /\ op \in Procs /\ re \in Procs
      /\ Around(re) /\ conns \in Nat
  BY DEF CameraRefused, At, Mishap, Good, CameraTyped, OpTyped, RestoreTyped, ProcTyped, Around
<1>2. CamGood(cam, op, re, failures + 1)
  BY <1>1 DEF CamGood
<1>3. failures' # 0 /\ failures' \in Nat
  BY <1>1
<1>4. CASE p = "op"
  <2>1. Loose(cam, re) /\ op.want
    BY <1>1, <1>4, EnablingIsLoose DEF Enabling, CameraTyped, OpTyped
  <2>2. OpGood(Failed("op", cam, op), re, failures')
    BY <1>1, <1>3, <2>1, FailedOp
  <2> QED BY <1>1, <1>3, <1>4, <2>2, StepOp
<1>5. CASE p = "restore"
  <2> DEFINE c == IF cam.audioOnly THEN [cam EXCEPT !.before = FALSE] ELSE [cam EXCEPT !.requested = FALSE]
             d == Announce(c)
             q == [Idle EXCEPT !.pc = "offering", !.peer = re.peer]
  <2>1. Failed("restore", cam, re).cam = d /\ Failed("restore", cam, re).r = q
    BY DEF Failed, Result
  <2>2. /\ c \in Cams /\ SameDevice(cam, c) /\ SameSends(cam, c) /\ c.enabled = cam.enabled
        /\ c.target = cam.target /\ c.audioOnly = cam.audioOnly /\ c.quality = cam.quality
        /\ ~c.audioOnly => ~c.requested
        /\ c.audioOnly => ~c.before /\ c.requested = cam.requested
    BY <1>1 DEF Cams, SameDevice, SameSends
  <2> HIDE DEF c
  <2>3. /\ d \in Cams /\ SameDevice(c, d) /\ SameWish(c, d) /\ SameSends(c, d) /\ d.enabled = c.enabled
    BY <2>2, AnnounceDoes
  <2> HIDE DEF d
  <2>4. q \in Procs /\ q.pc = "offering" /\ q.peer = re.peer
    <3>1. Idle \in Procs
      BY DEF Idle, Procs, OpPcs, Handles, Places
    <3>2. re.peer \in Nat /\ "offering" \in RestorePcs
      BY <1>1 DEF Procs, RestorePcs
    <3> QED BY <3>1, <3>2 DEF Procs
  <2>5. re.peer = peer /\ peer # 0 /\ re.pc = "capturing"
    BY <1>1, <1>5 DEF CameraTyped, RestoreTyped
  <2> HIDE DEF q, op, re
  <2>6. RestoreTyped(q)
    BY <2>4, <2>5 DEF RestoreTyped, ProcTyped, RestorePcs, Placing
  <2>7. SendsInv(d, op, q) /\ TargetInv(d, op)
    BY <1>1, <2>2, <2>3, <2>4, <2>5 DEF CamGood, SendsInv, TargetInv, SameWish, SameSends
  <2>8. ~crossed => OneTask(d, op, q) /\ RestoreWished(d, q)
    BY <1>1, <2>2, <2>3, <2>4, <2>5 DEF CamGood, OneTask, RestoreWished, Enabling, Placing, SameSends
  <2>9. ~crossed => Device(d, op, q) /\ Shown(d, op, q)
    <3> SUFFICES ASSUME ~crossed PROVE Device(d, op, q) /\ Shown(d, op, q)
      OBVIOUS
    <3>1. OneTask(cam, op, re) /\ Device(cam, op, re)
      BY <1>1 DEF CamGood
    <3>2. op.pc = "idle" /\ cam.handle = 0
      BY <2>5, <3>1 DEF OneTask, Device
    <3>3. PlacedBy(d, q) /\ PlacedBy(d, op)
      BY <2>4, <3>2 DEF PlacedBy, Placing
    <3> QED BY <2>2, <2>3, <2>4, <3>1, <3>2, <3>3 DEF Device, Nothing, Shown, Disabling, Tracks, SameDevice
  <2>10. ~crossed /\ ~meddled => Wished(d, op, q)
    BY <1>1, <2>2, <2>3, <2>5 DEF CamGood, Wished, Disabling, Placing, SameWish, OneTask
  <2>11. RestoreGood(Failed("restore", cam, re), op, failures')
    BY <1>3, <2>1, <2>3, <2>6, <2>7, <2>8, <2>9, <2>10 DEF RestoreGood, CamGood
  <2> QED BY <1>1, <1>3, <1>5, <2>1, <2>4, <2>5, <2>11, StepRestore DEF At, re, op
<1> QED BY <1>4, <1>5

\* Min finds a sender.
LEMMA MinDoes ==
  ASSUME NEW S, S \subseteq Senders, S # {}
  PROVE  Min(S) \in S
<1>1. S \subseteq {1, 2, 3, 4}
  BY DEF Senders
<1>2. \E x \in S : \A y \in S : x <= y
  <2>1. CASE 1 \in S
    BY <2>1, <1>1
  <2>2. CASE 1 \notin S /\ 2 \in S
    BY <2>2, <1>1
  <2>3. CASE 1 \notin S /\ 2 \notin S /\ 3 \in S
    BY <2>3, <1>1
  <2>4. CASE 1 \notin S /\ 2 \notin S /\ 3 \notin S /\ 4 \in S
    BY <2>4, <1>1
  <2> QED BY <1>1, <2>1, <2>2, <2>3, <2>4
<1> QED BY <1>2 DEF Min

\* A sender that can be added: the connection has used fewer than four.
LEMMA RoomForASender ==
  ASSUME Good, Supply, NEW p \in {"op", "restore"},
         At(p, "constraining"), ~Stale(p), proc[p].sender = 0
  PROVE  Min({s \in Senders \ {1} : cam.attached[s] = 0}) \in Senders \ {1}
<1> DEFINE S == {s \in Senders \ {1} : cam.attached[s] = 0}
<1>1. Pending(p) = 1
  BY DEF Pending, One
<1>2. Pending("op") \in {0, 1} /\ Pending("restore") \in {0, 1}
  BY DEF Pending, One
<1>3. One(Taken(2)) \in {0, 1} /\ One(Taken(3)) \in {0, 1} /\ One(Taken(4)) \in {0, 1}
  BY DEF One
<1>4. stream = 0 => p = "op"
  <2>1. p = "restore" => peer # 0 /\ ~At("restore", "setup")
    BY DEF Good, CameraTyped, RestoreTyped, At
  <2> QED BY <2>1 DEF Good, CameraTyped
<1>5. TakenAll <= 2
  <2>1. CASE stream = 0
    BY <1>1, <1>2, <1>3, <1>4, <2>1 DEF Supply, TakenAll
  <2>2. CASE stream # 0
    <3>1. TakenAll + Pending("op") + Pending("restore") <= 3
      BY <2>2 DEF Supply
    <3>2. CASE p = "op"
      BY <3>1, <3>2, <1>1, <1>2, <1>3 DEF TakenAll
    <3>3. CASE p = "restore"
      BY <3>1, <3>3, <1>1, <1>2, <1>3 DEF TakenAll
    <3> QED BY <3>2, <3>3
  <2> QED BY <2>1, <2>2
<1>6. One(Taken(2)) = 0 \/ One(Taken(3)) = 0 \/ One(Taken(4)) = 0
  BY <1>3, <1>5 DEF TakenAll
<1>7. ~Taken(2) \/ ~Taken(3) \/ ~Taken(4)
  BY <1>6 DEF One
<1>8. S # {}
  <2>1. cam.attached[2] = 0 \/ cam.attached[3] = 0 \/ cam.attached[4] = 0
    BY <1>7 DEF Taken
  <2> QED BY <2>1 DEF Senders
<1>9. Min(S) \in S
  BY <1>8, MinDoes
<1> QED BY <1>9

\* The steps of enableCameraOnce while its connection stands.
LEMMA AdvanceGood ==
  ASSUME Good, NEW p \in {"op", "restore"}, proc[p].pc \in Placing, ~Stale(p), UNCHANGED failures,
         NEW d, NEW q, Placed(cam, d, q), p = "restore" => q.pc # "negotiating",
         q = [proc[p] EXCEPT !.pc = q.pc, !.sender = q.sender], Step(p, Result(d, q))
  PROVE  Good'
<1>1. failures' = failures /\ failures \in Nat
  BY DEF Good, CameraTyped
<1>2. CASE p = "op"
  <2>1. OpGood(Result(d, q), proc["restore"], failures)
    BY <1>2, AdvanceOp
  <2> QED BY <1>1, <1>2, <2>1, StepOp
<1>3. CASE p = "restore"
  <2>1. RestoreGood(Result(d, q), proc["op"], failures)
    BY <1>3, AdvanceRestore
  <2>2. ~At("restore", "setup") /\ Result(d, q).r.pc # "setup"
    BY <1>3 DEF At, Placing, Placed, Result
  <2> QED BY <1>1, <1>3, <2>1, <2>2, StepRestore
<1> QED BY <1>2, <1>3

\* The operation fails because its connection is gone.
LEMMA LostOp ==
  ASSUME Good, proc["op"].pc \in Enabling, Stale("op"), UNCHANGED failures,
         NEW S, Step("op", Failed("op", [cam EXCEPT !.live = @ \ S], proc["op"]))
  PROVE  Good'
<1> DEFINE op == proc["op"]
           re == proc["restore"]
           c == [cam EXCEPT !.live = @ \ S]
<1>1. /\ failures' = failures /\ failures \in Nat
      /\ CameraTyped /\ CamGood(cam, op, re, failures) /\ cam \in Cams /\ op \in Procs /\ op.want
      /\ Around(re)
  BY DEF Good, CameraTyped, OpTyped, ProcTyped, Enabling, Around, Placing, At
<1>2. /\ c \in Cams /\ c.live = cam.live \ S /\ SameWish(cam, c) /\ SameSends(cam, c)
      /\ c.handle = cam.handle /\ c.tracks = cam.tracks /\ c.attached = cam.attached
      /\ c.sender = cam.sender
  BY <1>1 DEF Cams, SameWish, SameSends
<1>3. Loose(cam, re)
  BY <1>1, EnablingIsLoose
<1>4. ~crossed => peer = 0
  BY <1>1 DEF CamGood, OneTask, Stale
<1>5. ~crossed /\ ~meddled /\ failures = 0 => op.try = 0
  BY <1>1 DEF CamGood, Succeeds
<1> HIDE DEF c
<1>6. SendsInv(c, Turn, re) /\ TargetInv(c, Turn)
  BY <1>2, <1>3 DEF Loose, SendsInv, TargetInv, SameWish, SameSends
<1>7. ~crossed => OneTask(c, Turn, re) /\ (~meddled => ~c.audioOnly)
  BY <1>2, <1>3 DEF Loose, OneTask, SameWish, SameSends
<1>8. ~crossed => Device(c, Turn, re)
  <2> SUFFICES ASSUME ~crossed PROVE Device(c, Turn, re)
    OBVIOUS
  <2>1. Device(cam, Turn, re) /\ Nothing(cam)
    BY <1>1, <1>3, <1>4 DEF Loose, Device, Around
  <2>2. Nothing(c)
    BY <1>2, <2>1 DEF Nothing
  <2> QED BY <1>2, <2>1, <2>2 DEF Device, Nothing, PlacedBy, Tracks
<1>9. Loose(c, re)
  BY <1>6, <1>7, <1>8 DEF Loose
<1>10. OpGood(Failed("op", c, op), re, failures)
  BY <1>1, <1>2, <1>4, <1>5, <1>9, FailedOp
<1> QED BY <1>1, <1>10, StepOp DEF c

\* A sender is chosen and given the track.
LEMMA ConstrainedGood ==
  ASSUME Good, Supply, NEW p \in {"op", "restore"}, Constrained(p)
  PROVE  Good'
<1> DEFINE r == proc[p]
           added == Min({s \in Senders \ {1} : cam.attached[s] = 0})
           bound == [cam EXCEPT !.sender = added, !.negotiated = FALSE,
                                !.attached[added] = r.cap]
<1>1. /\ At(p, "constraining") /\ UNCHANGED failures /\ r.pc = "constraining" /\ r.pc \in Placing
      /\ cam \in Cams /\ r \in Procs /\ r.cap # 0 /\ r.cap \in Captures
      /\ ~crossed => Device(cam, proc["op"], proc["restore"])
  BY DEF Constrained, Works, At, Placing, Good, CamGood, CameraTyped, OpTyped, RestoreTyped, ProcTyped, Procs, Handles
<1>2. CASE Stale(p)
  <2>1. p = "op"
    BY <1>1, <1>2 DEF Stale, Good, CameraTyped, RestoreTyped
  <2>2. Step("op", Failed("op", [cam EXCEPT !.live = @ \ {r.cap}], r))
    BY <1>2, <2>1 DEF Constrained
  <2> QED BY <1>1, <1>2, <2>1, <2>2, LostOp DEF Enabling
<1>3. CASE ~Stale(p)
  <2>1. ~crossed => /\ cam.handle = r.cap /\ r.sender = cam.sender
                    /\ \A s \in Senders : cam.attached[s] # 0 => s = cam.sender /\ cam.attached[s] = cam.handle
    BY <1>1, <1>3 DEF Device, PlacedBy, Stale
  <2>2. CASE r.sender # 0
    <3> DEFINE q == [r EXCEPT !.pc = "attaching"]
    <3>1. Step(p, Result(cam, q))
      BY <1>3, <2>2 DEF Constrained
    <3>2. q \in Procs /\ q.pc = "attaching" /\ q.sender = r.sender /\ q.cap = r.cap
      BY <1>1 DEF Procs, OpPcs, Enabling, Placing
    <3>3. q = [r EXCEPT !.pc = q.pc, !.sender = q.sender]
      BY <1>1 DEF Procs
    <3> HIDE DEF q, r
    <3>4. Placed(cam, cam, q)
      BY <1>1, <2>1, <2>2, <3>2 DEF Placed, SameWish, SameSends, Placing, PlacedBy
    <3> QED BY <1>1, <1>3, <3>1, <3>2, <3>3, <3>4, AdvanceGood DEF r
  <2>3. CASE r.sender = 0 /\ ~Simulcast /\ cam.attached[1] = 0
    <3> DEFINE q == [r EXCEPT !.pc = "attaching", !.sender = 1]
               d == [cam EXCEPT !.sender = 1, !.negotiated = FALSE]
    <3>0. 1 \in Places /\ FALSE \in BOOLEAN
      BY DEF Places, Senders
    <3>1. Step(p, Result(d, q))
      BY <1>3, <2>3 DEF Constrained
    <3>2. q \in Procs /\ q.pc = "attaching" /\ q.sender = 1 /\ q.cap = r.cap
      BY <1>1, <3>0 DEF Procs, OpPcs, Enabling, Placing
    <3>3. q = [r EXCEPT !.pc = q.pc, !.sender = q.sender]
      BY <1>1 DEF Procs
    <3>5. d \in Cams /\ d.sender = 1 /\ SameWish(cam, d) /\ SameSends(cam, d) /\ d.enabled = cam.enabled
          /\ d.handle = cam.handle /\ d.live = cam.live /\ d.tracks = cam.tracks /\ d.said = cam.said
          /\ d.attached = cam.attached
      BY <1>1, <3>0 DEF Cams, SameWish, SameSends
    <3> HIDE DEF q, r, d
    <3>6. ~crossed => \A s \in Senders : cam.attached[s] = 0
      BY <2>1, <2>3, Assumed
    <3>4. Placed(cam, d, q)
      BY <1>1, <2>1, <2>3, <3>2, <3>5, <3>6 DEF Placed, Placing, PlacedBy
    <3> QED BY <1>1, <1>3, <3>1, <3>2, <3>3, <3>4, AdvanceGood DEF r
  <2>4. CASE r.sender = 0 /\ ~(~Simulcast /\ cam.attached[1] = 0)
    <3> DEFINE on == r.cap \in cam.enabled /\ cam.requested
               d == Activate(bound, on)
               q == [r EXCEPT !.pc = "activating", !.sender = added]
    <3>1. Step(p, Result(d, q))
      BY <1>3, <2>4 DEF Constrained
    <3>2. added \in Senders
      BY <1>1, <1>3, <2>4, RoomForASender
    <3> HIDE DEF added, r
    <3>3. /\ bound \in Cams /\ bound.sender = added /\ SameWish(cam, bound) /\ SameSends(cam, bound)
          /\ bound.enabled = cam.enabled /\ bound.handle = cam.handle /\ bound.live = cam.live
          /\ bound.tracks = cam.tracks /\ bound.said = cam.said
          /\ bound.attached = [cam.attached EXCEPT ![added] = r.cap]
      BY <1>1, <3>2 DEF Cams, SameWish, SameSends, Places, Handles
    <3> HIDE DEF bound
    <3>4. on \in BOOLEAN
      BY <1>1 DEF Cams
    <3> HIDE DEF on
    <3>5. /\ d \in Cams /\ SameDevice(bound, d) /\ SameWish(bound, d) /\ SameSends(bound, d)
          /\ d.said = bound.said /\ d.enabled = bound.enabled
      BY <3>3, <3>4, ActivateDoes
    <3> HIDE DEF d
    <3>6. q \in Procs /\ q.pc = "activating" /\ q.sender = added /\ q.cap = r.cap
      BY <1>1, <3>2 DEF Procs, OpPcs, Enabling, Placing, Places
    <3>7. q = [r EXCEPT !.pc = q.pc, !.sender = q.sender]
      BY <1>1 DEF Procs
    <3> HIDE DEF q
    <3>8. ~crossed => \A s \in Senders : cam.attached[s] = 0
      BY <2>1, <2>4, Assumed
    <3>9. /\ d.attached = [cam.attached EXCEPT ![added] = r.cap] /\ d.sender = added /\ added # 0
          /\ cam.attached \in [Senders -> Handles]
      BY <1>1, <3>2, <3>3, <3>5, Assumed DEF SameDevice, Cams
    <3>10. ~crossed => /\ PlacedBy(d, q)
                       /\ \A s \in Senders : d.attached[s] # 0 => s = d.sender /\ d.attached[s] = d.handle
      BY <2>1, <3>2, <3>3, <3>5, <3>6, <3>8, <3>9 DEF PlacedBy, SameDevice
    <3>11. Placed(cam, d, q)
      BY <3>3, <3>5, <3>6, <3>10 DEF Placed, Placing, SameDevice, SameWish, SameSends
    <3> QED BY <1>1, <1>3, <3>1, <3>6, <3>7, <3>11, AdvanceGood DEF r
  <2> QED BY <2>2, <2>3, <2>4
<1> QED BY <1>2, <1>3

\* replaceTrack answers.
LEMMA AttachedGood ==
  ASSUME Good, NEW p \in {"op", "restore"}, Attached(p)
  PROVE  Good'
<1> DEFINE r == proc[p]
           c == [cam EXCEPT !.attached[r.sender] = r.cap]
           on == r.cap \in c.enabled /\ c.requested
           d == Activate(c, on)
           q == [r EXCEPT !.pc = "activating"]
<1>1. /\ UNCHANGED failures /\ r.pc = "attaching" /\ r.pc \in Placing
      /\ cam \in Cams /\ r \in Procs /\ r.cap # 0 /\ r.cap \in Captures /\ r.sender # 0 /\ r.sender \in Senders
      /\ ~crossed => Device(cam, proc["op"], proc["restore"])
  BY DEF Attached, Works, At, Placing, Good, CamGood, CameraTyped, OpTyped, RestoreTyped, ProcTyped, Procs, Handles, Places
<1>2. CASE Stale(p)
  <2>1. p = "op"
    BY <1>1, <1>2 DEF Stale, Good, CameraTyped, RestoreTyped
  <2>2. Step("op", Failed("op", cam, r))
    BY <1>2, <2>1 DEF Attached
  <2>3. cam = [cam EXCEPT !.live = @ \ {}]
    BY <1>1 DEF Cams
  <2> QED BY <1>1, <1>2, <2>1, <2>2, <2>3, LostOp DEF Enabling
<1>3. CASE ~Stale(p)
  <2>1. ~crossed => /\ cam.handle = r.cap /\ r.sender = cam.sender
                    /\ \A s \in Senders : cam.attached[s] # 0 => s = cam.sender /\ cam.attached[s] = cam.handle
    BY <1>1, <1>3 DEF Device, PlacedBy, Stale
  <2>2. Step(p, Result(d, q))
    BY <1>3 DEF Attached
  <2> HIDE DEF r
  <2>3. /\ c \in Cams /\ c.sender = cam.sender /\ SameWish(cam, c) /\ SameSends(cam, c)
        /\ c.enabled = cam.enabled /\ c.handle = cam.handle /\ c.live = cam.live
        /\ c.tracks = cam.tracks /\ c.said = cam.said
        /\ c.attached = [cam.attached EXCEPT ![r.sender] = r.cap]
    BY <1>1 DEF Cams, SameWish, SameSends, Places, Handles
  <2> HIDE DEF c
  <2>4. on \in BOOLEAN
    BY <2>3 DEF Cams
  <2> HIDE DEF on
  <2>5. /\ d \in Cams /\ SameDevice(c, d) /\ SameWish(c, d) /\ SameSends(c, d)
        /\ d.said = c.said /\ d.enabled = c.enabled
    BY <2>3, <2>4, ActivateDoes
  <2> HIDE DEF d
  <2>6. q \in Procs /\ q.pc = "activating" /\ q.sender = r.sender /\ q.cap = r.cap
    BY <1>1 DEF Procs, OpPcs, Enabling, Placing, Places
  <2>7. q = [r EXCEPT !.pc = q.pc, !.sender = q.sender]
    BY <1>1 DEF Procs
  <2> HIDE DEF q
  <2>8. /\ d.attached = [cam.attached EXCEPT ![r.sender] = r.cap] /\ d.sender = cam.sender
        /\ cam.attached \in [Senders -> Handles]
    BY <1>1, <2>3, <2>5 DEF SameDevice, Cams
  <2>9. ~crossed => /\ PlacedBy(d, q)
                    /\ \A s \in Senders : d.attached[s] # 0 => s = d.sender /\ d.attached[s] = d.handle
    BY <1>1, <2>1, <2>3, <2>5, <2>6, <2>8 DEF PlacedBy, SameDevice
  <2>10. Placed(cam, d, q)
    BY <2>3, <2>5, <2>6, <2>9 DEF Placed, Placing, SameDevice, SameWish, SameSends
  <2> QED BY <1>1, <1>3, <2>2, <2>6, <2>7, <2>10, AdvanceGood DEF r
<1> QED BY <1>2, <1>3

\* enableCameraOnce returns to the operation: the camera is sent and negotiated.
LEMMA EnabledGood ==
  ASSUME Good, proc["op"].pc \in {"activating", "negotiating"}, ~Stale("op"), UNCHANGED failures,
         Step("op", Enabled("op", Announce([cam EXCEPT !.negotiated = TRUE]), proc["op"]))
  PROVE  Good'
<1> DEFINE op == proc["op"]
           re == proc["restore"]
           c == [cam EXCEPT !.negotiated = TRUE]
           d == Announce(c)
<1>1. /\ failures' = failures /\ failures \in Nat
      /\ CameraTyped /\ CamGood(cam, op, re, failures) /\ cam \in Cams /\ op \in Procs /\ op.want
      /\ Around(re) /\ op.peer = peer /\ peer # 0 /\ op.cap # 0
  BY DEF Good, CameraTyped, OpTyped, ProcTyped, Enabling, Around, Placing, At, Stale
<1>2. /\ c \in Cams /\ SameWish(cam, c) /\ SameSends(cam, c) /\ c.enabled = cam.enabled
      /\ c.live = cam.live /\ c.handle = cam.handle /\ c.tracks = cam.tracks
      /\ c.attached = cam.attached /\ c.sender = cam.sender /\ c.negotiated
  BY <1>1 DEF Cams, SameWish, SameSends
<1> HIDE DEF c
<1>3. /\ d \in Cams /\ SameDevice(c, d) /\ SameWish(c, d) /\ SameSends(c, d) /\ d.enabled = c.enabled
  BY <1>2, AnnounceDoes
<1>4. d.handle # 0 /\ d.handle \in d.enabled /\ d.requested /\ ~d.suspended => d.said = "on"
  BY <1>1, <1>2, AnnounceGood DEF CamGood, SendsInv, SameWish, SameSends
<1> HIDE DEF d
<1>5. /\ d.live = cam.live /\ d.handle = cam.handle /\ d.tracks = cam.tracks /\ d.attached = cam.attached
      /\ d.sender = cam.sender /\ d.negotiated /\ SameWish(cam, d) /\ SameSends(cam, d)
      /\ d.enabled = cam.enabled
  BY <1>2, <1>3 DEF SameDevice, SameWish, SameSends
<1>6. Turn.pc = "turn" /\ NoSwitch.pc = "idle"
  BY DEF Turn, Idle, NoSwitch
<1>7. SendsInv(d, Turn, re) /\ TargetInv(d, Turn)
  BY <1>1, <1>5, <1>6 DEF CamGood, SendsInv, TargetInv, SameWish, SameSends
<1>8. ~crossed => OneTask(d, Turn, re) /\ RestoreWished(d, re)
  BY <1>1, <1>5, <1>6 DEF CamGood, OneTask, RestoreWished, Enabling, Disabling, Placing, SameSends
<1>9. ~crossed => Device(d, Turn, re)
  BY <1>1, <1>5, <1>6 DEF CamGood, Device, OneTask, Nothing, PlacedBy, Tracks, Disabling, Placing
<1>10. ~crossed => Shown(d, Turn, re)
  BY <1>1, <1>4, <1>5, <1>6 DEF CamGood, Shown, Disabling, SameWish, SameSends
<1>11. ~crossed /\ ~meddled => Wished(d, Turn, re) /\ d.requested
  BY <1>1, <1>5, <1>6 DEF CamGood, Wished, Disabling, Placing, SameWish
<1>12. ~crossed /\ ~meddled /\ failures = 0 => Succeeds(d, Turn, re)
  <2>1. ~crossed => Published(d) /\ re.pc = "idle"
    BY <1>1, <1>5 DEF CamGood, Device, OneTask, PlacedBy, Placing, Published
  <2> QED BY <2>1, <1>5, <1>6 DEF Succeeds, Enabling, Placing
<1>13. CamGood(d, Turn, re, failures)
  BY <1>7, <1>8, <1>9, <1>10, <1>11, <1>12 DEF CamGood
<1>14. OpGood(Enabled("op", d, op), re, failures)
  BY <1>1, <1>3, <1>11, <1>13, EnabledOp
<1> QED BY <1>1, <1>14, StepOp DEF d, c

\* setParameters answers, the operation or the restoration.
LEMMA ActivatedOp ==
  ASSUME Good, Activated("op")
  PROVE  Good'
<1> DEFINE op == proc["op"]
<1>1. /\ UNCHANGED failures /\ op.pc = "activating" /\ op.pc \in Placing
      /\ cam \in Cams /\ op \in Procs
      /\ ~crossed => Device(cam, op, proc["restore"])
  BY DEF Activated, Works, At, Placing, Good, CamGood, CameraTyped, OpTyped, ProcTyped
<1>2. CASE Stale("op")
  <2>1. Step("op", Failed("op", cam, op))
    BY <1>2 DEF Activated
  <2>2. cam = [cam EXCEPT !.live = @ \ {}]
    BY <1>1 DEF Cams
  <2> QED BY <1>1, <1>2, <2>1, <2>2, LostOp DEF Enabling
<1>3. CASE ~Stale("op") /\ ~cam.negotiated
  <2> DEFINE q == [op EXCEPT !.pc = "negotiating"]
  <2>1. Step("op", Result(cam, q))
    BY <1>3 DEF Activated
  <2>2. ~crossed => /\ PlacedBy(cam, op)
                    /\ \A s \in Senders : cam.attached[s] # 0 => s = cam.sender /\ cam.attached[s] = cam.handle
    BY <1>1 DEF Device
  <2>3. q \in Procs /\ q.pc = "negotiating" /\ q.cap = op.cap /\ q.peer = op.peer
    BY <1>1 DEF Procs, OpPcs, Enabling, Placing
  <2>4. q = [op EXCEPT !.pc = q.pc, !.sender = q.sender]
    BY <1>1 DEF Procs
  <2> HIDE DEF q, op
  <2>5. Placed(cam, cam, q)
    BY <1>1, <2>2, <2>3 DEF Placed, SameWish, SameSends, Placing, PlacedBy
  <2> QED BY <1>1, <1>3, <2>1, <2>3, <2>4, <2>5, AdvanceGood DEF op
<1>4. CASE ~Stale("op") /\ cam.negotiated
  <2>1. cam = [cam EXCEPT !.negotiated = TRUE]
    BY <1>1, <1>4 DEF Cams
  <2>2. Step("op", Enabled("op", Announce(cam), op))
    BY <1>4 DEF Activated
  <2>3. Step("op", Enabled("op", Announce([cam EXCEPT !.negotiated = TRUE]), op))
    BY <2>1, <2>2
  <2> QED BY <1>1, <1>4, <2>3, EnabledGood
<1> QED BY <1>2, <1>3, <1>4

LEMMA ActivatedRestore ==
  ASSUME Good, Activated("restore")
  PROVE  Good'
<1> DEFINE op == proc["op"]
           re == proc["restore"]
           d == Announce(cam)
           q == [Idle EXCEPT !.pc = "offering", !.peer = re.peer]
<1>1. /\ failures' = failures /\ failures \in Nat /\ re.pc = "activating" /\ cam \in Cams /\ re \in Procs
      /\ CameraTyped /\ CamGood(cam, op, re, failures) /\ re.peer = peer /\ peer # 0 /\ stream = peer
      /\ re.cap # 0
  BY DEF Activated, Works, At, Placing, Good, CameraTyped, RestoreTyped, ProcTyped
<1>2. Step("restore", Result(d, q))
  BY <1>1 DEF Activated, Stale, Enabled
<1>3. /\ d \in Cams /\ SameDevice(cam, d) /\ SameWish(cam, d) /\ SameSends(cam, d) /\ d.enabled = cam.enabled
  BY <1>1, AnnounceDoes
<1>4. d.handle # 0 /\ d.handle \in d.enabled /\ d.requested /\ ~d.suspended => d.said = "on"
  BY <1>1, AnnounceGood DEF CamGood, SendsInv
<1> HIDE DEF d
<1>5. q \in Procs /\ q.pc = "offering" /\ q.peer = re.peer
  <2>1. Idle \in Procs
    BY DEF Idle, Procs, OpPcs, Handles, Places
  <2>2. re.peer \in Nat /\ "offering" \in RestorePcs
    BY <1>1 DEF Procs, RestorePcs
  <2> QED BY <2>1, <2>2 DEF Procs
<1> HIDE DEF q, op, re
<1>6. RestoreTyped(q)
  BY <1>1, <1>5 DEF RestoreTyped, ProcTyped, RestorePcs, Placing
<1>7. SendsInv(d, op, q) /\ TargetInv(d, op)
  BY <1>1, <1>3, <1>5 DEF CamGood, SendsInv, TargetInv, SameWish, SameSends
<1>8. ~crossed => OneTask(d, op, q) /\ RestoreWished(d, q)
  BY <1>1, <1>3, <1>5 DEF CamGood, OneTask, RestoreWished, Enabling, Placing, SameSends
<1>9. ~crossed => Device(d, op, q)
  BY <1>1, <1>3, <1>5 DEF CamGood, Device, Nothing, PlacedBy, Tracks, SameDevice, Placing
<1>10. ~crossed => Shown(d, op, q)
  BY <1>1, <1>3, <1>4, <1>5 DEF CamGood, Shown, SameDevice, SameWish, SameSends
<1>11. ~crossed /\ ~meddled => Wished(d, op, q)
  BY <1>1, <1>3 DEF CamGood, Wished, SameWish
<1>12. ~crossed /\ ~meddled /\ failures = 0 => Succeeds(d, op, q)
  <2>1. ~crossed => Published(d)
    BY <1>1, <1>3 DEF CamGood, Device, PlacedBy, Placing, Published, SameDevice
  <2> QED BY <1>1, <1>3, <1>5, <2>1 DEF CamGood, Succeeds, SameWish
<1>13. RestoreGood(Result(d, q), op, failures)
  BY <1>3, <1>6, <1>7, <1>8, <1>9, <1>10, <1>11, <1>12 DEF RestoreGood, CamGood, Result
<1>14. Result(d, q).r.pc # "setup" /\ ~At("restore", "setup")
  BY <1>1, <1>5 DEF Result, At, re
<1> QED BY <1>1, <1>2, <1>13, <1>14, StepRestore DEF op

\* The negotiation of the operation ends, or fails.
LEMMA NegotiatedGood ==
  ASSUME Good, NEW p \in {"op", "restore"}, Negotiated(p)
  PROVE  Good'
<1> DEFINE op == proc["op"]
<1>1. /\ p = "op" /\ UNCHANGED failures /\ op.pc = "negotiating" /\ cam \in Cams
  BY DEF Negotiated, Works, At, Placing, Good, CameraTyped, OpTyped, RestoreTyped, ProcTyped, RestorePcs, Enabling
<1>2. CASE Stale("op")
  <2>1. Step("op", Failed("op", cam, op))
    BY <1>1, <1>2 DEF Negotiated
  <2>2. cam = [cam EXCEPT !.live = @ \ {}]
    BY <1>1 DEF Cams
  <2> QED BY <1>1, <1>2, <2>1, <2>2, LostOp DEF Enabling, Placing
<1>3. CASE ~Stale("op")
  BY <1>1, <1>3, EnabledGood DEF Negotiated
<1> QED BY <1>2, <1>3

LEMMA NegotiationFailsGood ==
  ASSUME Good, NEW p \in {"op", "restore"}, NegotiationFails(p)
  PROVE  Good'
<1> DEFINE op == proc["op"]
           re == proc["restore"]
<1>1. /\ p = "op" /\ failures' = failures + 1 /\ failures \in Nat /\ op.pc = "negotiating" /\ cam \in Cams
      /\ op \in Procs /\ op.want /\ Around(re) /\ CamGood(cam, op, re, failures)
  BY DEF NegotiationFails, Mishap, At, Placing, Good, CameraTyped, OpTyped, RestoreTyped, ProcTyped,
         RestorePcs, Enabling, Around
<1>2. failures' # 0 /\ failures' \in Nat
  BY <1>1
<1>3. Loose(cam, re)
  BY <1>1, EnablingIsLoose DEF Enabling, Placing
<1>4. OpGood(Failed("op", cam, op), re, failures')
  BY <1>1, <1>2, <1>3, FailedOp
<1> QED BY <1>1, <1>2, <1>4, StepOp DEF NegotiationFails

\* The wait before another attempt is over.
LEMMA RetryTimerFiresGood ==
  ASSUME Good, RetryTimerFires
  PROVE  Good'
<1> DEFINE op == proc["op"]
           re == proc["restore"]
<1>1. /\ failures' = failures /\ failures \in Nat /\ op.pc = "waiting" /\ cam \in Cams
      /\ op \in Procs /\ op.want /\ Around(re) /\ CamGood(cam, op, re, failures)
      /\ Step("op", IF peer = 0 THEN Enabled("op", cam, op) ELSE EnableOnce(cam, op))
  BY DEF RetryTimerFires, Works, At, Good, CameraTyped, OpTyped, ProcTyped, Around
<1>2. Loose(cam, re)
  BY <1>1, EnablingIsLoose
<1>0. Turn.pc = "turn"
  BY DEF Turn, Idle
<1>3. CASE peer = 0
  <2>1. ~crossed => RestoreWished(cam, re) /\ Shown(cam, Turn, re)
    BY <1>1 DEF CamGood, Shown, Device
  <2>2. ~crossed /\ ~meddled => Wished(cam, Turn, re)
    BY <1>0, <1>1 DEF CamGood, Wished, Disabling, Placing
  <2>3. ~crossed /\ ~meddled /\ failures = 0 => Succeeds(cam, Turn, re)
    BY <1>0, <1>1, <1>3 DEF CamGood, Succeeds, Enabling, Placing, Around
  <2>4. CamGood(cam, Turn, re, failures)
    BY <1>2, <2>1, <2>2, <2>3 DEF Loose, CamGood
  <2>5. OpGood(Enabled("op", cam, op), re, failures)
    BY <1>1, <1>3, <2>4, EnabledOp
  <2> QED BY <1>1, <1>3, <2>5, StepOp
<1>4. CASE peer # 0
  <2>1. ~(~crossed /\ ~meddled /\ failures = 0)
    BY <1>1, <1>4 DEF CamGood, Succeeds
  <2>2. OpGood(EnableOnce(cam, op), re, failures)
    BY <1>1, <1>2, <1>4, <2>1, EnableOnceOp
  <2> QED BY <1>1, <1>4, <2>2, StepOp
<1> QED BY <1>3, <1>4

\* The rest of disableCamera.
LEMMA CameraDetachedGood ==
  ASSUME Good, CameraDetached
  PROVE  Good'
<1> DEFINE op == proc["op"]
           re == proc["restore"]
           off == [cam EXCEPT !.handle = 0,
                       !.attached = IF op.peer = peer /\ op.sender # 0
                                      THEN [@ EXCEPT ![op.sender] = 0] ELSE @,
                       !.tracks = Keep(@, Captures \ {op.cap})]
           d == Announce(off)
<1>1. /\ failures' = failures /\ failures \in Nat /\ op.pc \in Disabling /\ cam \in Cams
      /\ op \in Procs /\ Around(re) /\ CamGood(cam, op, re, failures)
      /\ op.want <=> op.pc = "undoing"
      /\ op.pc = "detaching" => Step("op", LoopAgain(d, op))
      /\ op.pc = "undoing" => Step("op", RetryOrGiveUp(d, op))
  BY DEF CameraDetached, Detached, Works, At, Good, CameraTyped, OpTyped, ProcTyped, Around, Disabling
<1> HIDE DEF op, re
<1>2. Keep(cam.tracks, Captures \ {op.cap}) \in Seq(Captures)
      /\ Len(Keep(cam.tracks, Captures \ {op.cap})) <= Len(cam.tracks)
  BY <1>1, KeepDoes DEF Cams
<1>3. /\ off \in Cams /\ off.handle = 0 /\ off.live = cam.live
      /\ off.tracks = Keep(cam.tracks, Captures \ {op.cap})
      /\ off.attached = IF op.peer = peer /\ op.sender # 0
                          THEN [cam.attached EXCEPT ![op.sender] = 0] ELSE cam.attached
      /\ SameWish(cam, off) /\ SameSends(cam, off)
  BY <1>1, <1>2 DEF Cams, SameWish, SameSends, Handles
<1> HIDE DEF off
<1>4. d \in Cams /\ SameDevice(off, d) /\ SameWish(off, d) /\ SameSends(off, d)
  BY <1>3, AnnounceDoes
<1> HIDE DEF d
<1>5. /\ d.handle = 0 /\ d.live = cam.live /\ d.tracks = off.tracks /\ d.attached = off.attached
      /\ SameWish(cam, d) /\ SameSends(cam, d)
  BY <1>3, <1>4 DEF SameDevice, SameWish, SameSends
<1>6. Turn.pc = "turn" /\ NoSwitch.pc = "idle" /\ op.pc \notin {"idle", "resuming"}
  BY <1>1 DEF Turn, Idle, NoSwitch, Disabling
<1>7. SendsInv(d, Turn, re) /\ TargetInv(d, Turn)
  BY <1>1, <1>5, <1>6 DEF CamGood, SendsInv, TargetInv, SameWish, SameSends
<1>8. ~crossed => OneTask(d, Turn, re) /\ RestoreWished(d, re) /\ Shown(d, Turn, re)
  BY <1>1, <1>5, <1>6 DEF CamGood, OneTask, RestoreWished, Enabling, Disabling, Placing, SameSends, Shown
<1>9. ~crossed => Device(d, Turn, re)
  <2> SUFFICES ASSUME ~crossed PROVE Device(d, Turn, re)
    OBVIOUS
  <2>1. OneTask(cam, op, re) /\ Device(cam, op, re)
    BY <1>1 DEF CamGood
  <2>2. re.pc = "idle" /\ switch.pc # "replacing" /\ d.live = {}
    BY <1>1, <1>5, <1>6, <2>1 DEF OneTask, Device
  <2>3. cam.attached \in [Senders -> Handles]
    BY <1>1 DEF Cams
  <2>4. \A s \in Senders : d.attached[s] = 0
    <3>1. CASE stream = 0
      BY <1>3, <1>5, <2>1, <2>3, <3>1 DEF Device, Nothing
    <3>2. CASE stream # 0
      <4>1. op.peer = peer /\ op.sender = cam.sender
        BY <1>1, <2>1, <2>2, <3>2 DEF OneTask, Device, Around
      <4> QED BY <1>3, <1>5, <2>1, <2>3, <4>1, Assumed DEF Device
    <3> QED BY <3>1, <3>2
  <2>5. stream = 0 => Nothing(d)
    <3>1. stream = 0 => cam.tracks = <<>> /\ cam.sender = 0
      BY <2>1 DEF Device, Nothing
    <3>2. cam.tracks = <<>> => off.tracks = <<>>
      <4>1. cam.tracks = <<>> => Len(off.tracks) <= 0
        BY <1>2, <1>3
      <4>2. off.tracks \in Seq(Captures)
        BY <1>3 DEF Cams
      <4> QED BY <4>1, <4>2
    <3>3. d.sender = cam.sender
      BY <1>4 DEF off, SameDevice
    <3> QED BY <1>5, <2>2, <2>4, <3>1, <3>2, <3>3 DEF Nothing
  <2> QED BY <1>5, <1>6, <2>2, <2>4, <2>5 DEF Device, PlacedBy, Disabling, Placing
<1>10. ~crossed /\ ~meddled => ~d.requested /\ ~d.audioOnly
  BY <1>1, <1>5, <1>6 DEF CamGood, Wished, SameWish
<1>11. CASE op.pc = "detaching"
  <2>1. ~crossed /\ ~meddled => Wished(d, Turn, re)
    BY <1>6, <1>10 DEF Wished, Disabling, Placing
  <2>2. ~crossed /\ ~meddled /\ failures = 0 => Succeeds(d, Turn, re)
    BY <1>1, <1>6, <1>8, <1>10 DEF OneTask, Succeeds, Enabling, Placing, Wants
  <2>3. CamGood(d, Turn, re, failures)
    BY <1>7, <1>8, <1>9, <2>1, <2>2 DEF CamGood
  <2>4. ~op.want
    BY <1>1, <1>11
  <2>5. OpGood(LoopAgain(d, op), re, failures)
    BY <1>1, <1>4, <1>10, <2>3, <2>4, LoopAgainGood
  <2> QED BY <1>1, <1>11, <2>5, StepOp DEF re
<1>12. CASE op.pc = "undoing"
  <2>1. Loose(d, re)
    BY <1>7, <1>8, <1>9, <1>10 DEF Loose
  <2>2. ~(~crossed /\ ~meddled /\ failures = 0)
    BY <1>1, <1>12 DEF CamGood, Succeeds
  <2>3. OpGood(RetryOrGiveUp(d, op), re, failures)
    BY <1>1, <1>4, <1>5, <1>12, <2>1, <2>2, RetryOrGiveUpGood
  <2> QED BY <1>1, <1>12, <2>3, StepOp DEF re
<1> QED BY <1>1, <1>11, <1>12 DEF Disabling

\* The restoration has its last negotiation.
LEMMA OfferedGood ==
  ASSUME Good, Offered
  PROVE  Good'
<1> DEFINE op == proc["op"]
           re == proc["restore"]
<1>1. PICK ok \in BOOLEAN :
        /\ IF ok THEN Works ELSE Mishap
        /\ Step("restore", Result([cam EXCEPT !.negotiated = @ \/ (ok /\ cam.sender # 0)], Idle))
  BY DEF Offered
<1> DEFINE d == [cam EXCEPT !.negotiated = @ \/ (ok /\ cam.sender # 0)]
<1>2. /\ re.pc = "offering" /\ cam \in Cams /\ CamGood(cam, op, re, failures) /\ failures \in Nat
  BY DEF Offered, At, Good, CameraTyped
<1>3. failures' \in Nat /\ (failures' = 0 => failures = 0 /\ ok)
  BY <1>1, <1>2 DEF Works, Mishap
<1>4. /\ d \in Cams /\ d.live = cam.live /\ d.handle = cam.handle /\ d.tracks = cam.tracks
      /\ d.attached = cam.attached /\ d.sender = cam.sender /\ SameWish(cam, d) /\ SameSends(cam, d)
      /\ d.enabled = cam.enabled /\ d.said = cam.said /\ (ok /\ cam.sender # 0 => d.negotiated)
  <2>1. cam.negotiated \in BOOLEAN
    BY <1>2 DEF Cams
  <2>2. (cam.negotiated \/ (ok /\ cam.sender # 0)) \in BOOLEAN
    OBVIOUS
  <2> QED BY <1>2, <2>1, <2>2 DEF Cams, SameWish, SameSends
<1> HIDE DEF d, op, re
<1>5. Idle.pc = "idle"
  BY DEF Idle
<1>6. RestoreTyped(Idle)
  BY DEF RestoreTyped, ProcTyped, RestorePcs, Placing, Idle, Procs, Handles, Places
<1>7. SendsInv(d, op, Idle) /\ TargetInv(d, op)
  BY <1>2, <1>4, <1>5 DEF CamGood, SendsInv, TargetInv, SameWish, SameSends
<1>8. ~crossed => OneTask(d, op, Idle) /\ RestoreWished(d, Idle)
  BY <1>2, <1>4, <1>5 DEF CamGood, OneTask, RestoreWished, Enabling, Placing, SameSends
<1>9. ~crossed => Device(d, op, Idle)
  BY <1>2, <1>4, <1>5 DEF CamGood, Device, Nothing, PlacedBy, Tracks, Placing
<1>10. ~crossed => Shown(d, op, Idle)
  BY <1>2, <1>4, <1>5 DEF CamGood, Shown, Enabling, Placing, SameWish, SameSends
<1>11. ~crossed /\ ~meddled => Wished(d, op, Idle)
  BY <1>2, <1>4 DEF CamGood, Wished, SameWish
<1>12. ~crossed /\ ~meddled /\ failures' = 0 => Succeeds(d, op, Idle)
  BY <1>2, <1>3, <1>4, <1>5 DEF CamGood, OneTask, Succeeds, Wants, Published, SameWish
<1>13. RestoreGood(Result(d, Idle), op, failures')
  BY <1>4, <1>6, <1>7, <1>8, <1>9, <1>10, <1>11, <1>12 DEF RestoreGood, CamGood, Result
<1>14. Result(d, Idle).r.pc # "setup" /\ ~At("restore", "setup")
  BY <1>2, <1>5 DEF Result, At, re
<1> QED BY <1>1, <1>3, <1>13, <1>14, StepRestore DEF op, d

\* What setVideoSending does after its await, whoever waited for it.
LEMMA SentGood ==
  ASSUME Good, cam.sends # <<>>, NEW o, NEW t,
         \/ o = proc["op"] /\ t = proc["restore"] /\ Head(cam.sends).who = "none"
         \/ o = Turn /\ t = proc["restore"] /\ Head(cam.sends).who = "op"
         \/ o = proc["op"] /\ t = Turn /\ Head(cam.sends).who = "restore"
  PROVE  LET send == Head(cam.sends)
             c == Announce(Enable([cam EXCEPT !.sends = Tail(@)], cam.handle,
                                  send.on /\ cam.requested))
         IN  c \in Cams /\ SameWish(cam, c) /\ CamGood(c, o, t, failures)
<1> DEFINE op == proc["op"]
           re == proc["restore"]
           send == Head(cam.sends)
           on == send.on /\ cam.requested
           b == [cam EXCEPT !.sends = Tail(@)]
           e == Enable(b, cam.handle, on)
           c == Announce(e)
<1>1. /\ cam \in Cams /\ CamGood(cam, op, re, failures) /\ CameraTyped
      /\ cam.sends \in Seq(Sends) /\ send \in Sends /\ send = cam.sends[1] /\ Len(cam.sends) \in Nat \ {0}
  BY DEF Good, CameraTyped, Cams
<1>2. /\ Tail(cam.sends) \in Seq(Sends) /\ Len(Tail(cam.sends)) = Len(cam.sends) - 1
      /\ \A i \in 1 .. Len(cam.sends) - 1 : Tail(cam.sends)[i] = cam.sends[i + 1]
  BY <1>1
<1>3. /\ b \in Cams /\ SameDevice(cam, b) /\ SameWish(cam, b) /\ b.said = cam.said /\ b.enabled = cam.enabled
      /\ b.suspended = cam.suspended /\ b.sends = Tail(cam.sends)
  BY <1>1, <1>2 DEF Cams, SameDevice, SameWish
<1> HIDE DEF b
<1>4. on \in BOOLEAN /\ cam.handle \in Handles
  BY <1>1 DEF Cams, Sends
<1>5. /\ e \in Cams /\ SameDevice(b, e) /\ SameWish(b, e) /\ SameSends(b, e) /\ e.said = b.said
      /\ e.enabled = IF cam.handle = 0 THEN b.enabled
                     ELSE IF on THEN b.enabled \union {cam.handle} ELSE b.enabled \ {cam.handle}
  BY <1>3, <1>4, EnableDoes
<1> HIDE DEF e
<1>6. /\ c \in Cams /\ SameDevice(e, c) /\ SameWish(e, c) /\ SameSends(e, c) /\ c.enabled = e.enabled
  BY <1>5, AnnounceDoes
<1>7. peer # 0 /\ c.handle # 0 /\ c.handle \in c.enabled /\ c.requested /\ ~c.suspended => c.said = "on"
  BY <1>1, <1>3, <1>5, AnnounceGood DEF CamGood, SendsInv, SameWish, SameSends
<1> HIDE DEF c
<1>8. /\ c.live = cam.live /\ c.handle = cam.handle /\ c.tracks = cam.tracks /\ c.attached = cam.attached
      /\ c.sender = cam.sender /\ c.negotiated = cam.negotiated /\ SameWish(cam, c)
      /\ c.suspended = cam.suspended /\ c.sends = Tail(cam.sends)
      /\ c.handle # 0 /\ c.handle \in c.enabled => on
  BY <1>3, <1>5, <1>6 DEF SameDevice, SameWish, SameSends
<1>9. Turn.pc = "turn" /\ NoSwitch.pc = "idle"
  BY DEF Turn, Idle, NoSwitch
<1>10. SendsInv(cam, op, re) /\ TargetInv(cam, op)
  BY <1>1 DEF CamGood
<1>11. /\ send.who = "op" => op.pc = "resuming"
       /\ send.who = "restore" => re.pc = "sending"
  BY <1>1, <1>10 DEF SendsInv
<1> HIDE DEF op, re, send
<1>12. \/ o = op /\ t = re /\ send.who = "none"
       \/ o = Turn /\ t = re /\ send.who = "op"
       \/ o = op /\ t = Turn /\ send.who = "restore"
  BY DEF op, re, send
<1>13. SendsInv(c, o, t)
  <2>1. \A i \in DOMAIN c.sends : /\ c.sends[i] = cam.sends[i + 1] /\ i + 1 \in DOMAIN cam.sends
                                  /\ i + 1 # 1
    <3>1. DOMAIN c.sends = 1 .. Len(cam.sends) - 1 /\ DOMAIN cam.sends = 1 .. Len(cam.sends)
      BY <1>1, <1>2, <1>8
    <3> SUFFICES ASSUME NEW i \in 1 .. Len(cam.sends) - 1
                 PROVE  /\ c.sends[i] = cam.sends[i + 1] /\ i + 1 \in 1 .. Len(cam.sends)
                        /\ i + 1 # 1
      BY <3>1
    <3> QED BY <1>1, <1>2, <1>8
  <2>2. 1 \in DOMAIN cam.sends
    BY <1>1
  <2>3. ASSUME NEW i \in DOMAIN c.sends
        PROVE  /\ c.sends[i].who = "op" => o.pc = "resuming"
               /\ c.sends[i].who = "restore" => t.pc = "sending"
    <3>1. c.sends[i].who # send.who \/ send.who = "none"
      BY <1>1, <1>10, <2>1, <2>2 DEF SendsInv
    <3> QED BY <1>10, <1>12, <2>1, <3>1 DEF SendsInv
  <2>4. ASSUME NEW i \in DOMAIN c.sends, NEW j \in DOMAIN c.sends, c.sends[i].who = c.sends[j].who
        PROVE  i = j \/ c.sends[i].who = "none"
    <3>1. i + 1 = j + 1 \/ c.sends[i].who = "none"
      BY <1>10, <2>1, <2>4 DEF SendsInv
    <3>2. i \in Int /\ j \in Int
      BY <1>2, <1>8
    <3> QED BY <3>1, <3>2
  <2>5. c.sends # <<>> => c.sends[Len(c.sends)].on = ~c.suspended
    <3> SUFFICES ASSUME c.sends # <<>> PROVE c.sends[Len(c.sends)].on = ~c.suspended
      OBVIOUS
    <3>1. Len(c.sends) = Len(cam.sends) - 1 /\ Len(c.sends) \in 1 .. Len(cam.sends) - 1
      BY <1>1, <1>2, <1>8
    <3>2. c.sends[Len(c.sends)] = cam.sends[Len(c.sends) + 1] /\ Len(c.sends) + 1 = Len(cam.sends)
      BY <1>1, <1>2, <1>8, <3>1
    <3> QED BY <1>8, <1>10, <3>2 DEF SendsInv
  <2> QED BY <1>8, <1>10, <2>3, <2>4, <2>5 DEF SendsInv, SameWish
<1>14. TargetInv(c, o)
  BY <1>8, <1>9, <1>10, <1>11, <1>12 DEF TargetInv, SameWish
<1>15. ~crossed => OneTask(c, o, t)
  <2> SUFFICES ASSUME ~crossed PROVE OneTask(c, o, t)
    OBVIOUS
  <2>1. OneTask(cam, op, re)
    BY <1>1 DEF CamGood
  <2>2. switch = NoSwitch /\ (re.pc # "idle" => op.pc = "idle" /\ \A i \in DOMAIN c.sends : c.sends[i].who = "restore")
    <3>1. \A i \in DOMAIN c.sends : c.sends[i] = cam.sends[i + 1] /\ i + 1 \in DOMAIN cam.sends
      BY <1>1, <1>2, <1>8
    <3> QED BY <2>1, <3>1 DEF OneTask
  <2>3. t.pc # "idle" => re.pc # "idle"
    BY <1>11, <1>12
  <2>4. o.pc \in Enabling \union Disabling => o = op
    BY <1>9, <1>12 DEF Enabling, Disabling, Placing
  <2>5. op.pc = "idle" => o = op
    BY <1>11, <1>12
  <2> QED BY <2>1, <2>2, <2>3, <2>4, <2>5 DEF OneTask
<1>16. ~crossed => Device(c, o, t)
  BY <1>1, <1>8, <1>9, <1>11, <1>12 DEF CamGood, Device, Nothing, PlacedBy, Tracks, Disabling, Placing
<1>17. ~crossed => Shown(c, o, t)
  <2> SUFFICES ASSUME ~crossed, c.sends = <<>>, c.handle # 0, c.handle \in c.enabled
               PROVE  c.requested /\ ~c.suspended /\ c.said = "on"
    BY DEF Shown
  <2>1. Len(cam.sends) = 1
    <3>1. Len(c.sends) = 0
      <4>1. \A q : q = <<>> => Len(q) = 0
        OBVIOUS
      <4> QED BY <4>1
    <3>2. Len(Tail(cam.sends)) = 0
      BY <1>8, <3>1
    <3> QED BY <1>1, <1>2, <3>2
  <2>2. send.on = ~cam.suspended
    BY <1>1, <1>10, <2>1 DEF SendsInv
  <2>3. c.requested /\ ~c.suspended
    BY <1>8, <2>2 DEF SameWish
  <2>4. stream # 0
    BY <1>1, <1>8 DEF CamGood, Device, Nothing
  <2>5. peer # 0
    BY <1>1, <2>4 DEF CameraTyped
  <2> QED BY <1>7, <2>3, <2>5
<1>18. ~crossed => RestoreWished(c, t)
  BY <1>1, <1>8, <1>9, <1>11, <1>12 DEF CamGood, RestoreWished, SameWish, Wants, Enabling, Placing
<1>19. ~crossed /\ ~meddled => Wished(c, o, t)
  BY <1>1, <1>8, <1>9, <1>11, <1>12 DEF CamGood, Wished, SameWish, Disabling, Placing
<1>20. ~crossed /\ ~meddled /\ failures = 0 => Succeeds(c, o, t)
  BY <1>1, <1>8, <1>9, <1>11, <1>12 DEF CamGood, Succeeds, SameWish, Enabling, Disabling, Placing, Wants, Published
<1>21. c \in Cams /\ SameWish(cam, c) /\ CamGood(c, o, t, failures)
  BY <1>6, <1>8, <1>13, <1>14, <1>15, <1>16, <1>17, <1>18, <1>19, <1>20 DEF CamGood
<1> QED BY <1>21 DEF c, e, b, send

\* setVideoSending goes on, and so does who awaited it.
LEMMA SendingSetGood ==
  ASSUME Good, SendingSet
  PROVE  Good'
<1> DEFINE op == proc["op"]
           re == proc["restore"]
           send == Head(cam.sends)
           c == Announce(Enable([cam EXCEPT !.sends = Tail(@)], cam.handle,
                                send.on /\ cam.requested))
<1>1. /\ cam.sends # <<>> /\ failures' = failures /\ failures \in Nat
      /\ cam \in Cams /\ CamGood(cam, op, re, failures) /\ CameraTyped /\ Around(re)
      /\ op \in Procs /\ re \in Procs /\ OpTyped(op)
  BY DEF SendingSet, Works, Good, CameraTyped, OpTyped, RestoreTyped, ProcTyped, Around, At
<1>2. /\ send.who = "op" => Step("op", LoopAgain(c, op))
      /\ send.who = "restore" => Step("restore", RestoreCamera(c, re))
      /\ send.who \notin {"op", "restore"} => Step("op", Result(c, op))
  BY DEF SendingSet
<1>3. send \in Sends /\ send = cam.sends[1] /\ 1 \in DOMAIN cam.sends
  BY <1>1 DEF Cams
<1>4. /\ send.who = "op" => op.pc = "resuming"
      /\ send.who = "restore" => re.pc = "sending"
  BY <1>1, <1>3 DEF CamGood, SendsInv
<1>5. CASE send.who = "op"
  <2>1. c \in Cams /\ SameWish(cam, c) /\ CamGood(c, Turn, re, failures)
    BY <1>1, <1>5, SentGood
  <2> HIDE DEF c
  <2>2. op.want
    BY <1>1, <1>4, <1>5 DEF OpTyped
  <2>3. ~crossed /\ ~meddled => c.requested \/ peer = 0
    BY <1>1, <1>4, <1>5, <2>1 DEF CamGood, Wished, SameWish
  <2>4. OpGood(LoopAgain(c, op), re, failures)
    BY <1>1, <2>1, <2>2, <2>3, LoopAgainGood
  <2> QED BY <1>1, <1>2, <1>5, <2>4, StepOp
<1>6. CASE send.who = "restore"
  <2>1. c \in Cams /\ SameWish(cam, c) /\ CamGood(c, op, Turn, failures)
    BY <1>1, <1>6, SentGood
  <2> HIDE DEF c
  <2>0. re.pc = "sending" /\ re.peer = peer /\ peer # 0 /\ stream = peer /\ peer \in Nat /\ Turn.pc = "turn"
    BY <1>1, <1>4, <1>6 DEF CameraTyped, RestoreTyped, Around, Turn, Idle
  <2>2. CASE c.requested \/ (c.audioOnly /\ c.before /\ c.quality)
    <3> DEFINE r == [Idle EXCEPT !.want = ~c.audioOnly]
    <3>1. RestoreCamera(c, re) = EnableOnce(c, r)
      BY <2>2 DEF RestoreCamera
    <3>2. r \in Procs /\ r.want = ~c.audioOnly
      <4>1. Idle \in Procs
        BY DEF Idle, Procs, OpPcs, Handles, Places
      <4>2. (~c.audioOnly) \in BOOLEAN
        BY <2>1 DEF Cams
      <4> QED BY <4>1, <4>2 DEF Procs
    <3> HIDE DEF r
    <3>3. Wants(c)
      BY <2>2 DEF Wants
    <3>4. RestoreGood(EnableOnce(c, r), op, failures)
      BY <2>0, <2>1, <3>2, <3>3, EnableOnceRestore
    <3>5. EnableOnce(c, r).r.pc \in {"capturing", "constraining"}
      <4>1. \A d : d \in Procs =>
              /\ [d EXCEPT !.pc = "capturing", !.peer = peer].pc = "capturing"
              /\ [[d EXCEPT !.peer = peer, !.cap = c.handle] EXCEPT
                    !.pc = "constraining", !.sender = c.sender].pc = "constraining"
        BY DEF Procs
      <4> QED BY <3>2, <4>1 DEF EnableOnce, Prepare, Result
    <3>6. ~At("restore", "setup") /\ EnableOnce(c, r).r.pc # "setup"
      BY <2>0, <3>5 DEF At
    <3> QED BY <1>1, <1>2, <1>6, <3>1, <3>4, <3>6, StepRestore
  <2>3. CASE ~(c.requested \/ (c.audioOnly /\ c.before /\ c.quality))
    <3> DEFINE q == [Idle EXCEPT !.pc = "offering", !.peer = re.peer]
    <3>1. RestoreCamera(c, re) = Result(c, q)
      BY <2>3 DEF RestoreCamera
    <3>2. q \in Procs /\ q.pc = "offering" /\ q.peer = re.peer
      <4>1. Idle \in Procs
        BY DEF Idle, Procs, OpPcs, Handles, Places
      <4>2. re.peer \in Nat /\ "offering" \in RestorePcs
        BY <1>1 DEF Procs, RestorePcs
      <4> QED BY <4>1, <4>2 DEF Procs
    <3>3. ~At("restore", "setup")
      BY <2>0 DEF At
    <3>4. Step("restore", Result(c, q))
      BY <1>2, <1>6, <3>1
    <3> HIDE DEF q, op, re
    <3>5. RestoreTyped(q)
      BY <2>0, <3>2 DEF RestoreTyped, ProcTyped, RestorePcs, Placing
    <3>6. SendsInv(c, op, q) /\ TargetInv(c, op)
      BY <2>0, <2>1, <3>2 DEF CamGood, SendsInv, TargetInv
    <3>7. ~crossed => /\ OneTask(c, op, q) /\ Device(c, op, q) /\ RestoreWished(c, q)
                      /\ Shown(c, op, q)
      BY <2>0, <2>1, <3>2 DEF CamGood, OneTask, Device, RestoreWished, Shown, PlacedBy, Enabling, Placing
    <3>8. ~crossed /\ ~meddled => Wished(c, op, q) /\ ~Wants(c)
      BY <2>1, <2>3 DEF CamGood, Wished, Wants
    <3>9. ~crossed /\ ~meddled /\ failures = 0 => Succeeds(c, op, q)
      BY <2>1, <3>2, <3>8 DEF CamGood, Succeeds
    <3>10. RestoreGood(Result(c, q), op, failures)
      BY <2>1, <3>5, <3>6, <3>7, <3>8, <3>9 DEF RestoreGood, CamGood, Result
    <3>11. Result(c, q).r.pc # "setup"
      BY <3>2 DEF Result
    <3> QED BY <1>1, <3>3, <3>4, <3>10, <3>11, StepRestore DEF op
  <2> QED BY <2>2, <2>3
<1>7. CASE send.who = "none"
  <2>1. c \in Cams /\ SameWish(cam, c) /\ CamGood(c, op, re, failures)
    BY <1>1, <1>7, SentGood
  <2> HIDE DEF c
  <2>2. OpGood(Result(c, op), re, failures)
    BY <1>1, <2>1 DEF OpGood, Result
  <2> QED BY <1>1, <1>2, <1>7, <2>2, StepOp
<1> QED BY <1>3, <1>5, <1>6, <1>7 DEF Sends

\* The start of the connection has its microphone: it begins to restore the camera.
LEMMA MicrophoneReadyGood ==
  ASSUME Good, MicrophoneReady
  PROVE  Good'
<1> DEFINE op == proc["op"]
           re == proc["restore"]
           b == [cam EXCEPT !.handle = 0, !.sender = 0, !.negotiated = FALSE]
           c == Announce(b)
           d == SetVideoSending(c, ~c.suspended, c.automatic, "restore")
           q == [re EXCEPT !.pc = "sending"]
<1>1. /\ CameraTyped /\ CamGood(cam, op, re, failures) /\ cam \in Cams /\ re \in Procs
      /\ re.pc = "setup" /\ peer # 0 /\ re.peer = peer /\ stream = 0 /\ peer \in Nat
  BY DEF MicrophoneReady, At, Good, CameraTyped, RestoreTyped, ProcTyped
<1>2. /\ cam' = d /\ proc'["op"] = op /\ proc'["restore"] = q /\ DOMAIN proc' = {"op", "restore"}
      /\ stream' = peer /\ peer' = peer /\ switch' = switch /\ asked' = asked /\ crossed' = crossed
      /\ meddled' = meddled /\ conns' = conns /\ cameraActs' = cameraActs /\ drops' = drops
      /\ failures' = failures
  BY <1>1 DEF MicrophoneReady, CameraTyped, bounds
<1>3. /\ b \in Cams /\ b.handle = 0 /\ b.sender = 0 /\ ~b.negotiated /\ b.live = cam.live
      /\ b.tracks = cam.tracks /\ b.attached = cam.attached /\ SameWish(cam, b) /\ SameSends(cam, b)
  BY <1>1 DEF Cams, SameWish, SameSends, Handles, Places
<1> HIDE DEF b
<1>4. c \in Cams /\ SameDevice(b, c) /\ SameWish(b, c) /\ SameSends(b, c)
  BY <1>3, AnnounceDoes
<1> HIDE DEF c
<1>5. c.suspended \in BOOLEAN /\ c.automatic \in BOOLEAN /\ c.audioOnly \in BOOLEAN
  BY <1>4 DEF Cams
<1>6. (~c.suspended) \in BOOLEAN
  BY <1>5
<1>7. /\ d \in Cams /\ SameDevice(c, d) /\ SameWish(c, d)
      /\ d.suspended = ~(~c.suspended /\ ~c.audioOnly)
      /\ d.sends = Append(c.sends, [on |-> ~c.suspended /\ ~c.audioOnly, who |-> "restore"])
  <2> DEFINE on == ~c.suspended
             automatic == c.automatic
  <2>1. on \in BOOLEAN /\ automatic \in BOOLEAN /\ "restore" \in {"op", "restore", "none"}
    BY <1>5
  <2>2. on = ~c.suspended
    OBVIOUS
  <2>3. d = SetVideoSending(c, on, automatic, "restore")
    OBVIOUS
  <2> HIDE DEF on, automatic, d
  <2>4. /\ SetVideoSending(c, on, automatic, "restore") \in Cams
        /\ SameDevice(c, SetVideoSending(c, on, automatic, "restore"))
        /\ SameWish(c, SetVideoSending(c, on, automatic, "restore"))
        /\ SetVideoSending(c, on, automatic, "restore").suspended = ~(on /\ ~c.audioOnly)
        /\ SetVideoSending(c, on, automatic, "restore").sends
             = Append(c.sends, [on |-> on /\ ~c.audioOnly, who |-> "restore"])
    BY <1>4, <2>1, SetVideoSendingDoes, ZenonT(60)
  <2> QED BY <2>2, <2>3, <2>4
<1> HIDE DEF d
<1>8. q \in Procs /\ q.pc = "sending" /\ q.peer = peer
  BY <1>1 DEF Procs, RestorePcs
<1> HIDE DEF q, op, re
<1>9. cam.audioOnly => cam.suspended
  BY <1>1 DEF CamGood, SendsInv
<1>10. /\ d.handle = 0 /\ d.sender = 0 /\ d.live = cam.live /\ d.tracks = cam.tracks
       /\ d.attached = cam.attached /\ SameWish(cam, d) /\ d.suspended = cam.suspended
       /\ d.sends = Append(cam.sends, [on |-> ~cam.suspended, who |-> "restore"])
       /\ cam.sends \in Seq(Sends) /\ cam.suspended \in BOOLEAN
  <2>1. c.suspended = cam.suspended /\ c.audioOnly = cam.audioOnly /\ c.sends = cam.sends
        /\ cam.suspended \in BOOLEAN /\ cam.audioOnly \in BOOLEAN /\ cam.sends \in Seq(Sends)
    BY <1>1, <1>3, <1>4 DEF SameWish, SameSends, Cams
  <2>2. (~c.suspended /\ ~c.audioOnly) = ~cam.suspended
    BY <1>9, <2>1
  <2> QED BY <1>3, <1>4, <1>7, <2>1, <2>2 DEF SameDevice, SameWish
<1>11. CameraTyped'
  <2>1. OpTyped(proc["op"])'
    BY <1>1, <1>2 DEF CameraTyped, OpTyped, ProcTyped, op
  <2>2. RestoreTyped(proc["restore"])'
    BY <1>1, <1>2, <1>8 DEF RestoreTyped, ProcTyped, RestorePcs, Placing
  <2>3. stream' = (IF peer' = 0 \/ proc'["restore"].pc = "setup" THEN 0 ELSE peer')
    BY <1>1, <1>2, <1>8
  <2> QED BY <1>1, <1>2, <1>7, <2>1, <2>2, <2>3 DEF CameraTyped, At
<1>12. SendsInv(d, op, q)
  <2> DEFINE last == [on |-> ~cam.suspended, who |-> "restore"]
             n == Len(cam.sends)
  <2>1. /\ n \in Nat /\ DOMAIN d.sends = 1 .. n + 1 /\ d.sends[n + 1] = last /\ Len(d.sends) = n + 1
        /\ \A i \in 1 .. n : d.sends[i] = cam.sends[i] /\ i \in DOMAIN cam.sends
    <3>1. last \in Sends
      BY <1>10 DEF Sends
    <3>2. d.sends = Append(cam.sends, last) /\ cam.sends \in Seq(Sends)
      BY <1>10
    <3> HIDE DEF last
    <3> QED BY <3>1, <3>2
  <2>2. \A i \in 1 .. n + 1 : i \in 1 .. n \/ i = n + 1
    BY <2>1
  <2>3. \A i \in 1 .. n : cam.sends[i].who # "restore"
    BY <1>1, <2>1 DEF CamGood, SendsInv
  <2>4. last.who = "restore" /\ last.on = ~cam.suspended
    OBVIOUS
  <2>5. SendsInv(cam, op, re)
    BY <1>1 DEF CamGood
  <2> HIDE DEF last, n
  <2>6. ASSUME NEW i \in DOMAIN d.sends
        PROVE  /\ d.sends[i].who = "op" => op.pc = "resuming"
               /\ d.sends[i].who = "restore" => q.pc = "sending"
    BY <1>8, <2>1, <2>2, <2>4, <2>5 DEF SendsInv
  <2>7. ASSUME NEW i \in DOMAIN d.sends, NEW j \in DOMAIN d.sends, d.sends[i].who = d.sends[j].who
        PROVE  i = j \/ d.sends[i].who = "none"
    BY <2>1, <2>2, <2>3, <2>4, <2>5, <2>7 DEF SendsInv
  <2> QED BY <1>9, <1>10, <2>1, <2>4, <2>6, <2>7 DEF SendsInv, SameWish
<1>13. TargetInv(d, op)
  BY <1>1, <1>10 DEF CamGood, TargetInv, SameWish
<1>14. SendsInv(cam, proc["op"], proc["restore"])' /\ TargetInv(cam, proc["op"])'
  BY <1>2, <1>12, <1>13 DEF SendsInv, TargetInv
<1>15. ~crossed => op.pc = "idle" /\ cam.sends = <<>> /\ switch = NoSwitch /\ Nothing(cam)
  <2>1. ~crossed => cam.sends = <<>>
    BY <1>1, <1>10 DEF CamGood, OneTask, SendsInv
  <2> QED BY <1>1, <2>1 DEF CamGood, OneTask, Device
<1>16. ~crossed => OneTask(cam, proc["op"], proc["restore"])'
  <2>1. ~crossed => \A i \in DOMAIN d.sends : d.sends[i].who = "restore"
    BY <1>10, <1>15
  <2> QED BY <1>2, <1>8, <1>15, <2>1 DEF OneTask, Enabling, Disabling, Placing, NoSwitch
<1>17. ~crossed => Device(cam, proc["op"], proc["restore"])'
  <2>1. peer # 0 /\ NoSwitch.pc = "idle"
    BY <1>1 DEF NoSwitch
  <2> QED BY <1>2, <1>8, <1>10, <1>15, <2>1 DEF Device, Nothing, PlacedBy, Placing, Disabling, Tracks
<1>18. ~crossed => Shown(cam, proc["op"], proc["restore"])' /\ RestoreWished(cam, proc["restore"])'
  BY <1>2, <1>8, <1>10 DEF Shown, RestoreWished, Enabling, Placing
<1>19. ~crossed /\ ~meddled => Wished(cam, proc["op"], proc["restore"])'
  BY <1>1, <1>2, <1>10, <1>15 DEF CamGood, Wished, SameWish, Disabling, Placing
<1>20. ~crossed /\ ~meddled /\ failures = 0 => Succeeds(cam, proc["op"], proc["restore"])'
  BY <1>1, <1>2, <1>8, <1>10, <1>15 DEF CamGood, Succeeds, SameWish, Enabling, Placing
<1> QED BY <1>2, <1>11, <1>14, <1>16, <1>17, <1>18, <1>19, <1>20 DEF Good, CamGood

\* A step that leaves the operation, the restoration and the connection alone.
Unmoved ==
  /\ peer' = peer /\ stream' = stream /\ proc' = proc /\ asked' = asked /\ meddled' = meddled
  /\ conns' = conns /\ drops' = drops

\* A step of the device switch moves neither the operation nor the restoration.
LEMMA UnmovedGood ==
  ASSUME Good, Unmoved, cam' \in Cams, SameSends(cam, cam'), SameWish(cam, cam'),
         switch' \in Switches, switch'.peer <= conns,
         switch'.pc = "replacing" => switch'.cap # 0 /\ switch'.sender # 0,
         switch'.pc = "idle" => switch' = NoSwitch,
         cameraActs' \in Nat, failures' \in Nat, crossed' \in BOOLEAN, ~crossed' => ~crossed,
         failures' = 0 => failures = 0,
         ~crossed' => /\ proc["op"].pc = "idle" /\ proc["restore"].pc = "idle" /\ cam.sends = <<>>
                      /\ switch' # NoSwitch => peer # 0 /\ switch'.peer = peer,
         ~crossed' => Device(cam, proc["op"], proc["restore"])',
         ~crossed' => Shown(cam, proc["op"], proc["restore"])',
         ~crossed' /\ Published(cam) /\ cam.negotiated => Published(cam') /\ cam'.negotiated
  PROVE  Good'
<1> DEFINE op == proc["op"]
           re == proc["restore"]
<1>1. CameraTyped /\ CamGood(cam, op, re, failures)
  BY DEF Good
<1>2. CameraTyped'
  <2>1. OpTyped(proc["op"])' /\ RestoreTyped(proc["restore"])'
    BY <1>1 DEF CameraTyped, OpTyped, RestoreTyped, ProcTyped, Unmoved
  <2> QED BY <1>1, <2>1 DEF CameraTyped, Unmoved, At
<1>3. SendsInv(cam, proc["op"], proc["restore"])' /\ TargetInv(cam, proc["op"])'
  BY <1>1 DEF CamGood, SendsInv, TargetInv, Unmoved, SameSends, SameWish
<1>4. ~crossed' => OneTask(cam, proc["op"], proc["restore"])' /\ RestoreWished(cam, proc["restore"])'
  BY <1>1 DEF CamGood, OneTask, RestoreWished, Unmoved, SameSends, Enabling, Disabling, Placing
<1>5. ~crossed' /\ ~meddled' => Wished(cam, proc["op"], proc["restore"])'
  BY <1>1 DEF CamGood, Wished, Unmoved, SameWish
<1>6. ~crossed' /\ ~meddled' /\ failures' = 0 => Succeeds(cam, proc["op"], proc["restore"])'
  <2> SUFFICES ASSUME ~crossed', ~meddled', failures' = 0
               PROVE  Succeeds(cam, proc["op"], proc["restore"])'
    OBVIOUS
  <2>1. Succeeds(cam, op, re)
    BY <1>1 DEF CamGood, Unmoved
  <2>2. Wants(cam)' <=> Wants(cam)
    BY DEF Wants, SameWish
  <2>3. (asked \in {"none", IF cam.requested THEN "on" ELSE "off"})'
    BY <2>1 DEF Succeeds, Unmoved, SameWish
  <2>4. Published(cam)' <=> Published(cam')
    BY DEF Published
  <2> QED BY <2>1, <2>2, <2>3, <2>4 DEF Succeeds, Unmoved, Enabling, Placing
<1> QED BY <1>2, <1>3, <1>4, <1>5, <1>6 DEF Good, CamGood

LEMMA SwitchDeviceGood ==
  ASSUME Good, SwitchDevice
  PROVE  Good'
<1> DEFINE op == proc["op"]
           re == proc["restore"]
<1>1. CameraTyped /\ CamGood(cam, op, re, failures) /\ cam \in Cams /\ DOMAIN proc = {"op", "restore"}
      /\ peer \in Nat /\ peer <= conns
  BY DEF Good, CameraTyped
<1>2. Unmoved /\ cam' = cam /\ failures' = failures
  BY DEF SwitchDevice, Unmoved
<1>3. /\ switch' \in Switches /\ switch'.pc = "capturing" /\ switch'.peer = peer
  <2>1. NoSwitch \in Switches
    BY DEF NoSwitch, Switches, Handles, Places
  <2>2. switch' = [NoSwitch EXCEPT !.pc = "capturing", !.peer = peer]
    BY DEF SwitchDevice
  <2> QED BY <1>1, <2>1, <2>2 DEF Switches
<1>4. /\ cameraActs' \in Nat /\ failures' \in Nat /\ crossed' \in BOOLEAN /\ (~crossed' => ~crossed /\ ~Busy)
  <2>1. crossed' = (crossed \/ Busy) /\ cameraActs' = cameraActs + 1 /\ cameraActs \in Nat /\ failures \in Nat
    BY <1>1 DEF SwitchDevice, CameraTyped
  <2>2. (crossed \/ Busy) \in BOOLEAN
    OBVIOUS
  <2>3. cameraActs' \in Nat
    BY <2>1
  <2> QED BY <1>2, <2>1, <2>2, <2>3
<1>5. ~crossed' => /\ op.pc = "idle" /\ re.pc = "idle" /\ cam.sends = <<>> /\ peer # 0
  BY <1>1, <1>4 DEF Busy, SwitchDevice, CameraTyped
<1>6. switch.pc = "idle"
  BY DEF SwitchDevice, NoSwitch
<1>7. ~crossed' => Device(cam, proc["op"], proc["restore"])' /\ Shown(cam, proc["op"], proc["restore"])'
  BY <1>1, <1>2, <1>3, <1>4, <1>6 DEF CamGood, Device, Unmoved, Nothing, PlacedBy, Tracks, Shown
<1>8. SameSends(cam, cam') /\ SameWish(cam, cam') /\ (Published(cam) <=> Published(cam'))
  BY <1>2 DEF SameSends, SameWish
<1> QED BY <1>1, <1>2, <1>3, <1>4, <1>5, <1>7, <1>8, UnmovedGood

LEMMA SwitchRefusedGood ==
  ASSUME Good, SwitchRefused
  PROVE  Good'
<1> DEFINE op == proc["op"]
           re == proc["restore"]
<1>1. CameraTyped /\ CamGood(cam, op, re, failures) /\ cam \in Cams /\ failures \in Nat /\ conns \in Nat
      /\ crossed \in BOOLEAN /\ cameraActs \in Nat
  BY DEF Good, CameraTyped
<1>2. Unmoved /\ cam' = cam /\ failures' = failures + 1 /\ switch' = NoSwitch /\ crossed' = crossed
      /\ cameraActs' = cameraActs /\ switch.pc = "capturing"
  BY DEF SwitchRefused, Unmoved, Mishap
<1>3. NoSwitch \in Switches /\ NoSwitch.pc = "idle" /\ NoSwitch.peer = 0
  BY DEF NoSwitch, Switches, Handles, Places
<1>4. failures' \in Nat /\ failures' # 0
  BY <1>1, <1>2
<1>5. ~crossed' => /\ op.pc = "idle" /\ re.pc = "idle" /\ cam.sends = <<>>
  BY <1>1, <1>2, <1>3 DEF CamGood, OneTask
<1>6. ~crossed' => Device(cam, proc["op"], proc["restore"])' /\ Shown(cam, proc["op"], proc["restore"])'
  BY <1>1, <1>2, <1>3 DEF CamGood, Device, Unmoved, Nothing, PlacedBy, Tracks, Shown
<1>7. SameSends(cam, cam') /\ SameWish(cam, cam') /\ (Published(cam) <=> Published(cam'))
  BY <1>2 DEF SameSends, SameWish
<1> QED BY <1>1, <1>2, <1>3, <1>4, <1>5, <1>6, <1>7, UnmovedGood

\* The new capture takes over.
LEMMA AdoptDoes ==
  ASSUME NEW c \in Cams, NEW cap \in Captures, NEW prev \in Handles
  PROVE  LET d == Adopt(c, cap, prev)
             on == c.requested /\ ~c.suspended /\ ~c.audioOnly
         IN
         /\ d \in Cams /\ SameSends(c, d) /\ SameWish(c, d) /\ d.handle = cap
         /\ d.live = c.live \ ({c.handle, prev} \ {cap}) /\ cap \in Tracks(d)
         /\ d.attached = c.attached /\ d.sender = c.sender /\ d.negotiated = c.negotiated
         /\ cap \in d.enabled => on
         /\ on /\ peer # 0 => d.said = "on"
<1> DEFINE on == c.requested /\ ~c.suspended /\ ~c.audioOnly
           tracks == Append(Keep(c.tracks, Captures \ {prev}), cap)
           c1 == [c EXCEPT !.live = @ \ ({c.handle, prev} \ {cap}), !.handle = cap,
                      !.tracks = Append(Keep(@, Captures \ {prev}), cap)]
           e == Enable(c1, cap, on)
           d == Announce(e)
<1>1. Adopt(c, cap, prev) = d
  BY DEF Adopt
<1>2. /\ Keep(c.tracks, Captures \ {prev}) \in Seq(Captures) /\ cap \in Handles /\ cap # 0
      /\ on \in BOOLEAN
  BY KeepDoes, Assumed DEF Cams, Handles
<1>3. tracks \in Seq(Captures) /\ cap \in {tracks[i] : i \in DOMAIN tracks}
  <2> DEFINE kept == Keep(c.tracks, Captures \ {prev})
  <2>1. kept \in Seq(Captures) /\ tracks = Append(kept, cap)
    BY <1>2
  <2> HIDE DEF kept, tracks
  <2>2. tracks \in Seq(Captures) /\ Len(kept) + 1 \in DOMAIN tracks /\ tracks[Len(kept) + 1] = cap
    BY <2>1
  <2> QED BY <2>2
<1>4. c1 = [c EXCEPT !.live = @ \ ({c.handle, prev} \ {cap}), !.handle = cap, !.tracks = tracks]
  OBVIOUS
<1> HIDE DEF tracks, c1
<1>5. /\ c1 \in Cams /\ SameSends(c, c1) /\ SameWish(c, c1) /\ c1.handle = cap
      /\ c1.live = c.live \ ({c.handle, prev} \ {cap}) /\ c1.tracks = tracks
      /\ c1.attached = c.attached /\ c1.sender = c.sender /\ c1.negotiated = c.negotiated
  BY <1>2, <1>3, <1>4 DEF Cams, SameSends, SameWish
<1>6. /\ e \in Cams /\ SameDevice(c1, e) /\ SameWish(c1, e) /\ SameSends(c1, e)
      /\ e.enabled = IF on THEN c1.enabled \union {cap} ELSE c1.enabled \ {cap}
  <2>1. /\ Enable(c1, cap, on) \in Cams /\ SameDevice(c1, Enable(c1, cap, on))
        /\ SameWish(c1, Enable(c1, cap, on)) /\ SameSends(c1, Enable(c1, cap, on))
        /\ Enable(c1, cap, on).enabled = IF cap = 0 THEN c1.enabled
                        ELSE IF on THEN c1.enabled \union {cap} ELSE c1.enabled \ {cap}
    BY <1>2, <1>5, EnableDoes
  <2> QED BY <1>2, <2>1
<1> HIDE DEF e
<1>7. /\ d \in Cams /\ SameDevice(e, d) /\ SameWish(e, d) /\ SameSends(e, d) /\ d.enabled = e.enabled
      /\ d.said = IF peer = 0 THEN e.said
                  ELSE IF CameraOn(e) /\ e.handle \in e.enabled THEN "on" ELSE "off"
  BY <1>6, AnnounceDoes
<1> HIDE DEF d
<1>8. /\ d \in Cams /\ SameSends(c, d) /\ SameWish(c, d) /\ d.handle = cap
      /\ d.live = c.live \ ({c.handle, prev} \ {cap}) /\ cap \in Tracks(d)
      /\ d.attached = c.attached /\ d.sender = c.sender /\ d.negotiated = c.negotiated
      /\ cap \in d.enabled => on
  BY <1>3, <1>5, <1>6, <1>7 DEF SameSends, SameWish, SameDevice, Tracks
<1>9. on /\ peer # 0 => d.said = "on"
  BY <1>2, <1>5, <1>6, <1>7 DEF CameraOn, SameSends, SameWish, SameDevice, on
<1> QED BY <1>1, <1>8, <1>9 DEF on, d, e, c1

LEMMA SwitchReplacedGood ==
  ASSUME Good, SwitchReplaced
  PROVE  Good'
<1> DEFINE op == proc["op"]
           re == proc["restore"]
           c == [cam EXCEPT !.attached[switch.sender] = switch.cap]
           d == Adopt(c, switch.cap, switch.prev)
<1>1. CameraTyped /\ CamGood(cam, op, re, failures) /\ cam \in Cams /\ failures \in Nat /\ conns \in Nat
      /\ crossed \in BOOLEAN /\ cameraActs \in Nat /\ switch \in Switches /\ switch.cap \in Captures
      /\ switch.sender \in Senders
  BY DEF Good, CameraTyped, SwitchReplaced, Switches, Handles, Places
<1>2. Unmoved /\ failures' = failures /\ switch' = NoSwitch /\ crossed' = crossed
      /\ cameraActs' = cameraActs /\ switch.pc = "replacing"
      /\ cam' = IF switch.peer # peer THEN cam ELSE d
  BY DEF SwitchReplaced, Unmoved, bounds
<1>3. NoSwitch \in Switches /\ NoSwitch.pc = "idle" /\ NoSwitch.peer = 0
  BY DEF NoSwitch, Switches, Handles, Places
<1>4. /\ c \in Cams /\ SameSends(cam, c) /\ SameWish(cam, c) /\ c.handle = cam.handle /\ c.live = cam.live
      /\ c.attached = [cam.attached EXCEPT ![switch.sender] = switch.cap]
      /\ c.sender = cam.sender /\ c.negotiated = cam.negotiated
  BY <1>1 DEF Cams, SameSends, SameWish, Handles
<1> HIDE DEF c
<1>5. switch.prev \in Handles
  BY <1>1 DEF Switches
<1>6. LET on == c.requested /\ ~c.suspended /\ ~c.audioOnly IN
      /\ d \in Cams /\ SameSends(c, d) /\ SameWish(c, d) /\ d.handle = switch.cap
      /\ d.live = c.live \ ({c.handle, switch.prev} \ {switch.cap}) /\ switch.cap \in Tracks(d)
      /\ d.attached = c.attached /\ d.sender = c.sender /\ d.negotiated = c.negotiated
      /\ switch.cap \in d.enabled => on
      /\ on /\ peer # 0 => d.said = "on"
  BY <1>1, <1>4, <1>5, AdoptDoes
<1> HIDE DEF d
<1>7. cam' \in Cams /\ SameSends(cam, cam') /\ SameWish(cam, cam')
  BY <1>1, <1>2, <1>4, <1>6 DEF SameSends, SameWish
<1>8. ~crossed => /\ op.pc = "idle" /\ re.pc = "idle" /\ cam.sends = <<>> /\ cam' = d
                  /\ peer # 0 /\ stream # 0
  <2>1. ~crossed => OneTask(cam, op, re)
    BY <1>1 DEF CamGood
  <2> QED BY <1>1, <1>2, <1>3, <2>1 DEF OneTask, CameraTyped, At
<1>9. ~crossed => /\ Device(cam, op, re)
                  /\ switch.sender = cam.sender /\ cam.sender # 0
  BY <1>1, <1>2, Assumed DEF CamGood, Device
<1>10. ~crossed => /\ d.live = {switch.cap}
                   /\ \A s \in Senders : d.attached[s] # 0 => s = d.sender /\ d.attached[s] = d.handle
                   /\ d.attached[d.sender] = d.handle /\ d.handle # 0
  <2>1. ~crossed => cam.live \subseteq {cam.handle, switch.cap} /\ switch.cap \in cam.live
    BY <1>2, <1>9 DEF Device
  <2>2. cam.attached \in [Senders -> Handles]
    BY <1>1 DEF Cams
  <2> QED BY <1>1, <1>4, <1>6, <1>9, <2>1, <2>2, Assumed DEF Device
<1>11. ~crossed => Device(cam, proc["op"], proc["restore"])'
  BY <1>2, <1>3, <1>6, <1>8, <1>10 DEF Unmoved, Device, PlacedBy, Placing, Disabling, Tracks
<1>12. ~crossed => Shown(cam, proc["op"], proc["restore"])'
  BY <1>2, <1>6, <1>8 DEF Unmoved, Shown, SameWish, SameSends
<1>13. ~crossed /\ Published(cam) /\ cam.negotiated => Published(cam') /\ cam'.negotiated
  BY <1>4, <1>6, <1>8, <1>9, <1>10 DEF Published
<1> QED BY <1>1, <1>2, <1>3, <1>7, <1>8, <1>11, <1>12, <1>13, UnmovedGood

LEMMA SwitchCapturedGood ==
  ASSUME Good, SwitchCaptured
  PROVE  Good'
<1> DEFINE op == proc["op"]
           re == proc["restore"]
           prev == IF cam.tracks = <<>> THEN 0 ELSE Head(cam.tracks)
           cap == FreshCapture
           c == [cam EXCEPT !.live = @ \union {cap}]
           used == {s \in Senders : cam.attached[s] # 0}
           d == Adopt(c, cap, prev)
<1>1. CameraTyped /\ CamGood(cam, op, re, failures) /\ cam \in Cams /\ failures \in Nat /\ conns \in Nat
      /\ crossed \in BOOLEAN /\ cameraActs \in Nat /\ switch \in Switches /\ peer \in Nat /\ peer <= conns
      /\ switch.peer <= conns
  BY DEF Good, CameraTyped
<1>2. Unmoved /\ failures' = failures /\ crossed' = crossed
      /\ cameraActs' = cameraActs /\ switch.pc = "capturing"
      /\ \/ switch.peer # stream /\ switch' = NoSwitch /\ cam' = cam
         \/ /\ switch.peer = stream /\ used # {} /\ cam' = c
            /\ switch' = [switch EXCEPT !.pc = "replacing", !.cap = cap,
                                            !.prev = prev, !.sender = Min(used)]
         \/ used = {} /\ switch' = NoSwitch /\ cam' = d
  BY DEF SwitchCaptured, Unmoved, bounds
<1>3. NoSwitch \in Switches /\ NoSwitch.pc = "idle" /\ NoSwitch.peer = 0
  BY DEF NoSwitch, Switches, Handles, Places
<1>4. cap \in Captures /\ cap \notin Refers /\ cap # 0 /\ cap \in Handles /\ prev \in Handles
  <2>1. cap \in Captures /\ cap \notin Refers /\ cap # 0
    BY Fresh, Assumed DEF SwitchCaptured
  <2>2. cam.tracks \in Seq(Captures)
    BY <1>1 DEF Cams
  <2> QED BY <2>1, <2>2 DEF Handles
<1>5. cap \notin cam.live /\ cap # cam.handle
  BY <1>4 DEF Refers
<1> HIDE DEF cap, prev
<1>6. /\ c \in Cams /\ SameSends(cam, c) /\ SameWish(cam, c) /\ c.handle = cam.handle
      /\ c.live = cam.live \union {cap} /\ c.tracks = cam.tracks /\ c.enabled = cam.enabled /\ c.said = cam.said
      /\ c.attached = cam.attached /\ c.sender = cam.sender /\ c.negotiated = cam.negotiated
  BY <1>1, <1>4 DEF Cams, SameSends, SameWish
<1> HIDE DEF c
<1>7. ~crossed => /\ op.pc = "idle" /\ re.pc = "idle" /\ cam.sends = <<>>
                  /\ peer # 0 /\ stream = peer /\ switch.peer = peer /\ Device(cam, op, re)
  BY <1>1, <1>2, <1>3 DEF CamGood, OneTask, CameraTyped, At
<1>8. ~crossed => /\ cam.live \subseteq {cam.handle}
                  /\ \A s \in Senders : cam.attached[s] # 0 => s = cam.sender /\ cam.attached[s] = cam.handle
                  /\ cam.handle # 0 => cam.handle \in cam.live /\ cam.handle \in Tracks(cam)
  BY <1>2, <1>7 DEF Device, Disabling
<1>9. CASE switch.peer # stream /\ switch' = NoSwitch /\ cam' = cam
  <2>1. SameSends(cam, cam') /\ SameWish(cam, cam')
    BY <1>9 DEF SameSends, SameWish
  <2> QED BY <1>1, <1>2, <1>3, <1>7, <1>9, <2>1, UnmovedGood
<1>10. CASE /\ switch.peer = stream /\ used # {} /\ cam' = c
            /\ switch' = [switch EXCEPT !.pc = "replacing", !.cap = cap,
                                            !.prev = prev, !.sender = Min(used)]
  <2>1. Min(used) \in used
    BY <1>10, MinDoes
  <2>2. Min(used) \in Senders /\ Min(used) # 0 /\ cam.attached[Min(used)] # 0
    BY <2>1, Assumed
  <2> HIDE DEF used
  <2>3. /\ switch' \in Switches /\ switch'.pc = "replacing" /\ switch'.cap = cap
        /\ switch'.sender = Min(used) /\ switch'.peer = switch.peer
    BY <1>1, <1>4, <1>10, <2>2 DEF Switches, Places
  <2>4. ~crossed => Min(used) = cam.sender
    BY <1>8, <2>2
  <2>5. ~crossed => Device(cam, proc["op"], proc["restore"])'
    <3> SUFFICES ASSUME ~crossed PROVE Device(cam, proc["op"], proc["restore"])'
      OBVIOUS
    <3>1. Tracks(cam)' = Tracks(cam)
      BY <1>6, <1>10 DEF Tracks
    <3>2. stream' # 0 /\ proc'["op"].pc = "idle" /\ proc'["restore"].pc = "idle"
      BY <1>2, <1>7 DEF Unmoved
    <3>3. c.live \subseteq {c.handle} \union {cap} /\ (c.handle # 0 => c.handle \in c.live)
      BY <1>6, <1>8
    <3>4. PlacedBy(cam, proc["op"])' /\ PlacedBy(cam, proc["restore"])'
      BY <3>2 DEF PlacedBy, Placing
    <3> QED BY <1>6, <1>8, <1>10, <2>2, <2>3, <2>4, <3>1, <3>2, <3>3, <3>4 DEF Device, Disabling
  <2>6. ~crossed => Shown(cam, proc["op"], proc["restore"])'
    BY <1>1, <1>2, <1>6, <1>10 DEF CamGood, Unmoved, Shown, SameWish, SameSends
  <2>7. Published(cam) /\ cam.negotiated => Published(cam') /\ cam'.negotiated
    BY <1>6, <1>10 DEF Published
  <2> QED BY <1>1, <1>2, <1>4, <1>6, <1>7, <1>10, <2>2, <2>3, <2>5, <2>6, <2>7, UnmovedGood
<1>11. CASE used = {} /\ switch' = NoSwitch /\ cam' = d
  <2>1. LET on == c.requested /\ ~c.suspended /\ ~c.audioOnly IN
        /\ d \in Cams /\ SameSends(c, d) /\ SameWish(c, d) /\ d.handle = cap
        /\ d.live = c.live \ ({c.handle, prev} \ {cap}) /\ cap \in Tracks(d)
        /\ d.attached = c.attached /\ d.sender = c.sender /\ d.negotiated = c.negotiated
        /\ cap \in d.enabled => on
        /\ on /\ peer # 0 => d.said = "on"
    BY <1>4, <1>6, AdoptDoes
  <2> HIDE DEF d
  <2>2. cam' \in Cams /\ SameSends(cam, cam') /\ SameWish(cam, cam')
    BY <1>6, <1>11, <2>1 DEF SameSends, SameWish
  <2>3. \A s \in Senders : cam.attached[s] = 0
    BY <1>11
  <2>4. ~crossed => d.live = {cap}
    BY <1>5, <1>6, <1>8, <2>1
  <2>5. ~crossed => Device(cam, proc["op"], proc["restore"])'
    <3> SUFFICES ASSUME ~crossed PROVE Device(cam, proc["op"], proc["restore"])'
      OBVIOUS
    <3>1. Tracks(cam)' = Tracks(d)
      BY <1>11 DEF Tracks
    <3>2. stream' # 0 /\ proc'["op"].pc = "idle" /\ proc'["restore"].pc = "idle"
      BY <1>2, <1>7 DEF Unmoved
    <3>4. PlacedBy(cam, proc["op"])' /\ PlacedBy(cam, proc["restore"])'
      BY <3>2 DEF PlacedBy, Placing
    <3> QED BY <1>3, <1>6, <1>11, <2>1, <2>3, <2>4, <3>1, <3>2, <3>4 DEF Device, Disabling
  <2>6. ~crossed => Shown(cam, proc["op"], proc["restore"])'
    BY <1>2, <1>7, <1>11, <2>1 DEF Unmoved, Shown, SameWish, SameSends
  <2>7. ~(Published(cam) /\ ~crossed)
    <3>1. cam.sender \in Places
      BY <1>1 DEF Cams
    <3> QED BY <2>3, <3>1 DEF Published, Places
  <2> QED BY <1>1, <1>2, <1>3, <1>7, <1>11, <2>2, <2>5, <2>6, <2>7, UnmovedGood
<1> QED BY <1>2, <1>9, <1>10, <1>11

\* The calls of setVideoSending that the restoration awaited have nobody who waits.
LEMMA OrphanedSends ==
  ASSUME NEW s \in Seq(Sends)
  PROVE  LET t == [i \in DOMAIN s |-> IF s[i].who = "restore" THEN [s[i] EXCEPT !.who = "none"] ELSE s[i]]
         IN  /\ t \in Seq(Sends) /\ DOMAIN t = DOMAIN s /\ Len(t) = Len(s) /\ (t = <<>> <=> s = <<>>)
             /\ \A i \in DOMAIN s : /\ t[i].on = s[i].on
                                    /\ t[i].who = IF s[i].who = "restore" THEN "none" ELSE s[i].who
<1> DEFINE t == [i \in DOMAIN s |-> IF s[i].who = "restore" THEN [s[i] EXCEPT !.who = "none"] ELSE s[i]]
           n == Len(s)
<1>1. n \in Nat /\ DOMAIN s = 1 .. n /\ \A i \in 1 .. n : s[i] \in Sends
  OBVIOUS
<1>2. ASSUME NEW i \in 1 .. n
      PROVE  /\ t[i] \in Sends /\ t[i].on = s[i].on
             /\ t[i].who = IF s[i].who = "restore" THEN "none" ELSE s[i].who
  BY <1>1 DEF Sends
<1>3. t \in [1 .. n -> Sends]
  BY <1>1, <1>2
<1> HIDE DEF t
<1>4. t \in Seq(Sends) /\ Len(t) = n /\ DOMAIN t = 1 .. n
  BY <1>1, <1>3
<1>5. t = <<>> <=> s = <<>>
  <2>1. t = <<>> <=> Len(t) = 0
    BY <1>4
  <2>2. s = <<>> <=> Len(s) = 0
    OBVIOUS
  <2> QED BY <1>4, <2>1, <2>2
<1> HIDE DEF n
<1>6. /\ t \in Seq(Sends) /\ DOMAIN t = DOMAIN s /\ Len(t) = Len(s) /\ (t = <<>> <=> s = <<>>)
      /\ \A i \in DOMAIN s : /\ t[i].on = s[i].on
                             /\ t[i].who = IF s[i].who = "restore" THEN "none" ELSE s[i].who
  BY <1>1, <1>2, <1>4, <1>5 DEF n
<1> QED BY <1>6 DEF t

\* The connection is lost, and the next one starts.
LEMMA ResetGood ==
  ASSUME Good, Reset
  PROVE  Good'
<1> DEFINE op == proc["op"]
           re == proc["restore"]
           sends == [i \in DOMAIN cam.sends |-> IF cam.sends[i].who = "restore"
                                       THEN [cam.sends[i] EXCEPT !.who = "none"] ELSE cam.sends[i]]
           d == cam'
<1>1. CameraTyped /\ CamGood(cam, op, re, failures) /\ cam \in Cams /\ op \in Procs /\ OpTyped(op)
      /\ cam.sends \in Seq(Sends) /\ peer # 0 /\ peer \in Nat
  BY DEF Good, CameraTyped, OpTyped, ProcTyped, Cams, Reset
<1>2. /\ peer' = 0 /\ stream' = 0 /\ switch' = switch /\ proc'["op"] = op /\ proc'["restore"] = Idle
      /\ DOMAIN proc' = {"op", "restore"} /\ meddled' = meddled /\ conns' = conns /\ failures' = failures
      /\ cameraActs' = cameraActs /\ drops' \in Nat /\ crossed' \in BOOLEAN
      /\ asked' = (IF op.pc = "idle" THEN asked ELSE "none")
      /\ ~crossed' => ~crossed /\ switch = NoSwitch
  <2>1. crossed' = (crossed \/ switch # NoSwitch) /\ drops' = drops + 1 /\ drops \in Nat
    BY <1>1 DEF Reset, CameraTyped
  <2>2. (crossed \/ switch # NoSwitch) \in BOOLEAN /\ drops' \in Nat
    BY <2>1
  <2>3. proc' = [proc EXCEPT !["restore"] = Idle] /\ DOMAIN proc = {"op", "restore"}
    BY <1>1 DEF Reset, CameraTyped
  <2>4. proc'["op"] = op /\ proc'["restore"] = Idle /\ DOMAIN proc' = {"op", "restore"}
    BY <2>3
  <2> QED BY <2>1, <2>2, <2>4 DEF Reset, At
<1>3. /\ sends \in Seq(Sends) /\ DOMAIN sends = DOMAIN cam.sends /\ Len(sends) = Len(cam.sends)
      /\ (sends = <<>> <=> cam.sends = <<>>)
      /\ \A i \in DOMAIN cam.sends :
           /\ sends[i].on = cam.sends[i].on
           /\ sends[i].who = IF cam.sends[i].who = "restore" THEN "none" ELSE cam.sends[i].who
  BY <1>1, OrphanedSends
<1>4. cam' = [cam EXCEPT
       !.live = @ \ {cam.tracks[i] : i \in DOMAIN cam.tracks},
       !.handle = 0, !.tracks = <<>>, !.sender = 0, !.negotiated = FALSE,
       !.attached = [s \in Senders |-> 0], !.active = Senders,
       !.suspended = @ \/ cam.audioOnly, !.automatic = @ /\ ~cam.audioOnly,
       !.sends = sends, !.said = "nothing"]
  BY DEF Reset
<1> HIDE DEF sends
<1>5. /\ d \in Cams /\ d.live = cam.live \ Tracks(cam) /\ d.handle = 0 /\ d.tracks = <<>> /\ d.sender = 0
      /\ d.attached = [s \in Senders |-> 0] /\ d.sends = sends /\ SameWish(cam, d)
      /\ d.suspended = (cam.suspended \/ cam.audioOnly)
  <2>1. (cam.suspended \/ cam.audioOnly) \in BOOLEAN /\ (cam.automatic /\ ~cam.audioOnly) \in BOOLEAN
    OBVIOUS
  <2>2. [s \in Senders |-> 0] \in [Senders -> Handles] /\ 0 \in Handles /\ 0 \in Places
    BY DEF Handles, Places
  <2> DEFINE suspended == cam.suspended \/ cam.audioOnly
             automatic == cam.automatic /\ ~cam.audioOnly
             none == [s \in Senders |-> 0]
             running == cam.live \ Tracks(cam)
  <2>3. d = [cam EXCEPT !.live = running, !.handle = 0, !.tracks = <<>>, !.sender = 0,
               !.negotiated = FALSE, !.attached = none, !.active = Senders,
               !.suspended = suspended, !.automatic = automatic, !.sends = sends, !.said = "nothing"]
    BY <1>4 DEF Tracks
  <2>4. running \in SUBSET Captures /\ suspended \in BOOLEAN /\ automatic \in BOOLEAN
        /\ none \in [Senders -> Handles] /\ <<>> \in Seq(Captures)
    BY <1>1, <2>1, <2>2 DEF Cams
  <2> HIDE DEF running, suspended, automatic, none, d
  <2>5. d \in Cams
    BY <1>1, <1>3, <2>2, <2>3, <2>4 DEF Cams
  <2>6. /\ d.live = running /\ d.handle = 0 /\ d.tracks = <<>> /\ d.sender = 0
        /\ d.attached = none /\ d.sends = sends /\ SameWish(cam, d) /\ d.suspended = suspended
    BY <1>1, <2>3 DEF Cams, SameWish
  <2> QED BY <2>5, <2>6 DEF running, suspended, none
<1>6. cam.audioOnly => cam.suspended
  BY <1>1 DEF CamGood, SendsInv
<1>7. Idle.pc = "idle" /\ NoSwitch.pc = "idle"
  BY DEF Idle, NoSwitch
<1>8. CameraTyped'
  <2>1. OpTyped(proc["op"])'
    BY <1>1, <1>2 DEF OpTyped, ProcTyped
  <2>2. RestoreTyped(proc["restore"])'
    <3>1. RestoreTyped(Idle)'
      BY <1>7 DEF RestoreTyped, ProcTyped, RestorePcs, Placing, Idle, Procs, Handles, Places
    <3> QED BY <1>2, <3>1
  <2> QED BY <1>1, <1>2, <1>5, <2>1, <2>2 DEF CameraTyped, At
<1>9. SendsInv(cam, proc["op"], proc["restore"])'
  <2>1. SendsInv(cam, op, re)
    BY <1>1 DEF CamGood
  <2>2. ASSUME NEW i \in DOMAIN sends
        PROVE  /\ sends[i].who = "op" => op.pc = "resuming"
               /\ sends[i].who # "restore"
    BY <1>3, <2>1 DEF SendsInv
  <2>3. ASSUME NEW i \in DOMAIN sends, NEW j \in DOMAIN sends, sends[i].who = sends[j].who
        PROVE  i = j \/ sends[i].who = "none"
    BY <1>3, <2>1, <2>3 DEF SendsInv
  <2>4. sends # <<>> => sends[Len(sends)].on = ~cam.suspended
    <3> SUFFICES ASSUME sends # <<>> PROVE sends[Len(sends)].on = ~cam.suspended
      OBVIOUS
    <3>1. Len(cam.sends) \in DOMAIN cam.sends
      <4>1. cam.sends # <<>>
        BY <1>3
      <4> QED BY <1>1, <4>1
    <3> QED BY <1>3, <2>1, <3>1 DEF SendsInv
  <2>5. d.suspended = cam.suspended
    <3>1. cam.suspended \in BOOLEAN /\ d.suspended \in BOOLEAN
      BY <1>1, <1>5 DEF Cams
    <3> QED BY <1>5, <1>6, <3>1
  <2> QED BY <1>2, <1>5, <1>6, <2>2, <2>3, <2>4, <2>5 DEF SendsInv, SameWish
<1>10. TargetInv(cam, proc["op"])'
  BY <1>1, <1>2, <1>5 DEF CamGood, TargetInv, SameWish
<1>11. ~crossed' => OneTask(cam, proc["op"], proc["restore"])'
  BY <1>1, <1>2, <1>7 DEF OneTask
<1>12. ~crossed' => Device(cam, proc["op"], proc["restore"])'
  <2> SUFFICES ASSUME ~crossed' PROVE Device(cam, proc["op"], proc["restore"])'
    OBVIOUS
  <2>1. Device(cam, op, re) /\ switch.pc = "idle"
    BY <1>1, <1>2, <1>7 DEF CamGood
  <2>2. d.live = {}
    <3>1. CASE op.pc \in Disabling
      BY <1>5, <2>1, <3>1 DEF Device
    <3>2. CASE op.pc \notin Disabling
      <4>1. cam.live \subseteq {cam.handle} /\ (cam.handle # 0 => cam.handle \in Tracks(cam))
        BY <2>1, <3>2 DEF Device
      <4>2. 0 \notin cam.live
        BY <1>1, Assumed DEF Cams
      <4> QED BY <1>5, <4>1, <4>2
    <3> QED BY <3>1, <3>2
  <2>3. \A s \in Senders : d.attached[s] = 0
    BY <1>5
  <2>4. PlacedBy(cam, proc["op"])' /\ PlacedBy(cam, proc["restore"])'
    BY <1>1, <1>2, <1>7 DEF PlacedBy, OpTyped, Placing, Enabling
  <2> QED BY <1>2, <1>5, <1>7, <2>1, <2>2, <2>3, <2>4 DEF Device, Nothing, Disabling
<1>13. ~crossed' => Shown(cam, proc["op"], proc["restore"])' /\ RestoreWished(cam, proc["restore"])'
  BY <1>2, <1>5, <1>7 DEF Shown, RestoreWished, Enabling, Placing
<1>14. ~crossed' /\ ~meddled' => Wished(cam, proc["op"], proc["restore"])'
  BY <1>1, <1>2, <1>5 DEF CamGood, Wished, SameWish
<1>15. ~crossed' /\ ~meddled' /\ failures' = 0 => Succeeds(cam, proc["op"], proc["restore"])'
  BY <1>1, <1>2, <1>5, <1>7 DEF CamGood, Succeeds, SameWish
<1> QED BY <1>8, <1>9, <1>10, <1>11, <1>12, <1>13, <1>14, <1>15 DEF Good, CamGood

LEMMA StartGood ==
  ASSUME Good, Start
  PROVE  Good'
<1> DEFINE op == proc["op"]
           re == proc["restore"]
           q == [Idle EXCEPT !.pc = "setup", !.peer = conns + 1]
<1>1. CameraTyped /\ CamGood(cam, op, re, failures) /\ cam \in Cams /\ op \in Procs /\ OpTyped(op)
      /\ conns \in Nat /\ peer = 0 /\ stream = 0 /\ cam.sends = <<>>
  BY DEF Good, CameraTyped, OpTyped, ProcTyped, Start, Rejected
<1>2. /\ peer' = conns + 1 /\ stream' = 0 /\ switch' = switch /\ proc'["op"] = op /\ proc'["restore"] = q
      /\ DOMAIN proc' = {"op", "restore"} /\ meddled' = meddled /\ conns' = conns + 1 /\ failures' = failures
      /\ cameraActs' = cameraActs /\ drops' = drops /\ crossed' \in BOOLEAN /\ cam' = cam /\ asked' = asked
      /\ ~crossed' => ~crossed /\ switch = NoSwitch /\ op.pc = "idle"
  BY <1>1 DEF Start, CameraTyped, At
<1>3. q \in Procs /\ q.pc = "setup" /\ q.peer = conns + 1
  <2>1. Idle \in Procs
    BY DEF Idle, Procs, OpPcs, Handles, Places
  <2>2. conns + 1 \in Nat /\ "setup" \in RestorePcs
    BY <1>1 DEF RestorePcs
  <2> QED BY <2>1, <2>2 DEF Procs
<1> HIDE DEF q, op, re
<1>4. CameraTyped'
  <2>1. OpTyped(proc["op"])'
    BY <1>1, <1>2 DEF OpTyped, ProcTyped, Procs
  <2>2. RestoreTyped(proc["restore"])'
    BY <1>1, <1>2, <1>3 DEF RestoreTyped, ProcTyped, RestorePcs, Placing
  <2>3. switch'.peer <= conns'
    BY <1>1, <1>2 DEF CameraTyped, Switches
  <2> QED BY <1>1, <1>2, <1>3, <2>1, <2>2, <2>3 DEF CameraTyped, At
<1>5. SendsInv(cam, proc["op"], proc["restore"])' /\ TargetInv(cam, proc["op"])'
  BY <1>1, <1>2 DEF CamGood, SendsInv, TargetInv
<1>6. ~crossed' => OneTask(cam, proc["op"], proc["restore"])'
  BY <1>1, <1>2 DEF OneTask, Enabling, Disabling, Placing
<1>7. ~crossed' => Nothing(cam)
  BY <1>1, <1>2 DEF CamGood, Device
<1>8. ~crossed' => Device(cam, proc["op"], proc["restore"])'
  <2>1. NoSwitch.pc = "idle"
    BY DEF NoSwitch
  <2> QED BY <1>2, <1>3, <1>7, <2>1, Assumed DEF Device, Nothing, PlacedBy, Placing, Disabling
<1>9. ~crossed' => Shown(cam, proc["op"], proc["restore"])' /\ RestoreWished(cam, proc["restore"])'
  BY <1>2, <1>3, <1>7 DEF Nothing, Shown, RestoreWished, Enabling, Placing
<1>10. ~crossed' /\ ~meddled' => Wished(cam, proc["op"], proc["restore"])'
  BY <1>1, <1>2 DEF CamGood, Wished, Disabling, Placing
<1>11. ~crossed' /\ ~meddled' /\ failures' = 0 => Succeeds(cam, proc["op"], proc["restore"])'
  BY <1>1, <1>2, <1>3 DEF CamGood, Succeeds, Enabling, Placing
<1> QED BY <1>4, <1>5, <1>6, <1>8, <1>9, <1>10, <1>11 DEF Good, CamGood

\* A turn of the loop is good whatever the user asked last; so also in the next state.
EveryTurn ==
  \A c \in Cams : \A re, f, d, o :
    /\ CamGood(c, Turn, re, f) /\ Around(re)
    /\ d = Iterate(c).cam /\ o = Iterate(c).r
    => d \in Cams /\ OpTyped(o) /\ CamGood(d, o, re, f)

\* The turn of the loop that a click begins is taken with the next state's variables.
LEMMA EveryTurnGood == EveryTurn
BY IterateGood DEF EveryTurn, OpGood

LEMMA NextTurnGood ==
  ASSUME NEW CONSTANT c \in Cams, NEW CONSTANT re, NEW CONSTANT f, NEW CONSTANT d, NEW CONSTANT o,
         CamGood(c, Turn, re, f)', Around(re)', d = Iterate(c)'.cam, o = Iterate(c)'.r
  PROVE  d \in Cams /\ OpTyped(o)' /\ CamGood(d, o, re, f)'
<1>1. EveryTurn'
  BY EveryTurnGood, PTL
<1> QED BY <1>1 DEF EveryTurn

LEMMA SameTurn ==
  ASSUME NEW CONSTANT c, peer' = peer, stream' = stream
  PROVE  Iterate(c)' = Iterate(c)
BY DEF Iterate, Disable, EnableOnce, Prepare, Resume, SetVideoSending, Activate, Finish, Result, Enable,
       TrackEnabled

\* What an act of the user or the adaptation leaves alone.
LEMMA ActDoes ==
  ASSUME Good, NEW x, Act(x), asked' \in {"none", "on", "off"}
  PROVE  /\ peer' = peer /\ stream' = stream /\ switch' = switch /\ conns' = conns /\ drops' = drops
         /\ failures' = failures /\ cam' = x.cam /\ proc'["op"] = x.r
         /\ proc'["restore"] = proc["restore"] /\ DOMAIN proc' = {"op", "restore"}
         /\ cameraActs' \in Nat /\ crossed' \in BOOLEAN /\ meddled' \in BOOLEAN
         /\ ~crossed' => ~crossed /\ switch = NoSwitch /\ proc["restore"].pc = "idle"
         /\ ~meddled' => ~meddled /\ (x.r.pc = "idle" \/ (~cam.audioOnly /\ ~x.cam.audioOnly))
         /\ Around(proc["restore"])'
<1>1. CameraTyped /\ DOMAIN proc = {"op", "restore"} /\ cameraActs \in Nat
  BY DEF Good, CameraTyped
<1>2. proc' = [proc EXCEPT !["op"] = x.r] /\ cameraActs' = cameraActs + 1
  BY DEF Act
<1>3. /\ proc'["op"] = x.r /\ proc'["restore"] = proc["restore"] /\ DOMAIN proc' = {"op", "restore"}
      /\ cameraActs' \in Nat
  BY <1>1, <1>2
<1>4. crossed' = (crossed \/ switch # NoSwitch \/ proc["restore"].pc # "idle")
  BY DEF Act, At
<1>5. meddled' = (meddled \/ (x.r.pc # "idle" /\ (cam.audioOnly \/ x.cam.audioOnly)))
  BY DEF Act
<1>6. crossed' \in BOOLEAN /\ meddled' \in BOOLEAN
  BY <1>4, <1>5
<1>7. /\ peer' = peer /\ stream' = stream /\ switch' = switch /\ conns' = conns /\ drops' = drops
      /\ failures' = failures /\ cam' = x.cam
  BY DEF Act
<1>8. Around(proc["restore"])'
  BY <1>1, <1>3, <1>7 DEF CameraTyped, Around, At
<1> QED BY <1>3, <1>4, <1>5, <1>6, <1>7, <1>8

\* An act keeps the invariant if its result does.
LEMMA ActGood ==
  ASSUME Good, NEW x, Act(x), asked' \in {"none", "on", "off"},
         NEW CONSTANT d, NEW CONSTANT o, NEW CONSTANT re, NEW CONSTANT f,
         d = x.cam, o = x.r, re = proc["restore"], f = failures,
         d \in Cams, OpTyped(o)', CamGood(d, o, re, f)'
  PROVE  Good'
<1>1. /\ peer' = peer /\ stream' = stream /\ switch' = switch /\ conns' = conns /\ drops' = drops
      /\ failures' = f /\ cam' = d /\ proc'["op"] = o
      /\ proc'["restore"] = re /\ DOMAIN proc' = {"op", "restore"}
      /\ cameraActs' \in Nat /\ crossed' \in BOOLEAN /\ meddled' \in BOOLEAN
  BY ActDoes
<1>2. CameraTyped'
  <2>1. OpTyped(proc["op"])'
    BY <1>1 DEF OpTyped, ProcTyped
  <2>2. RestoreTyped(proc["restore"])'
    BY <1>1 DEF Good, CameraTyped, RestoreTyped, ProcTyped
  <2> QED BY <1>1, <2>1, <2>2 DEF Good, CameraTyped, At
<1>3. SendsInv(cam, proc["op"], proc["restore"])' /\ TargetInv(cam, proc["op"])'
  BY <1>1 DEF CamGood, SendsInv, TargetInv
<1>4. ~crossed' => OneTask(cam, proc["op"], proc["restore"])' /\ RestoreWished(cam, proc["restore"])'
  BY <1>1 DEF CamGood, OneTask, RestoreWished, Wants
<1>5. ~crossed' => Device(cam, proc["op"], proc["restore"])'
  BY <1>1 DEF CamGood, Device, Nothing, PlacedBy, Tracks
<1>6. ~crossed' => Shown(cam, proc["op"], proc["restore"])'
  BY <1>1 DEF CamGood, Shown
<1>7. ~crossed' /\ ~meddled' => Wished(cam, proc["op"], proc["restore"])'
  BY <1>1 DEF CamGood, Wished
<1>8. ~crossed' /\ ~meddled' /\ failures' = 0 => Succeeds(cam, proc["op"], proc["restore"])'
  BY <1>1 DEF CamGood, Succeeds, Wants, Published
<1> QED BY <1>2, <1>3, <1>4, <1>5, <1>6, <1>7, <1>8 DEF Good, CamGood

\* An act that changes what is wished, and leaves the camera itself and the
\* operation alone: d is the camera after it, maybe with a call of setVideoSending.
LEMMA WishGood ==
  ASSUME Good, NEW d \in Cams, Act(Result(d, proc["op"])), asked' \in {"none", "on", "off"},
         SameDevice(cam, d), SendsInv(d, proc["op"], proc["restore"]), TargetInv(d, proc["op"])',
         ~crossed' => Shown(d, proc["op"], proc["restore"]),
         ~crossed' /\ ~meddled' => Wished(d, proc["op"], proc["restore"]),
         ~crossed' /\ ~meddled' /\ failures = 0 =>
           /\ proc["op"].pc = "idle" => asked' \in {"none", IF d.requested THEN "on" ELSE "off"}
           /\ proc["op"].pc \in {"idle", "resuming"} /\ Wants(d) => Wants(cam)
  PROVE  Good'
<1> DEFINE op == proc["op"]
           re == proc["restore"]
<1>1. CameraTyped /\ CamGood(cam, op, re, failures)
  BY DEF Good
<1>2. Result(d, op).cam = d /\ Result(d, op).r = op
  BY DEF Result
<1>3. /\ peer' = peer /\ stream' = stream /\ switch' = switch /\ conns' = conns /\ drops' = drops
      /\ failures' = failures /\ cam' = d /\ proc'["op"] = op
      /\ proc'["restore"] = re /\ DOMAIN proc' = {"op", "restore"}
      /\ cameraActs' \in Nat /\ crossed' \in BOOLEAN /\ meddled' \in BOOLEAN
      /\ ~crossed' => ~crossed /\ switch = NoSwitch /\ re.pc = "idle"
      /\ ~meddled' => ~meddled
  BY <1>2, ActDoes
<1>4. CameraTyped'
  <2>1. OpTyped(proc["op"])' /\ RestoreTyped(proc["restore"])'
    BY <1>1, <1>3 DEF CameraTyped, OpTyped, RestoreTyped, ProcTyped
  <2> QED BY <1>1, <1>3, <2>1 DEF CameraTyped, At
<1>5. SendsInv(cam, proc["op"], proc["restore"])' /\ TargetInv(cam, proc["op"])'
  BY <1>3 DEF SendsInv, TargetInv
<1>6. ~crossed' => OneTask(cam, proc["op"], proc["restore"])' /\ RestoreWished(cam, proc["restore"])'
  BY <1>1, <1>3 DEF CamGood, OneTask, RestoreWished, Enabling, Placing
<1>7. ~crossed' => Device(cam, proc["op"], proc["restore"])'
  BY <1>1, <1>3 DEF CamGood, Device, Nothing, PlacedBy, Tracks, SameDevice
<1>8. ~crossed' => Shown(cam, proc["op"], proc["restore"])'
  BY <1>3 DEF Shown
<1>9. ~crossed' /\ ~meddled' => Wished(cam, proc["op"], proc["restore"])'
  BY <1>3 DEF Wished
<1>10. ~crossed' /\ ~meddled' /\ failures' = 0 => Succeeds(cam, proc["op"], proc["restore"])'
  <2> SUFFICES ASSUME ~crossed', ~meddled', failures' = 0
               PROVE  Succeeds(cam, proc["op"], proc["restore"])'
    OBVIOUS
  <2>1. Succeeds(cam, op, re)
    BY <1>1, <1>3 DEF CamGood
  <2>2. Published(cam)' <=> Published(cam)
    BY <1>3 DEF Published, SameDevice
  <2>3. Wants(cam)' <=> Wants(d)
    BY <1>3 DEF Wants
  <2>4. op.pc # "turn"
    BY <1>1 DEF CameraTyped, OpTyped, OpPcs, Enabling, Placing, Disabling
  <2>5. cam'.negotiated = cam.negotiated
    BY <1>3 DEF SameDevice
  <2> QED BY <1>3, <2>1, <2>2, <2>3, <2>4, <2>5 DEF Succeeds, Enabling, Placing
<1> QED BY <1>4, <1>5, <1>6, <1>7, <1>8, <1>9, <1>10 DEF Good, CamGood

\* setVideoSending, called by nobody who waits for it.
LEMMA SendAsked ==
  ASSUME Good, NEW b \in Cams, SameDevice(cam, b), b.sends = cam.sends, b.target = cam.target,
         NEW on \in BOOLEAN, NEW automatic \in BOOLEAN
  PROVE  LET d == SetVideoSending(b, on, automatic, "none") IN
         /\ d \in Cams /\ SameDevice(cam, d) /\ SameWish(b, d)
         /\ SendsInv(d, proc["op"], proc["restore"]) /\ d.sends # <<>>
<1> DEFINE op == proc["op"]
           re == proc["restore"]
           d == SetVideoSending(b, on, automatic, "none")
           last == [on |-> on /\ ~b.audioOnly, who |-> "none"]
<1>1. CameraTyped /\ SendsInv(cam, op, re) /\ cam.sends \in Seq(Sends)
  BY DEF Good, CamGood, CameraTyped, Cams
<1>2. /\ d \in Cams /\ SameDevice(b, d) /\ SameWish(b, d)
      /\ d.suspended = ~(on /\ ~b.audioOnly) /\ d.sends = Append(b.sends, last)
  <2>1. "none" \in {"op", "restore", "none"}
    OBVIOUS
  <2>2. /\ SetVideoSending(b, on, automatic, "none") \in Cams
        /\ SameDevice(b, SetVideoSending(b, on, automatic, "none"))
        /\ SameWish(b, SetVideoSending(b, on, automatic, "none"))
        /\ SetVideoSending(b, on, automatic, "none").suspended = ~(on /\ ~b.audioOnly)
        /\ SetVideoSending(b, on, automatic, "none").sends
             = Append(b.sends, [on |-> on /\ ~b.audioOnly, who |-> "none"])
    BY <2>1, SetVideoSendingDoes, ZenonT(60)
  <2> QED BY <2>2
<1> HIDE DEF d
<1>3. SameDevice(cam, d)
  BY <1>2 DEF SameDevice
<1>4. last \in Sends /\ last.who = "none" /\ last.on = (on /\ ~b.audioOnly)
  BY DEF Sends
<1> HIDE DEF last
<1> DEFINE n == Len(cam.sends)
<1>5. /\ n \in Nat /\ DOMAIN d.sends = 1 .. n + 1 /\ d.sends[n + 1] = last /\ Len(d.sends) = n + 1
      /\ d.sends # <<>>
      /\ \A i \in 1 .. n : d.sends[i] = cam.sends[i] /\ i \in DOMAIN cam.sends
  BY <1>1, <1>2, <1>4
<1>6. \A i \in 1 .. n + 1 : i \in 1 .. n \/ i = n + 1
  BY <1>5
<1> HIDE DEF n, op, re
<1>7. ASSUME NEW i \in DOMAIN d.sends
      PROVE  /\ d.sends[i].who = "op" => op.pc = "resuming"
             /\ d.sends[i].who = "restore" => re.pc = "sending"
  BY <1>1, <1>4, <1>5, <1>6 DEF SendsInv
<1>8. ASSUME NEW i \in DOMAIN d.sends, NEW j \in DOMAIN d.sends, d.sends[i].who = d.sends[j].who
      PROVE  i = j \/ d.sends[i].who = "none"
  BY <1>1, <1>4, <1>5, <1>6, <1>8 DEF SendsInv
<1>9. d.sends[Len(d.sends)].on = ~d.suspended
  <2>1. b.audioOnly \in BOOLEAN
    BY DEF Cams
  <2> QED BY <1>2, <1>4, <1>5, <2>1
<1>10. d.audioOnly => d.suspended
  BY <1>2 DEF SameWish
<1>11. SendsInv(d, op, re)
  BY <1>7, <1>8, <1>9, <1>10 DEF SendsInv
<1> QED BY <1>2, <1>3, <1>5, <1>11 DEF d, op, re

\* "Protect audio", the pause and the resumption by the adaptation.
LEMMA ToggleAudioOnlyGood ==
  ASSUME Good, ToggleAudioOnly
  PROVE  Good'
<1> DEFINE op == proc["op"]
           re == proc["restore"]
           wish == [cam EXCEPT !.audioOnly = TRUE, !.before = cam.requested, !.requested = FALSE]
           unwish == [cam EXCEPT !.audioOnly = FALSE, !.requested = cam.before /\ cam.quality]
           b == IF cam.audioOnly THEN unwish ELSE wish
           on == cam.audioOnly /\ cam.before /\ cam.quality
           D == SetVideoSending(b, on, FALSE, "none")
<1>1. CameraTyped /\ CamGood(cam, op, re, failures) /\ cam \in Cams
      /\ cam.audioOnly \in BOOLEAN /\ cam.before \in BOOLEAN /\ cam.quality \in BOOLEAN /\ cam.requested \in BOOLEAN
      /\ on \in BOOLEAN
  BY DEF Good, CameraTyped, Cams
<1>2. /\ b \in Cams /\ SameDevice(cam, b) /\ b.sends = cam.sends /\ b.target = cam.target
      /\ b.quality = cam.quality /\ b.audioOnly = ~cam.audioOnly
      /\ cam.audioOnly => b.requested = (cam.before /\ cam.quality) /\ b.before = cam.before
      /\ ~cam.audioOnly => ~b.requested /\ b.before = cam.requested
  <2>1. CASE cam.audioOnly
    <3>1. (cam.before /\ cam.quality) \in BOOLEAN
      OBVIOUS
    <3>2. b = unwish
      BY <2>1
    <3> HIDE DEF b
    <3> QED BY <1>1, <2>1, <3>1, <3>2 DEF Cams, SameDevice
  <2>2. CASE ~cam.audioOnly
    <3>2. b = wish
      BY <2>2
    <3> HIDE DEF b
    <3> QED BY <1>1, <2>2, <3>2 DEF Cams, SameDevice
  <2> QED BY <1>1, <2>1, <2>2
<1>3. Act(Result(D, op)) /\ asked' = "none"
  <2>1. CASE cam.audioOnly
    <3>1. b = unwish /\ unwish.requested = on
      BY <1>1, <2>1 DEF Cams
    <3>2. Act(Result(SetVideoSending(unwish, unwish.requested, FALSE, "none"), op)) /\ asked' = "none"
      BY <2>1 DEF ToggleAudioOnly
    <3> QED BY <3>1, <3>2
  <2>2. CASE ~cam.audioOnly
    <3>1. b = wish /\ on = FALSE
      BY <2>2
    <3>2. Act(Result(SetVideoSending(wish, FALSE, FALSE, "none"), op)) /\ asked' = "none"
      BY <2>2 DEF ToggleAudioOnly
    <3> QED BY <3>1, <3>2
  <2> QED BY <2>1, <2>2
<1> HIDE DEF b, on
<1>4. /\ D \in Cams /\ SameDevice(cam, D) /\ SameWish(b, D)
      /\ SendsInv(D, op, re) /\ D.sends # <<>>
  BY <1>1, <1>2, SendAsked
<1>5. PICK d \in Cams : d = D
  BY <1>4
<1>6. /\ SameDevice(cam, d) /\ SameWish(b, d) /\ SendsInv(d, op, re) /\ d.sends # <<>>
      /\ Act(Result(d, op))
  BY <1>3, <1>4, <1>5
<1> HIDE DEF D
<1>7. /\ proc'["op"] = op /\ peer' = peer
      /\ ~crossed' => ~crossed
      /\ ~meddled' => ~meddled /\ (op.pc = "idle" \/ (~cam.audioOnly /\ ~d.audioOnly))
  <2>1. Result(d, op).cam = d /\ Result(d, op).r = op
    BY DEF Result
  <2>2. asked' \in {"none", "on", "off"}
    BY <1>3
  <2> QED BY <1>6, <2>1, <2>2, ActDoes
<1>8. TargetInv(d, proc["op"])'
  BY <1>1, <1>2, <1>3, <1>6, <1>7 DEF CamGood, TargetInv, SameWish
<1>9. Shown(d, op, re)
  BY <1>6 DEF Shown
<1>10. ~crossed' /\ ~meddled' => op.pc = "idle" /\ Wished(cam, op, re)
  BY <1>1, <1>2, <1>6, <1>7 DEF CamGood, SameWish
<1>11. ~crossed' /\ ~meddled' => Wished(d, op, re) /\ (Wants(d) => Wants(cam))
  BY <1>1, <1>2, <1>6, <1>10 DEF Wished, Wants, SameWish, Disabling, Placing
<1> QED BY <1>3, <1>6, <1>8, <1>9, <1>11, WishGood

LEMMA VideoActGood ==
  ASSUME Good, PauseVideo \/ RecoverVideo
  PROVE  Good'
<1> DEFINE op == proc["op"]
           re == proc["restore"]
<1>1. CameraTyped /\ CamGood(cam, op, re, failures) /\ cam \in Cams
  BY DEF Good, CameraTyped
<1>2. PICK on \in BOOLEAN, automatic \in BOOLEAN :
        Act(Result(SetVideoSending(cam, on, automatic, "none"), op)) /\ asked' = asked
  <2>1. CASE PauseVideo
    BY <2>1 DEF PauseVideo
  <2>2. CASE RecoverVideo
    BY <2>2 DEF RecoverVideo
  <2> QED BY <2>1, <2>2
<1> DEFINE D == SetVideoSending(cam, on, automatic, "none")
<1>3. SameDevice(cam, cam) /\ SameWish(cam, cam)
  BY DEF SameDevice, SameWish
<1>4. /\ D \in Cams /\ SameDevice(cam, D) /\ SameWish(cam, D)
      /\ SendsInv(D, op, re) /\ D.sends # <<>>
  BY <1>1, <1>3, SendAsked
<1>5. PICK d \in Cams : d = D
  BY <1>4
<1>6. /\ SameDevice(cam, d) /\ SameWish(cam, d) /\ SendsInv(d, op, re) /\ d.sends # <<>>
      /\ Act(Result(d, op)) /\ asked' = asked
  BY <1>2, <1>4, <1>5
<1> HIDE DEF D
<1>7. /\ proc'["op"] = op /\ peer' = peer
      /\ ~crossed' => ~crossed
      /\ ~meddled' => ~meddled
      /\ asked' \in {"none", "on", "off"}
  <2>1. Result(d, op).cam = d /\ Result(d, op).r = op
    BY DEF Result
  <2>2. asked' \in {"none", "on", "off"}
    BY <1>1, <1>6 DEF CameraTyped
  <2> QED BY <1>6, <2>1, <2>2, ActDoes
<1>8. TargetInv(d, proc["op"])'
  BY <1>1, <1>6, <1>7 DEF CamGood, TargetInv, SameWish
<1>9. Shown(d, op, re)
  BY <1>6 DEF Shown
<1>11. ~crossed' /\ ~meddled' => Wished(d, op, re) /\ (Wants(d) => Wants(cam))
  BY <1>1, <1>6, <1>7 DEF CamGood, Wished, Wants, SameWish
<1>12. ~crossed' /\ ~meddled' /\ failures = 0 /\ op.pc = "idle" =>
         asked' \in {"none", IF d.requested THEN "on" ELSE "off"}
  BY <1>1, <1>6, <1>7 DEF CamGood, Succeeds, SameWish
<1> QED BY <1>6, <1>7, <1>8, <1>9, <1>11, <1>12, WishGood

\* A request that finds the operation under way only leaves a target.
LEMMA BusyRequestGood ==
  ASSUME Good, proc["op"].pc # "idle", NEW d \in Cams, Act(Result(d, proc["op"])),
         SameDevice(cam, d), SameSends(cam, d), d.enabled = cam.enabled, d.said = cam.said,
         d.requested = cam.requested, d.audioOnly = cam.audioOnly, d.before = cam.before,
         NEW on \in BOOLEAN, d.target = (IF on THEN "on" ELSE "off"), asked' = d.target,
         on => d.quality /\ peer # 0
  PROVE  Good'
<1> DEFINE op == proc["op"]
           re == proc["restore"]
<1>1. CameraTyped /\ CamGood(cam, op, re, failures) /\ cam \in Cams
  BY DEF Good, CameraTyped
<1>2. /\ proc'["op"] = op /\ peer' = peer
      /\ ~crossed' => ~crossed
      /\ ~meddled' => ~meddled
      /\ asked' \in {"none", "on", "off"}
  <2>1. Result(d, op).cam = d /\ Result(d, op).r = op
    BY DEF Result
  <2>2. asked' \in {"none", "on", "off"}
    OBVIOUS
  <2> QED BY <2>1, <2>2, ActDoes
<1>3. TargetInv(d, proc["op"])'
  BY <1>2 DEF TargetInv
<1>4. SendsInv(d, op, re)
  BY <1>1 DEF CamGood, SendsInv, SameSends
<1>5. ~crossed' => Shown(d, op, re)
  BY <1>1, <1>2 DEF CamGood, Shown, SameSends, SameDevice
<1>6. ~crossed' /\ ~meddled' => Wished(d, op, re) /\ (Wants(d) => Wants(cam))
  BY <1>1, <1>2 DEF CamGood, Wished, Wants
<1> QED BY <1>2, <1>3, <1>4, <1>5, <1>6, WishGood

\* A request that finds the operation idle begins a turn of the loop.
LEMMA IdleRequestGood ==
  ASSUME Good, proc["op"].pc = "idle", NEW CONSTANT c \in Cams, Act(Iterate(c)),
         SameDevice(cam, c), SameSends(cam, c), c.enabled = cam.enabled, c.said = cam.said,
         c.requested = cam.requested, c.audioOnly = cam.audioOnly, c.before = cam.before,
         NEW on \in BOOLEAN, c.target = (IF on THEN "on" ELSE "off"), asked' = c.target,
         on => c.quality /\ peer # 0 /\ ~c.audioOnly
  PROVE  Good'
<1> PICK re : re = proc["restore"]
  OBVIOUS
<1> PICK f : f = failures
  OBVIOUS
<1> PICK d : d = Iterate(c).cam
  OBVIOUS
<1> PICK o : o = Iterate(c).r
  OBVIOUS
<1> DEFINE op == proc["op"]
<1>1. CameraTyped /\ CamGood(cam, op, re, f) /\ cam \in Cams
  BY DEF Good, CameraTyped
<1>2. /\ peer' = peer /\ stream' = stream /\ switch' = switch /\ conns' = conns
      /\ ~crossed' => ~crossed /\ switch = NoSwitch /\ re.pc = "idle"
      /\ ~meddled' => ~meddled /\ (Iterate(c).r.pc = "idle" \/ ~cam.audioOnly)
      /\ asked' \in {"none", "on", "off"}
      /\ Around(re)'
  <2>1. asked' \in {"none", "on", "off"}
    OBVIOUS
  <2>2. proc' = [proc EXCEPT !["op"] = Iterate(c).r] /\ DOMAIN proc = {"op", "restore"}
    BY <1>1 DEF Act, CameraTyped
  <2>3. proc'["restore"] = re
    BY <2>2
  <2>4. Around(proc["restore"])'
    BY <2>1, ActDoes
  <2>5. Around(re)'
    BY <2>3, <2>4 DEF Around
  <2> QED BY <2>1, <2>5, ActDoes
<1>3. Iterate(c)' = Iterate(c)
  BY <1>2, SameTurn
<1>4. Turn.pc = "turn" /\ NoSwitch.pc = "idle"
  BY DEF Turn, Idle, NoSwitch
<1>5. ~on => Iterate(c).r.pc = "detaching"
  BY DEF Iterate, Disable, Result, Idle
<1>6. ~meddled' => ~meddled /\ ~c.audioOnly
  BY <1>2, <1>5
<1>7. SendsInv(c, Turn, re)'
  BY <1>1, <1>4 DEF CamGood, SendsInv, SameSends
<1>8. TargetInv(c, Turn)'
  BY <1>2, <1>4 DEF TargetInv
<1>9. ~crossed' => OneTask(c, Turn, re)' /\ RestoreWished(c, re)'
  BY <1>2, <1>4 DEF OneTask, RestoreWished, Enabling, Disabling, Placing
<1>10. ~crossed' => Device(c, Turn, re)'
  <2> SUFFICES ASSUME ~crossed' PROVE Device(c, Turn, re)'
    OBVIOUS
  <2>1. Device(cam, op, re) /\ op.pc = "idle" /\ switch' = NoSwitch /\ re.pc = "idle"
    BY <1>1, <1>2 DEF CamGood
  <2> QED BY <1>2, <1>4, <2>1 DEF Device, SameDevice, Nothing, PlacedBy, Placing, Disabling, Tracks
<1>11. ~crossed' => Shown(c, Turn, re)'
  BY <1>1, <1>2, <1>4 DEF CamGood, Shown, SameSends, SameDevice, Enabling, Placing, Disabling
<1>12. ~crossed' /\ ~meddled' => Wished(c, Turn, re)'
  BY <1>4, <1>6 DEF Wished, Disabling, Placing
<1>13. ~crossed' /\ ~meddled' /\ f = 0 => Succeeds(c, Turn, re)'
  BY <1>1, <1>2, <1>4, <1>6 DEF CamGood, Succeeds, Wants, Published, SameDevice, Enabling, Placing
<1>14. CamGood(c, Turn, re, f)'
  BY <1>7, <1>8, <1>9, <1>10, <1>11, <1>12, <1>13 DEF CamGood
<1>15. d \in Cams /\ OpTyped(o)' /\ CamGood(d, o, re, f)'
  BY <1>2, <1>3, <1>14, NextTurnGood
<1> QED BY <1>2, <1>15, ActGood

\* A click that asks for what there is.
LEMMA VainRequestGood ==
  ASSUME Good, proc["op"].pc = "idle", Act(Result(cam, Idle)),
         asked' = (IF cam.requested THEN "on" ELSE "off")
  PROVE  Good'
<1> PICK re : re = proc["restore"]
  OBVIOUS
<1> PICK f : f = failures
  OBVIOUS
<1> PICK d : d = cam
  OBVIOUS
<1> PICK o : o = Idle
  OBVIOUS
<1> DEFINE op == proc["op"]
<1>0. Result(cam, Idle).cam = cam /\ Result(cam, Idle).r = Idle /\ Idle.pc = "idle"
  BY DEF Result, Idle
<1>1. CameraTyped /\ CamGood(d, op, re, f) /\ d \in Cams
  BY DEF Good, CameraTyped
<1>2. /\ peer' = peer /\ stream' = stream /\ switch' = switch /\ conns' = conns
      /\ ~crossed' => ~crossed
      /\ ~meddled' => ~meddled
      /\ asked' \in {"none", "on", "off"}
  <2>1. asked' \in {"none", "on", "off"}
    OBVIOUS
  <2> QED BY <2>1, ActDoes
<1>3. OpTyped(o)'
  BY <1>1, <1>2 DEF CameraTyped, OpTyped, ProcTyped, Idle, Procs, OpPcs, Placing, Enabling, Handles, Places
<1>4. SendsInv(d, o, re)' /\ TargetInv(d, o)'
  BY <1>0, <1>1 DEF CamGood, SendsInv, TargetInv
<1>5. ~crossed' => OneTask(d, o, re)' /\ RestoreWished(d, re)' /\ Shown(d, o, re)'
  BY <1>0, <1>1, <1>2 DEF CamGood, OneTask, RestoreWished, Shown, Enabling, Placing, Disabling, Wants
<1>6. ~crossed' => Device(d, o, re)'
  BY <1>0, <1>1, <1>2 DEF CamGood, Device, Nothing, PlacedBy, Placing, Disabling, Tracks
<1>7. ~crossed' /\ ~meddled' => Wished(d, o, re)'
  BY <1>0, <1>1, <1>2 DEF CamGood, Wished, Disabling, Placing
<1>8. ~crossed' /\ ~meddled' /\ f = 0 => Succeeds(d, o, re)'
  BY <1>0, <1>1, <1>2 DEF CamGood, Succeeds, Wants, Published, Enabling, Placing
<1>9. CamGood(d, o, re, f)'
  BY <1>4, <1>5, <1>6, <1>7, <1>8 DEF CamGood
<1> QED BY <1>0, <1>1, <1>2, <1>3, <1>9, ActGood
\* The camera button, and the camera quality.
LEMMA ClickCameraGood ==
  ASSUME Good, ClickCamera
  PROVE  Good'
<1> PICK on : on = (IF cam.target = "none" THEN ~CameraOn(cam) ELSE cam.target = "off")
  OBVIOUS
<1> PICK d : d = [cam EXCEPT !.target = IF on THEN "on" ELSE "off"]
  OBVIOUS
<1> DEFINE op == proc["op"]
           force == on /\ cam.automatic
<1>1. CameraTyped /\ cam \in Cams /\ cam.requested \in BOOLEAN
  BY DEF Good, CameraTyped, Cams
<1>2. on \in BOOLEAN
  BY DEF CameraOn
<1>3. Act(RequestCameraState(cam, on, force)) /\ asked' = (IF on THEN "on" ELSE "off")
  BY DEF ClickCamera
<1>10. stream # 0 /\ (on => ~cam.audioOnly /\ cam.quality) /\ asked' = (IF on THEN "on" ELSE "off")
  BY DEF ClickCamera
<1>4. peer # 0
  <2>1. stream = (IF peer = 0 \/ At("restore", "setup") THEN 0 ELSE peer)
    BY <1>1 DEF CameraTyped
  <2> QED BY <1>10, <2>1
<1>5. /\ d \in Cams /\ SameDevice(cam, d) /\ SameSends(cam, d) /\ d.enabled = cam.enabled /\ d.said = cam.said
      /\ d.requested = cam.requested /\ d.audioOnly = cam.audioOnly /\ d.before = cam.before
      /\ d.quality = cam.quality /\ d.target = (IF on THEN "on" ELSE "off")
  <2>1. (IF on THEN "on" ELSE "off") \in {"none", "on", "off"}
    BY <1>2
  <2> QED BY <1>1, <2>1 DEF Cams, SameDevice, SameSends
<1>6. asked' = d.target /\ (on => d.quality /\ peer # 0 /\ ~d.audioOnly)
  <2>1. (on => ~cam.audioOnly /\ cam.quality) /\ asked' = (IF on THEN "on" ELSE "off")
    BY <1>10
  <2>2. d.audioOnly = cam.audioOnly /\ d.quality = cam.quality /\ d.target = (IF on THEN "on" ELSE "off")
    BY <1>5
  <2> QED BY <1>4, <2>1, <2>2
<1> HIDE DEF op, force
<1>7. CASE op.pc # "idle"
  <2>1. Act(Result(d, op))
    BY <1>3, <1>7 DEF RequestCameraState, op
  <2> QED BY <1>2, <1>5, <1>6, <1>7, <2>1, BusyRequestGood DEF op
<1>8. CASE op.pc = "idle" /\ (force \/ cam.requested # on)
  <2>1. Act(Iterate(d))
    BY <1>3, <1>8 DEF RequestCameraState, op
  <2> QED BY <1>2, <1>5, <1>6, <1>8, <2>1, IdleRequestGood DEF op
<1>9. CASE op.pc = "idle" /\ ~(force \/ cam.requested # on)
  <2>1. Act(Result(cam, Idle))
    BY <1>3, <1>9 DEF RequestCameraState, op
  <2>2. asked' = (IF cam.requested THEN "on" ELSE "off")
    BY <1>3, <1>9
  <2> QED BY <1>9, <2>1, <2>2, VainRequestGood DEF op
<1> QED BY <1>7, <1>8, <1>9

LEMMA SelectQualityGood ==
  ASSUME Good, SelectQuality
  PROVE  Good'
<1> DEFINE op == proc["op"]
           re == proc["restore"]
<1>1. /\ CameraTyped /\ CamGood(cam, op, re, failures) /\ cam \in Cams /\ cam.requested \in BOOLEAN
      /\ asked \in {"none", "on", "off"}
  BY DEF Good, CameraTyped, Cams
<1>2. CASE /\ Act(RequestCameraState([cam EXCEPT !.quality = FALSE], FALSE, TRUE)) /\ asked' = "off"
  <2> PICK c : c = [cam EXCEPT !.quality = FALSE]
    OBVIOUS
  <2> PICK d : d = [c EXCEPT !.target = "off"]
    OBVIOUS
  <2>1. /\ d \in Cams /\ SameDevice(cam, d) /\ SameSends(cam, d) /\ d.enabled = cam.enabled /\ d.said = cam.said
        /\ d.requested = cam.requested /\ d.audioOnly = cam.audioOnly /\ d.before = cam.before
        /\ d.target = "off"
    BY <1>1 DEF Cams, SameDevice, SameSends
  <2>2. d.target = (IF FALSE THEN "on" ELSE "off") /\ asked' = d.target /\ FALSE \in BOOLEAN
    BY <1>2, <2>1
  <2> HIDE DEF op
  <2>3. CASE op.pc # "idle"
    <3>1. Act(Result(d, op))
      BY <1>2, <2>3 DEF RequestCameraState, op
    <3> QED BY <2>1, <2>2, <2>3, <3>1, BusyRequestGood DEF op
  <2>4. CASE op.pc = "idle"
    <3>1. Act(Iterate(d))
      BY <1>2, <2>4 DEF RequestCameraState, op
    <3> QED BY <2>1, <2>2, <2>4, <3>1, IdleRequestGood DEF op
  <2> QED BY <2>3, <2>4
<1>3. CASE /\ Act(Result(IF [cam EXCEPT !.quality = TRUE].requested
                            THEN SetVideoSending([cam EXCEPT !.quality = TRUE], TRUE, FALSE, "none")
                            ELSE [cam EXCEPT !.quality = TRUE], op))
           /\ asked' = asked
  <2> DEFINE b == [cam EXCEPT !.quality = TRUE]
             D == SetVideoSending(b, TRUE, FALSE, "none")
  <2>1. /\ b \in Cams /\ SameDevice(cam, b) /\ SameSends(cam, b) /\ b.sends = cam.sends /\ b.enabled = cam.enabled
        /\ b.said = cam.said /\ b.requested = cam.requested /\ b.audioOnly = cam.audioOnly /\ b.before = cam.before
        /\ b.target = cam.target /\ b.quality = TRUE
    BY <1>1 DEF Cams, SameDevice, SameSends
  <2> HIDE DEF b
  <2>2. /\ D \in Cams /\ SameDevice(cam, D) /\ SameWish(b, D) /\ SendsInv(D, op, re) /\ D.sends # <<>>
    BY <2>1, SendAsked
  <2>3. SendsInv(b, op, re) /\ SameWish(b, b) /\ (~crossed => Shown(b, op, re))
    BY <1>1, <2>1 DEF CamGood, SendsInv, Shown, SameWish, SameSends, SameDevice
  <2>4. Shown(D, op, re)
    BY <2>2 DEF Shown
  <2> HIDE DEF D
  <2>5. PICK d \in Cams : /\ Act(Result(d, op)) /\ SameDevice(cam, d) /\ SameWish(b, d) /\ SendsInv(d, op, re)
                          /\ ~crossed => Shown(d, op, re)
    <3>1. CASE cam.requested
      BY <1>3, <2>1, <2>2, <2>4, <3>1 DEF b, D
    <3>2. CASE ~cam.requested
      <4>1. Act(Result(b, op))
        BY <1>3, <2>1, <3>2 DEF b
      <4> QED BY <2>1, <2>3, <4>1
    <3> QED BY <3>1, <3>2
  <2>6. /\ proc'["op"] = op /\ peer' = peer
        /\ ~crossed' => ~crossed
        /\ ~meddled' => ~meddled
        /\ asked' \in {"none", "on", "off"}
    <3>1. Result(d, op).cam = d /\ Result(d, op).r = op
      BY DEF Result
    <3>2. asked' \in {"none", "on", "off"}
      BY <1>1, <1>3
    <3> QED BY <2>5, <3>1, <3>2, ActDoes
  <2>7. TargetInv(d, proc["op"])'
    BY <1>1, <1>3, <2>1, <2>5, <2>6 DEF CamGood, TargetInv, SameWish
  <2>8. ~crossed' /\ ~meddled' => Wished(d, op, re) /\ (Wants(d) => Wants(cam))
    BY <1>1, <2>1, <2>5, <2>6 DEF CamGood, Wished, Wants, SameWish
  <2>9. ~crossed' /\ ~meddled' /\ failures = 0 /\ op.pc = "idle" =>
          asked' \in {"none", IF d.requested THEN "on" ELSE "off"}
    BY <1>1, <1>3, <2>1, <2>5, <2>6 DEF CamGood, Succeeds, SameWish
  <2> QED BY <2>5, <2>6, <2>7, <2>8, <2>9, WishGood
<1> QED BY <1>2, <1>3 DEF SelectQuality

(***************************************************************************)
(* There is always a sender to add.                                        *)
(***************************************************************************)
Fields == {"live", "enabled", "handle", "tracks", "attached", "active", "sender", "negotiated",
           "requested", "target", "suspended", "automatic", "sends", "audioOnly", "before",
           "quality", "said"}
Slots == {"pc", "peer", "cap", "sender", "try", "want", "was"}

\* No sender is attached, chosen or asked for, but the one that is chosen.
Spare(c, d) == /\ DOMAIN d = Fields /\ d.sender = c.sender
               /\ \A s \in Senders : d.attached[s] # 0 => c.attached[s] # 0
Frugal(c, x) == /\ Spare(c, x.cam) /\ x.r.pc # "attaching"
                /\ x.r.pc = "constraining" => x.r.sender = c.sender

\* The fields of the camera and of a task.
LEMMA ShapeOf ==
  ASSUME Good
  PROVE  DOMAIN cam = Fields /\ \A p \in {"op", "restore"} : DOMAIN proc[p] = Slots
<1>1. cam \in Cams /\ proc["op"] \in Procs /\ proc["restore"] \in Procs
  BY DEF Good, CameraTyped, OpTyped, RestoreTyped, ProcTyped
<1>2. DOMAIN cam = Fields
  BY <1>1 DEF Cams, Fields
<1>3. DOMAIN proc["op"] = Slots /\ DOMAIN proc["restore"] = Slots
  BY <1>1 DEF Procs, Slots
<1> QED BY <1>2, <1>3

\* Every function of the model is spare with senders.
LEMMA SpareSelf ==
  ASSUME NEW c, DOMAIN c = Fields
  PROVE  Spare(c, c)
BY DEF Spare

LEMMA SpareChain ==
  ASSUME NEW c, NEW d, NEW e, Spare(c, d), Spare(d, e)
  PROVE  Spare(c, e)
BY DEF Spare

LEMMA FrugalAfter ==
  ASSUME NEW c, NEW d, NEW x, Spare(c, d), Frugal(d, x)
  PROVE  Frugal(c, x)
BY DEF Spare, Frugal

LEMMA AnnounceSpare ==
  ASSUME NEW c, DOMAIN c = Fields
  PROVE  Spare(c, Announce(c))
BY DEF Spare, Announce, Fields

LEMMA EnableSpare ==
  ASSUME NEW c, DOMAIN c = Fields, NEW track, NEW on
  PROVE  Spare(c, Enable(c, track, on))
BY DEF Spare, Enable, Fields

LEMMA ActivateSpare ==
  ASSUME NEW c, DOMAIN c = Fields, NEW on
  PROVE  Spare(c, Activate(c, on))
BY DEF Spare, Activate, Fields

LEMMA SendingSpare ==
  ASSUME NEW c, DOMAIN c = Fields, NEW on, NEW automatic, NEW who
  PROVE  Spare(c, SetVideoSending(c, on, automatic, who))
<1> DEFINE d == Activate(c, (on /\ ~c.audioOnly) /\ c.requested)
<1>1. Spare(c, d)
  BY ActivateSpare
<1>2. DOMAIN d = Fields
  BY <1>1 DEF Spare
<1> HIDE DEF d
<1>3. \A x, y, z : Spare(d, [d EXCEPT !.suspended = x, !.automatic = y, !.sends = z])
  BY <1>2 DEF Spare, Fields
<1>4. Spare(d, SetVideoSending(c, on, automatic, who))
  BY <1>3 DEF SetVideoSending, d
<1> QED BY <1>1, <1>4, SpareChain

LEMMA DisableFrugal ==
  ASSUME NEW c, DOMAIN c = Fields, NEW r, DOMAIN r = Slots, NEW pc \in Disabling
  PROVE  Frugal(c, Disable(c, r, pc))
BY DEF Frugal, Spare, Disable, Result, Fields, Slots, Disabling

LEMMA PrepareFrugal ==
  ASSUME NEW c, DOMAIN c = Fields, NEW r, DOMAIN r = Slots
  PROVE  Frugal(c, Prepare(c, r))
<1> DEFINE d == Enable(c, r.cap, TrackEnabled(c))
           q == [r EXCEPT !.pc = "constraining", !.sender = c.sender]
<1>1. Spare(c, d)
  BY EnableSpare
<1>2. DOMAIN d = Fields
  BY <1>1 DEF Spare
<1>3. q.sender = c.sender /\ q.pc = "constraining"
  BY DEF Slots
<1> HIDE DEF d, q
<1>4. \A h, t, w, n :
        Spare(d, [d EXCEPT !.handle = h, !.tracks = t, !.requested = w, !.negotiated = n])
  BY <1>2 DEF Spare, Fields
<1>5. Spare(d, Prepare(c, r).cam) /\ Prepare(c, r).r = q
  BY <1>4 DEF Prepare, Result, d, q
<1>6. Spare(c, Prepare(c, r).cam)
  BY <1>1, <1>5, SpareChain
<1> QED BY <1>3, <1>5, <1>6 DEF Frugal

LEMMA EnableOnceFrugal ==
  ASSUME NEW c, DOMAIN c = Fields, NEW r, DOMAIN r = Slots
  PROVE  Frugal(c, EnableOnce(c, r))
<1>1. CASE c.handle # 0 /\ c.handle \in c.live
  <2>1. DOMAIN [r EXCEPT !.peer = peer, !.cap = c.handle] = Slots
    BY DEF Slots
  <2>2. Frugal(c, Prepare(c, [r EXCEPT !.peer = peer, !.cap = c.handle]))
    BY <2>1, PrepareFrugal
  <2> QED BY <1>1, <2>2 DEF EnableOnce
<1>2. CASE ~(c.handle # 0 /\ c.handle \in c.live)
  <2>1. EnableOnce(c, r) = Result([c EXCEPT !.handle = 0], [r EXCEPT !.pc = "capturing", !.peer = peer])
    BY <1>2 DEF EnableOnce
  <2>2. Spare(c, [c EXCEPT !.handle = 0]) /\ [r EXCEPT !.pc = "capturing", !.peer = peer].pc = "capturing"
    BY DEF Spare, Fields, Slots
  <2> DEFINE d == [c EXCEPT !.handle = 0]
             q == [r EXCEPT !.pc = "capturing", !.peer = peer]
  <2>3. q.pc = "capturing" /\ Spare(c, d)
    BY <2>2
  <2> HIDE DEF d, q
  <2>4. EnableOnce(c, r).cam = d /\ EnableOnce(c, r).r = q
    BY <2>1 DEF Result, d, q
  <2> QED BY <2>3, <2>4 DEF Frugal
<1> QED BY <1>1, <1>2

LEMMA ResumeFrugal ==
  ASSUME NEW c, DOMAIN c = Fields, NEW r
  PROVE  Frugal(c, Resume(c, r))
<1>1. Spare(c, SetVideoSending(c, TRUE, FALSE, "op"))
  BY SendingSpare
<1>2. Resume(c, r).cam = SetVideoSending(c, TRUE, FALSE, "op") /\ Resume(c, r).r.pc = "resuming"
  BY DEF Resume, Result, Idle
<1> QED BY <1>1, <1>2 DEF Frugal

LEMMA FinishFrugal ==
  ASSUME NEW c, DOMAIN c = Fields
  PROVE  Frugal(c, Finish(c))
BY DEF Frugal, Spare, Finish, Result, Idle, Fields

LEMMA IterateFrugal ==
  ASSUME NEW c, DOMAIN c = Fields
  PROVE  Frugal(c, Iterate(c))
<1> DEFINE r == [Idle EXCEPT !.want = c.target = "on", !.was = c.requested]
<1>1. DOMAIN r = Slots
  BY DEF Idle, Slots
<1> HIDE DEF r
<1>2. "detaching" \in Disabling
  BY DEF Disabling
<1>3. Frugal(c, Disable(c, r, "detaching")) /\ Frugal(c, EnableOnce(c, r))
      /\ Frugal(c, Resume(c, r)) /\ Frugal(c, Finish(c))
  BY <1>1, <1>2, DisableFrugal, EnableOnceFrugal, ResumeFrugal, FinishFrugal
<1>4. Iterate(c) \in {Disable(c, r, "detaching"), EnableOnce(c, r), Resume(c, r), Finish(c)}
  BY DEF Iterate, r
<1> QED BY <1>3, <1>4

LEMMA LoopAgainFrugal ==
  ASSUME NEW c, DOMAIN c = Fields, NEW r
  PROVE  Frugal(c, LoopAgain(c, r))
BY FinishFrugal, IterateFrugal DEF LoopAgain

LEMMA RetryFrugal ==
  ASSUME NEW c, DOMAIN c = Fields, NEW r
  PROVE  Frugal(c, RetryOrGiveUp(c, r))
<1>1. CASE r.try < 2
  <2>1. RetryOrGiveUp(c, r).cam = c /\ RetryOrGiveUp(c, r).r.pc = "waiting"
    BY <1>1 DEF RetryOrGiveUp, Result, Idle
  <2> QED BY <2>1, SpareSelf DEF Frugal
<1>2. CASE ~(r.try < 2)
  <2>1. Spare(c, [c EXCEPT !.requested = FALSE])
    BY DEF Spare, Fields
  <2>2. Frugal([c EXCEPT !.requested = FALSE], Finish([c EXCEPT !.requested = FALSE]))
    BY <2>1, FinishFrugal DEF Spare
  <2>3. RetryOrGiveUp(c, r) = Finish([c EXCEPT !.requested = FALSE])
    BY <1>2 DEF RetryOrGiveUp
  <2> QED BY <2>1, <2>2, <2>3, FrugalAfter
<1> QED BY <1>1, <1>2

LEMMA FailedFrugal ==
  ASSUME NEW p, NEW c, DOMAIN c = Fields, NEW r, DOMAIN r = Slots
  PROVE  Frugal(c, Failed(p, c, r))
<1>1. CASE p = "restore"
  <2> DEFINE d == IF c.audioOnly THEN [c EXCEPT !.before = FALSE] ELSE [c EXCEPT !.requested = FALSE]
  <2>1. Spare(c, d)
    BY DEF Spare, Fields
  <2>2. DOMAIN d = Fields
    BY <2>1 DEF Spare
  <2> HIDE DEF d
  <2>3. Spare(c, Announce(d))
    BY <2>1, <2>2, AnnounceSpare, SpareChain
  <2>4. Failed(p, c, r).cam = Announce(d) /\ Failed(p, c, r).r.pc = "offering"
    BY <1>1 DEF Failed, Result, Idle, d
  <2> QED BY <2>3, <2>4 DEF Frugal
<1>2. CASE p # "restore"
  <2>1. "undoing" \in Disabling
    BY DEF Disabling
  <2>2. Frugal(c, Disable(c, r, "undoing")) /\ Frugal(c, RetryOrGiveUp(c, r))
    BY <2>1, DisableFrugal, RetryFrugal
  <2> QED BY <1>2, <2>2 DEF Failed
<1> QED BY <1>1, <1>2

LEMMA EnabledFrugal ==
  ASSUME NEW p, NEW c, DOMAIN c = Fields, NEW r
  PROVE  Frugal(c, Enabled(p, c, r))
<1>1. Frugal(c, Resume(c, r)) /\ Frugal(c, LoopAgain(c, r))
  BY ResumeFrugal, LoopAgainFrugal
<1>2. Frugal(c, Result(c, [Idle EXCEPT !.pc = "offering", !.peer = r.peer]))
  BY SpareSelf DEF Frugal, Result, Idle
<1> QED BY <1>1, <1>2 DEF Enabled

\* What is counted is counted once.
LEMMA SupplyCounts ==
  /\ One(Taken(2)) \in {0, 1} /\ One(Taken(3)) \in {0, 1} /\ One(Taken(4)) \in {0, 1}
  /\ Pending("op") \in {0, 1} /\ Pending("restore") \in {0, 1}
BY DEF One, Pending

LEMMA TakenLess ==
  ASSUME \A s \in {2, 3, 4} : Taken(s)' => Taken(s)
  PROVE  TakenAll' <= TakenAll /\ TakenAll' \in Nat /\ TakenAll \in Nat
<1>1. (Taken(2)' => Taken(2)) /\ (Taken(3)' => Taken(3)) /\ (Taken(4)' => Taken(4))
  OBVIOUS
<1>2. /\ One(Taken(2))' <= One(Taken(2)) /\ One(Taken(3))' <= One(Taken(3))
      /\ One(Taken(4))' <= One(Taken(4))
      /\ One(Taken(2))' \in {0, 1} /\ One(Taken(3))' \in {0, 1} /\ One(Taken(4))' \in {0, 1}
  BY <1>1 DEF One
<1> QED BY <1>2, SupplyCounts DEF TakenAll

\* A step that takes no sender, and lets nobody ask for a sender.
LEMMA SupplyKept ==
  ASSUME Supply, stream' = stream, \A s \in {2, 3, 4} : Taken(s)' => Taken(s),
         Pending("op")' <= Pending("op"), Pending("restore")' <= Pending("restore"),
         Pending("op")' \in {0, 1}, Pending("restore")' \in {0, 1},
         cam'.sender = 0 => cam.sender = 0
  PROVE  Supply'
<1>1. TakenAll' <= TakenAll /\ TakenAll' \in Nat /\ TakenAll \in Nat
  BY TakenLess
<1> QED BY <1>1, SupplyCounts DEF Supply

\* A step that lets one of the two ask for a sender, if none is chosen.
LEMMA SupplyAsked ==
  ASSUME Good, Supply, NEW p \in {"op", "restore"}, NEW x, Frugal(cam, x),
         proc' = [proc EXCEPT ![p] = x.r], cam' = x.cam,
         peer' = peer, stream' = stream, switch' = switch
  PROVE  Supply'
<1>1. DOMAIN proc = {"op", "restore"} /\ stream = (IF peer = 0 \/ At("restore", "setup") THEN 0 ELSE peer)
  BY DEF Good, CameraTyped
<1>2. proc'[p] = x.r /\ (p = "op" => proc'["restore"] = proc["restore"]) /\ (p = "restore" => proc'["op"] = proc["op"])
  BY <1>1
<1>3. /\ cam'.sender = cam.sender /\ \A s \in Senders : cam'.attached[s] # 0 => cam.attached[s] # 0
      /\ x.r.pc # "attaching" /\ (x.r.pc = "constraining" => x.r.sender = cam.sender)
  BY DEF Frugal, Spare
<1>4. ASSUME NEW s \in {2, 3, 4} PROVE Taken(s)' => Taken(s)
  <2>1. s \in Senders /\ s # 0
    BY DEF Senders
  <2>2. \A q \in {"op", "restore"} : q # p => proc'[q] = proc[q]
    BY <1>2
  <2> QED BY <1>2, <1>3, <2>1, <2>2 DEF Taken, Stale
<1>5. TakenAll' <= TakenAll /\ TakenAll' \in Nat /\ TakenAll \in Nat
  BY <1>4, TakenLess
<1>6. /\ Pending("op")' \in {0, 1} /\ Pending("restore")' \in {0, 1}
      /\ p = "op" => Pending("restore")' = Pending("restore")
      /\ p = "restore" => Pending("op")' = Pending("op")
      /\ cam.sender # 0 => /\ p = "op" => Pending("op")' = 0
                           /\ p = "restore" => Pending("restore")' = 0
  BY <1>2, <1>3 DEF Pending, One, At, Stale
<1> QED BY <1>3, <1>5, <1>6, SupplyCounts DEF Supply

\* The steps keep the supply.
LEMMA StepSupply ==
  ASSUME Good, Supply, NEW p \in {"op", "restore"}, NEW x, Step(p, x), Frugal(cam, x)
  PROVE  Supply'
BY SupplyAsked DEF Step

LEMMA SpareSupply ==
  ASSUME Good, Supply, Spare(cam, cam'), proc'["op"] = proc["op"], proc'["restore"] = proc["restore"],
         peer' = peer, stream' = stream, switch' = switch
  PROVE  Supply'
<1>1. ASSUME NEW s \in {2, 3, 4} PROVE Taken(s)' => Taken(s)
  <2>1. s \in Senders /\ s # 0
    BY DEF Senders
  <2>2. \A q \in {"op", "restore"} : proc'[q] = proc[q]
    OBVIOUS
  <2> QED BY <2>1, <2>2 DEF Taken, Stale, Spare
<1>2. Pending("op")' = Pending("op") /\ Pending("restore")' = Pending("restore")
  BY DEF Pending, At, Stale
<1> QED BY <1>1, <1>2, SupplyKept, SupplyCounts DEF Spare

LEMMA CapturedSupply ==
  ASSUME Good, Supply, NEW p \in {"op", "restore"}, CameraCaptured(p)
  PROVE  Supply'
<1> DEFINE r == [proc[p] EXCEPT !.cap = FreshCapture]
           c == [cam EXCEPT !.live = @ \union {r.cap}]
<1>1. DOMAIN cam = Fields /\ DOMAIN proc[p] = Slots
  BY ShapeOf
<1>2. Frugal(cam, Failed(p, cam, proc[p]))
  BY <1>1, FailedFrugal
<1>3. DOMAIN r = Slots
  BY <1>1
<1> HIDE DEF r
<1>4. Spare(cam, c) /\ DOMAIN c = Fields
  BY <1>1 DEF Spare, Fields
<1> HIDE DEF c
<1>5. Frugal(cam, Prepare(c, r))
  BY <1>3, <1>4, PrepareFrugal, FrugalAfter
<1>6. Step(p, IF Stale(p) THEN Failed(p, cam, proc[p]) ELSE Prepare(c, r))
  BY DEF CameraCaptured, c, r
<1>7. CASE Stale(p)
  BY <1>2, <1>6, <1>7, StepSupply
<1>8. CASE ~Stale(p)
  BY <1>5, <1>6, <1>8, StepSupply
<1> QED BY <1>7, <1>8

LEMMA FailingSupply ==
  ASSUME Good, Supply, NEW p \in {"op", "restore"}, Step(p, Failed(p, cam, proc[p]))
  PROVE  Supply'
BY ShapeOf, FailedFrugal, StepSupply

LEMMA ConstrainedSupply ==
  ASSUME Good, Supply, NEW p \in {"op", "restore"}, Constrained(p)
  PROVE  Supply'
<1> DEFINE r == proc[p]
           added == Min({s \in Senders \ {1} : cam.attached[s] = 0})
           bound == [cam EXCEPT !.sender = added, !.negotiated = FALSE,
                                !.attached[added] = r.cap]
<1>1. DOMAIN cam = Fields /\ DOMAIN r = Slots /\ cam.attached \in [Senders -> Handles] /\ r.pc = "constraining"
      /\ DOMAIN proc = {"op", "restore"} /\ r.cap # 0
      /\ stream = (IF peer = 0 \/ At("restore", "setup") THEN 0 ELSE peer)
  BY ShapeOf DEF Good, CameraTyped, Cams, Constrained, At, OpTyped, RestoreTyped, ProcTyped, Placing
<1>2. CASE Stale(p)
  <2> DEFINE c == [cam EXCEPT !.live = @ \ {r.cap}]
  <2>1. Spare(cam, c) /\ DOMAIN c = Fields
    BY <1>1 DEF Spare, Fields
  <2>2. Step(p, Failed(p, c, r))
    BY <1>2 DEF Constrained
  <2> HIDE DEF c
  <2>3. Frugal(cam, Failed(p, c, r))
    BY <1>1, <2>1, FailedFrugal, FrugalAfter
  <2> QED BY <2>2, <2>3, StepSupply
<1>3. ASSUME ~Stale(p), NEW d, NEW q, Step(p, Result(d, q)), q.pc # "constraining", d.sender # 0 \/ d.sender = cam.sender,
             \A s \in {2, 3, 4} : \/ d.attached[s] # 0 \/ d.sender = s \/ (q.pc = "attaching" /\ q.sender = s)
                                => Taken(s)
      PROVE  Supply'
  <2>1. /\ proc'[p] = q /\ cam' = d /\ peer' = peer /\ stream' = stream /\ switch' = switch
        /\ \A o \in {"op", "restore"} \ {p} : proc'[o] = proc[o]
    BY <1>1, <1>3 DEF Step, Result
  <2>2. ASSUME NEW s \in {2, 3, 4} PROVE Taken(s)' => Taken(s)
    BY <1>3, <2>1 DEF Taken, Stale
  <2>3. /\ Pending("op")' <= Pending("op") /\ Pending("restore")' <= Pending("restore")
        /\ Pending("op")' \in {0, 1} /\ Pending("restore")' \in {0, 1}
    BY <1>3, <2>1 DEF Pending, One, At, Stale
  <2> QED BY <1>3, <2>1, <2>2, <2>3, SupplyKept
<1>4. CASE ~Stale(p) /\ r.sender # 0
  <2> DEFINE q == [r EXCEPT !.pc = "attaching"]
  <2>1. Step(p, Result(cam, q))
    BY <1>4 DEF Constrained
  <2>2. q.pc = "attaching" /\ q.sender = r.sender
    BY <1>1 DEF Slots
  <2> HIDE DEF q
  <2>3. ASSUME NEW s \in {2, 3, 4}, cam.attached[s] # 0 \/ cam.sender = s \/ q.sender = s
        PROVE  Taken(s)
    BY <1>1, <1>4, <2>2, <2>3 DEF Taken
  <2> QED BY <1>3, <1>4, <2>1, <2>2, <2>3
<1>5. CASE ~Stale(p) /\ r.sender = 0 /\ ~Simulcast /\ cam.attached[1] = 0
  <2> DEFINE q == [r EXCEPT !.pc = "attaching", !.sender = 1]
             d == [cam EXCEPT !.sender = 1, !.negotiated = FALSE]
  <2>1. Step(p, Result(d, q))
    BY <1>5 DEF Constrained
  <2>2. q.pc = "attaching" /\ q.sender = 1 /\ d.sender = 1 /\ d.attached = cam.attached
    BY <1>1 DEF Slots, Fields
  <2> HIDE DEF q, d
  <2>3. ASSUME NEW s \in {2, 3, 4}, d.attached[s] # 0 \/ d.sender = s \/ q.sender = s
        PROVE  Taken(s)
    BY <2>2, <2>3 DEF Taken
  <2> QED BY <1>3, <1>5, <2>1, <2>2, <2>3
<1>6. CASE ~Stale(p) /\ r.sender = 0 /\ ~(~Simulcast /\ cam.attached[1] = 0)
  <2> DEFINE on == r.cap \in cam.enabled /\ cam.requested
             d == Activate(bound, on)
             q == [r EXCEPT !.pc = "activating", !.sender = added]
  <2>1. Step(p, Result(d, q))
    BY <1>6 DEF Constrained
  <2>2. added \in Senders \ {1}
    BY <1>1, <1>6, RoomForASender DEF At
  <2> HIDE DEF added
  <2>3. DOMAIN bound = Fields /\ bound.sender = added /\ bound.attached = [cam.attached EXCEPT ![added] = r.cap]
    BY <1>1 DEF Fields
  <2> HIDE DEF bound, on
  <2>4. Spare(bound, d)
    BY <2>3, ActivateSpare
  <2>5. q.pc = "activating" /\ q.sender = added
    BY <1>1 DEF Slots
  <2> HIDE DEF d, q
  <2>6. d.sender = added /\ \A s \in Senders : d.attached[s] # 0 => s = added \/ cam.attached[s] # 0
    BY <1>1, <2>2, <2>3, <2>4 DEF Spare
  <2>7. /\ proc'[p] = q /\ cam' = d /\ peer' = peer /\ stream' = stream /\ switch' = switch
        /\ \A o \in {"op", "restore"} \ {p} : proc'[o] = proc[o]
    BY <1>1, <2>1 DEF Step, Result
  <2>8. /\ p = "op" => /\ Pending("op") = 1 /\ Pending("op")' = 0 /\ Pending("restore")' = Pending("restore")
        /\ p = "restore" => /\ Pending("restore") = 1 /\ Pending("restore")' = 0 /\ Pending("op")' = Pending("op")
    BY <1>1, <1>6, <2>5, <2>7 DEF Pending, One, At, Stale
  <2>9. added \in {2, 3, 4}
    BY <2>2 DEF Senders
  <2>10. ASSUME NEW s \in {2, 3, 4}, s # added PROVE Taken(s)' => Taken(s)
    <3>1. s \in Senders
      BY DEF Senders
    <3> QED BY <2>5, <2>6, <2>7, <2>10, <3>1 DEF Taken, Stale
  <2>11. TakenAll' <= TakenAll + 1 /\ TakenAll' \in Nat /\ TakenAll \in Nat
    <3>1. /\ One(Taken(2))' \in {0, 1} /\ One(Taken(3))' \in {0, 1} /\ One(Taken(4))' \in {0, 1}
      BY DEF One
    <3>2. /\ added # 2 => One(Taken(2))' <= One(Taken(2))
          /\ added # 3 => One(Taken(3))' <= One(Taken(3))
          /\ added # 4 => One(Taken(4))' <= One(Taken(4))
      BY <2>10 DEF One
    <3> QED BY <2>9, <3>1, <3>2, SupplyCounts DEF TakenAll
  <2>12. cam'.sender # 0
    BY <2>6, <2>7, <2>9
  <2>13. stream = 0 => p = "op"
    BY <1>1, <1>6 DEF Good, CameraTyped, RestoreTyped, At
  <2> QED BY <2>7, <2>8, <2>11, <2>12, <2>13, SupplyCounts DEF Supply
<1> QED BY <1>2, <1>4, <1>5, <1>6

LEMMA AttachedSupply ==
  ASSUME Good, Supply, NEW p \in {"op", "restore"}, Attached(p)
  PROVE  Supply'
<1> DEFINE r == proc[p]
           c == [cam EXCEPT !.attached[r.sender] = r.cap]
           on == r.cap \in c.enabled /\ c.requested
           d == Activate(c, on)
           q == [r EXCEPT !.pc = "activating"]
<1>1. DOMAIN cam = Fields /\ DOMAIN r = Slots /\ cam.attached \in [Senders -> Handles] /\ r.pc = "attaching"
      /\ DOMAIN proc = {"op", "restore"}
  BY ShapeOf DEF Good, CameraTyped, Cams, Attached, At
<1>2. CASE Stale(p)
  BY <1>2, FailingSupply DEF Attached
<1>3. CASE ~Stale(p)
  <2>1. Step(p, Result(d, q))
    BY <1>3 DEF Attached
  <2>2. DOMAIN c = Fields /\ c.sender = cam.sender /\ c.attached = [cam.attached EXCEPT ![r.sender] = r.cap]
    BY <1>1 DEF Fields
  <2> HIDE DEF c, on
  <2>3. Spare(c, d)
    BY <2>2, ActivateSpare
  <2>4. q.pc = "activating"
    BY <1>1 DEF Slots
  <2> HIDE DEF d, q
  <2>5. /\ proc'[p] = q /\ cam' = d /\ peer' = peer /\ stream' = stream /\ switch' = switch
        /\ \A o \in {"op", "restore"} \ {p} : proc'[o] = proc[o]
    BY <1>1, <2>1 DEF Step, Result
  <2>6. ASSUME NEW s \in {2, 3, 4} PROVE Taken(s)' => Taken(s)
    <3>1. s \in Senders
      BY DEF Senders
    <3>2. d.attached[s] # 0 => cam.attached[s] # 0 \/ s = r.sender
      BY <1>1, <2>2, <2>3, <3>1 DEF Spare
    <3>3. s = r.sender => Taken(s)
      BY <1>1, <1>3 DEF Taken
    <3>4. d.sender = cam.sender
      BY <2>2, <2>3 DEF Spare
    <3> HIDE DEF r
    <3> QED BY <2>4, <2>5, <3>2, <3>3, <3>4 DEF Taken, Stale
  <2>7. /\ Pending("op")' <= Pending("op") /\ Pending("restore")' <= Pending("restore")
        /\ Pending("op")' \in {0, 1} /\ Pending("restore")' \in {0, 1}
    BY <2>4, <2>5 DEF Pending, One, At, Stale
  <2>8. cam'.sender = cam.sender
    BY <2>2, <2>3, <2>5 DEF Spare
  <2> QED BY <2>5, <2>6, <2>7, <2>8, SupplyKept
<1> QED BY <1>2, <1>3

LEMMA EnabledSupply ==
  ASSUME Good, Supply, NEW p \in {"op", "restore"}, NEW c, Spare(cam, c),
         Step(p, Enabled(p, c, proc[p])) \/ Step(p, Enabled(p, Announce(c), proc[p]))
  PROVE  Supply'
<1>1. DOMAIN c = Fields
  BY DEF Spare
<1>2. Spare(cam, Announce(c)) /\ DOMAIN Announce(c) = Fields
  BY <1>1, AnnounceSpare, SpareChain DEF Spare
<1>3. Frugal(cam, Enabled(p, c, proc[p])) /\ Frugal(cam, Enabled(p, Announce(c), proc[p]))
  BY <1>1, <1>2, EnabledFrugal, FrugalAfter
<1> QED BY <1>3, StepSupply

LEMMA ActivatedSupply ==
  ASSUME Good, Supply, NEW p \in {"op", "restore"}, Activated(p) \/ Negotiated(p)
  PROVE  Supply'
<1>1. DOMAIN cam = Fields /\ DOMAIN proc[p] = Slots
  BY ShapeOf
<1>2. CASE Step(p, Failed(p, cam, proc[p]))
  BY <1>2, FailingSupply
<1>3. CASE Step(p, Result(cam, [proc[p] EXCEPT !.pc = "negotiating"]))
  <2>1. [proc[p] EXCEPT !.pc = "negotiating"].pc = "negotiating"
    BY <1>1 DEF Slots
  <2>2. Frugal(cam, Result(cam, [proc[p] EXCEPT !.pc = "negotiating"]))
    BY <1>1, <2>1, SpareSelf DEF Frugal, Result
  <2> QED BY <1>3, <2>2, StepSupply
<1>4. CASE Step(p, Enabled(p, Announce(cam), proc[p]))
  BY <1>1, <1>4, SpareSelf, EnabledSupply
<1>5. CASE Step(p, Enabled(p, Announce([cam EXCEPT !.negotiated = TRUE]), proc[p]))
  <2>1. Spare(cam, [cam EXCEPT !.negotiated = TRUE])
    BY <1>1 DEF Spare, Fields
  <2> QED BY <1>5, <2>1, EnabledSupply
<1> QED BY <1>2, <1>3, <1>4, <1>5 DEF Activated, Negotiated

LEMMA DetachedSupply ==
  ASSUME Good, Supply, CameraDetached
  PROVE  Supply'
<1> DEFINE r == proc["op"]
           off == [cam EXCEPT !.handle = 0,
                     !.attached = IF r.peer = peer /\ r.sender # 0
                                    THEN [@ EXCEPT ![r.sender] = 0] ELSE @,
                     !.tracks = Keep(@, Captures \ {r.cap})]
           d == Detached(cam, r)
<1>1. DOMAIN cam = Fields /\ cam.attached \in [Senders -> Handles]
  BY ShapeOf DEF Good, CameraTyped, Cams
<1>2. d = Announce(off)
  BY DEF Detached
<1>3. DOMAIN off = Fields /\ off.sender = cam.sender
      /\ off.attached = (IF r.peer = peer /\ r.sender # 0 THEN [cam.attached EXCEPT ![r.sender] = 0] ELSE cam.attached)
  BY <1>1 DEF Fields
<1> HIDE DEF off, r
<1>4. Spare(cam, off)
  BY <1>1, <1>3 DEF Spare
<1> HIDE DEF d
<1>5. Spare(cam, d)
  BY <1>2, <1>3, <1>4, AnnounceSpare, SpareChain
<1>6. DOMAIN d = Fields
  BY <1>5 DEF Spare
<1>7. Frugal(cam, LoopAgain(d, r)) /\ Frugal(cam, RetryOrGiveUp(d, r))
  BY <1>5, <1>6, LoopAgainFrugal, RetryFrugal, FrugalAfter
<1>8. Step("op", LoopAgain(d, r)) \/ Step("op", RetryOrGiveUp(d, r))
  BY DEF CameraDetached, d, r
<1> QED BY <1>7, <1>8, StepSupply

LEMMA RetrySupply ==
  ASSUME Good, Supply, RetryTimerFires
  PROVE  Supply'
<1>1. DOMAIN cam = Fields /\ DOMAIN proc["op"] = Slots
  BY ShapeOf
<1>2. Frugal(cam, Enabled("op", cam, proc["op"])) /\ Frugal(cam, EnableOnce(cam, proc["op"]))
  BY <1>1, EnabledFrugal, EnableOnceFrugal
<1> QED BY <1>2, StepSupply DEF RetryTimerFires

LEMMA OfferedSupply ==
  ASSUME Good, Supply, Offered
  PROVE  Supply'
<1> PICK ok \in BOOLEAN : Step("restore", Result([cam EXCEPT !.negotiated = @ \/ (ok /\ cam.sender # 0)], Idle))
  BY DEF Offered
<1>1. DOMAIN cam = Fields
  BY ShapeOf
<1>2. \A n : Spare(cam, [cam EXCEPT !.negotiated = n])
  BY <1>1 DEF Spare, Fields
<1>3. \A n : Frugal(cam, Result([cam EXCEPT !.negotiated = n], Idle))
  BY <1>2 DEF Frugal, Result, Idle
<1> QED BY <1>3, StepSupply

LEMMA SendingSetSupply ==
  ASSUME Good, Supply, SendingSet
  PROVE  Supply'
<1> DEFINE send == Head(cam.sends)
           b == [cam EXCEPT !.sends = Tail(@)]
           e == Enable(b, cam.handle, send.on /\ cam.requested)
           c == Announce(e)
<1>1. DOMAIN cam = Fields /\ DOMAIN proc["restore"] = Slots /\ DOMAIN proc = {"op", "restore"}
  BY ShapeOf DEF Good, CameraTyped
<1>2. Spare(cam, b) /\ DOMAIN b = Fields
  BY <1>1 DEF Spare, Fields
<1>3. CASE send.who = "op"
  <2>1. Step("op", LoopAgain(c, proc["op"]))
    BY <1>3 DEF SendingSet
  <2> HIDE DEF b
  <2>2. Spare(b, e) /\ DOMAIN e = Fields
    BY <1>2, EnableSpare DEF Spare
  <2> HIDE DEF e
  <2>3. Spare(e, c) /\ DOMAIN c = Fields
    BY <2>2, AnnounceSpare DEF Spare
  <2> HIDE DEF c
  <2>4. Spare(cam, c)
    BY <1>2, <2>2, <2>3, SpareChain
  <2>5. Frugal(cam, LoopAgain(c, proc["op"]))
    BY <2>3, <2>4, LoopAgainFrugal, FrugalAfter
  <2> QED BY <2>1, <2>5, StepSupply
<1>4. CASE send.who = "restore"
  <2>1. Step("restore", RestoreCamera(c, proc["restore"]))
    BY <1>4 DEF SendingSet
  <2> HIDE DEF b
  <2>2. Spare(b, e) /\ DOMAIN e = Fields
    BY <1>2, EnableSpare DEF Spare
  <2> HIDE DEF e
  <2>3. Spare(e, c) /\ DOMAIN c = Fields
    BY <2>2, AnnounceSpare DEF Spare
  <2> HIDE DEF c
  <2>4. Spare(cam, c)
    BY <1>2, <2>2, <2>3, SpareChain
  <2>5. DOMAIN [Idle EXCEPT !.want = ~c.audioOnly] = Slots
    BY DEF Idle, Slots
  <2>6. Frugal(c, EnableOnce(c, [Idle EXCEPT !.want = ~c.audioOnly]))
    BY <2>3, <2>5, EnableOnceFrugal
  <2>7. Frugal(c, Result(c, [Idle EXCEPT !.pc = "offering", !.peer = proc["restore"].peer]))
    BY <2>3, SpareSelf DEF Frugal, Result, Idle
  <2>8. Frugal(c, RestoreCamera(c, proc["restore"]))
    BY <2>6, <2>7 DEF RestoreCamera
  <2> QED BY <2>1, <2>4, <2>8, FrugalAfter, StepSupply
<1>5. CASE send.who # "op" /\ send.who # "restore"
  <2>1. Step("op", Result(c, proc["op"]))
    BY <1>5 DEF SendingSet
  <2> HIDE DEF b
  <2>2. Spare(b, e) /\ DOMAIN e = Fields
    BY <1>2, EnableSpare DEF Spare
  <2> HIDE DEF e
  <2>3. Spare(e, c) /\ DOMAIN c = Fields
    BY <2>2, AnnounceSpare DEF Spare
  <2> HIDE DEF c
  <2>4. Spare(cam, c)
    BY <1>2, <2>2, <2>3, SpareChain
  <2>5. cam' = c /\ proc'["op"] = proc["op"] /\ proc'["restore"] = proc["restore"]
        /\ peer' = peer /\ stream' = stream /\ switch' = switch
    BY <1>1, <2>1 DEF Step, Result
  <2> QED BY <2>4, <2>5, SpareSupply
<1> QED BY <1>3, <1>4, <1>5

LEMMA MicrophoneSupply ==
  ASSUME Good, Supply, MicrophoneReady
  PROVE  Supply'
<1> DEFINE b == [cam EXCEPT !.handle = 0, !.sender = 0, !.negotiated = FALSE]
           c == Announce(b)
           d == SetVideoSending(c, ~c.suspended, c.automatic, "restore")
<1>1. DOMAIN cam = Fields /\ DOMAIN proc["restore"] = Slots /\ DOMAIN proc = {"op", "restore"}
      /\ At("restore", "setup") /\ stream = 0 /\ peer # 0
  BY ShapeOf DEF Good, CameraTyped, RestoreTyped, MicrophoneReady, At
<1>2. DOMAIN b = Fields /\ b.sender = 0 /\ b.attached = cam.attached
  BY <1>1 DEF Fields
<1>3. cam' = d /\ stream' = peer /\ peer' = peer /\ switch' = switch
      /\ proc' = [proc EXCEPT !["restore"].pc = "sending"]
  BY DEF MicrophoneReady
<1> HIDE DEF b
<1>4. Spare(b, c) /\ DOMAIN c = Fields
  BY <1>2, AnnounceSpare DEF Spare
<1> HIDE DEF c
<1>5. Spare(c, d)
  BY <1>4, SendingSpare
<1> HIDE DEF d
<1>6. cam'.sender = 0 /\ \A s \in Senders : cam'.attached[s] # 0 => cam.attached[s] # 0
  BY <1>2, <1>3, <1>4, <1>5 DEF Spare
<1>7. /\ proc'["op"] = proc["op"] /\ proc'["restore"].pc = "sending"
  BY <1>1, <1>3 DEF Slots
<1>8. ASSUME NEW s \in {2, 3, 4} PROVE Taken(s)' => Taken(s)
  <2>1. s \in Senders /\ s # 0
    BY DEF Senders
  <2> QED BY <1>3, <1>6, <1>7, <2>1 DEF Taken, Stale
<1>9. Pending("op")' = Pending("op") /\ Pending("restore")' = 0
  BY <1>3, <1>7 DEF Pending, One, At, Stale
<1>10. TakenAll' <= TakenAll /\ TakenAll' \in Nat /\ TakenAll \in Nat
  BY <1>8, TakenLess
<1> QED BY <1>1, <1>3, <1>9, <1>10, SupplyCounts DEF Supply

LEMMA AdoptSpare ==
  ASSUME NEW c, DOMAIN c = Fields, NEW cap, NEW prev
  PROVE  Spare(c, Adopt(c, cap, prev))
<1> DEFINE c1 == [c EXCEPT !.live = @ \ ({c.handle, prev} \ {cap}), !.handle = cap,
                      !.tracks = Append(Keep(@, Captures \ {prev}), cap)]
           e == Enable(c1, cap, c.requested /\ ~c.suspended /\ ~c.audioOnly)
<1>1. Spare(c, c1) /\ DOMAIN c1 = Fields
  BY DEF Spare, Fields
<1>2. Adopt(c, cap, prev) = Announce(e)
  BY DEF Adopt
<1> HIDE DEF c1
<1>3. Spare(c1, e) /\ DOMAIN e = Fields
  BY <1>1, EnableSpare DEF Spare
<1> HIDE DEF e
<1> QED BY <1>1, <1>2, <1>3, AnnounceSpare, SpareChain

LEMMA SwitchSupply ==
  ASSUME Good, Supply, SwitchPlaced, SwitchDevice \/ SwitchSteps
  PROVE  Supply'
<1>1. DOMAIN cam = Fields /\ DOMAIN proc = {"op", "restore"} /\ cam.attached \in [Senders -> Handles]
      /\ switch \in Switches
      /\ stream = (IF peer = 0 \/ At("restore", "setup") THEN 0 ELSE peer)
  BY ShapeOf DEF Good, CameraTyped, Cams
<1>2. /\ proc' = proc /\ peer' = peer /\ stream' = stream
  BY DEF SwitchDevice, SwitchSteps, SwitchCaptured, SwitchReplaced, SwitchRefused
<1>3. Pending("op")' = Pending("op") /\ Pending("restore")' = Pending("restore")
  BY <1>2 DEF Pending, At, Stale
<1>4. ASSUME cam'.sender = cam.sender,
             \A s \in {2, 3, 4} :
               /\ cam'.attached[s] # 0 => Taken(s)
               /\ switch'.pc = "replacing" /\ switch'.peer = peer /\ peer # 0 /\ switch'.sender = s => Taken(s)
      PROVE  Supply'
  <2>1. ASSUME NEW s \in {2, 3, 4} PROVE Taken(s)' => Taken(s)
    BY <1>2, <1>4 DEF Taken, Stale
  <2> QED BY <1>2, <1>3, <1>4, <2>1, SupplyKept, SupplyCounts
<1>5. \A s \in {2, 3, 4} : cam.attached[s] # 0 => Taken(s)
  BY DEF Taken
<1>6. NoSwitch.pc = "idle"
  BY DEF NoSwitch
<1>7. CASE SwitchDevice
  <2>1. cam' = cam /\ switch'.pc = "capturing"
    BY <1>7 DEF SwitchDevice, NoSwitch
  <2> QED BY <1>4, <1>5, <2>1
<1>8. CASE SwitchRefused
  BY <1>4, <1>5, <1>6, <1>8 DEF SwitchRefused
<1>9. CASE SwitchCaptured
  <2> DEFINE prev == IF cam.tracks = <<>> THEN 0 ELSE Head(cam.tracks)
             cap == FreshCapture
             c == [cam EXCEPT !.live = @ \union {cap}]
             used == {s \in Senders : cam.attached[s] # 0}
             next == [switch EXCEPT !.pc = "replacing", !.cap = cap, !.prev = prev, !.sender = Min(used)]
  <2>1. DOMAIN c = Fields /\ c.sender = cam.sender /\ c.attached = cam.attached
    BY <1>1 DEF Fields
  <2>2. \/ switch' = NoSwitch /\ cam' = cam
        \/ switch' = next /\ cam' = c /\ used # {}
        \/ switch' = NoSwitch /\ cam' = Adopt(c, cap, prev)
    BY <1>9 DEF SwitchCaptured
  <2>3. CASE switch' = NoSwitch /\ cam' = cam
    BY <1>4, <1>5, <1>6, <2>3
  <2>4. CASE switch' = next /\ cam' = c /\ used # {}
    <3>1. Min(used) \in used
      BY <2>4, MinDoes
    <3>2. next.sender = Min(used) /\ next.peer = switch.peer
      BY <1>1 DEF Switches
    <3> HIDE DEF c, next
    <3> QED BY <1>4, <1>5, <2>1, <2>4, <3>1, <3>2
  <2>5. CASE switch' = NoSwitch /\ cam' = Adopt(c, cap, prev)
    <3> HIDE DEF c, prev, cap
    <3>1. Spare(c, Adopt(c, cap, prev))
      BY <2>1, AdoptSpare
    <3>2. \A s \in {2, 3, 4} : s \in Senders
      BY DEF Senders
    <3> QED BY <1>4, <1>5, <1>6, <2>1, <2>5, <3>1, <3>2 DEF Spare
  <2> QED BY <2>2, <2>3, <2>4, <2>5
<1>10. CASE SwitchReplaced
  <2> DEFINE c == [cam EXCEPT !.attached[switch.sender] = switch.cap]
  <2>1. /\ switch' = NoSwitch /\ switch.pc = "replacing"
        /\ cam' = IF switch.peer # peer THEN cam ELSE Adopt(c, switch.cap, switch.prev)
    BY <1>10 DEF SwitchReplaced
  <2>2. CASE switch.peer # peer
    BY <1>4, <1>5, <1>6, <2>1, <2>2
  <2>3. CASE switch.peer = peer
    <3>1. DOMAIN c = Fields /\ c.sender = cam.sender
          /\ c.attached = [cam.attached EXCEPT ![switch.sender] = switch.cap]
      BY <1>1 DEF Fields
    <3> HIDE DEF c
    <3>2. Spare(c, cam')
      BY <2>1, <2>3, <3>1, AdoptSpare
    <3>3. peer # 0
      BY <2>1, <2>3 DEF SwitchPlaced
    <3>4. \A s \in {2, 3, 4} : s = switch.sender => Taken(s)
      BY <2>1, <2>3, <3>3 DEF Taken
    <3>5. \A s \in {2, 3, 4} : s \in Senders
      BY DEF Senders
    <3> QED BY <1>1, <1>4, <1>5, <1>6, <2>1, <3>1, <3>2, <3>4, <3>5 DEF Spare
  <2> QED BY <2>2, <2>3
<1> QED BY <1>7, <1>8, <1>9, <1>10 DEF SwitchSteps

\* Only SwitchDevice begins a switch, on the connection that is up.
LEMMA SwitchStaysPlaced ==
  ASSUME Good, SwitchPlaced, [Next]_vars
  PROVE  SwitchPlaced'
<1>1. switch \in Switches /\ (peer # 0 \/ stream = 0) /\ NoSwitch.pc = "idle"
  BY DEF Good, CameraTyped, NoSwitch
<1>2. CASE UNCHANGED switch
  BY <1>2 DEF SwitchPlaced
<1>3. CASE SwitchDevice
  <2>1. switch' = [NoSwitch EXCEPT !.pc = "capturing", !.peer = peer] /\ stream # 0
    BY <1>3 DEF SwitchDevice
  <2> QED BY <1>1, <2>1 DEF SwitchPlaced, NoSwitch
<1>4. CASE SwitchRefused \/ SwitchReplaced
  BY <1>1, <1>4 DEF SwitchRefused, SwitchReplaced, SwitchPlaced
<1>5. CASE SwitchCaptured
  <2>1. PICK cap, prev, s : \/ switch' = NoSwitch
                            \/ switch' = [switch EXCEPT !.pc = "replacing", !.cap = cap, !.prev = prev, !.sender = s]
    BY <1>5 DEF SwitchCaptured
  <2>2. CASE switch' = NoSwitch
    BY <1>1, <2>2 DEF SwitchPlaced
  <2>3. CASE switch' = [switch EXCEPT !.pc = "replacing", !.cap = cap, !.prev = prev, !.sender = s]
    <3>1. switch'.peer = switch.peer /\ switch.pc # "idle"
      BY <1>1, <1>5, <2>3 DEF Switches, SwitchCaptured
    <3> QED BY <3>1 DEF SwitchPlaced
  <2> QED BY <2>1, <2>2, <2>3
<1> QED
  <2>1. \/ UNCHANGED switch \/ SwitchDevice \/ SwitchRefused \/ SwitchReplaced \/ SwitchCaptured
    <3>1. ASSUME NEW p, ProcSteps(p) PROVE UNCHANGED switch
      BY <3>1 DEF ProcSteps, CameraCaptured, CameraRefused, Constrained, Attached, Activated, Negotiated,
                  NegotiationFails, Step
    <3>2. ASSUME CameraDetached \/ RetryTimerFires \/ MicrophoneReady \/ Offered \/ SendingSet \/ Reset \/ Start
          PROVE  UNCHANGED switch
      BY <3>2 DEF CameraDetached, RetryTimerFires, MicrophoneReady, Offered, SendingSet, Reset, Start, Step
    <3>3. ASSUME ClickCamera \/ ToggleAudioOnly \/ SelectQuality \/ PauseVideo \/ RecoverVideo
          PROVE  UNCHANGED switch
      BY <3>3 DEF ClickCamera, ToggleAudioOnly, SelectQuality, PauseVideo, RecoverVideo, Act
    <3> QED BY <3>1, <3>2, <3>3 DEF Next, SwitchSteps, vars
  <2> QED BY <1>2, <1>3, <1>4, <1>5, <2>1

LEMMA ResetSupply ==
  ASSUME Good, Supply, Reset
  PROVE  Supply'
<1>1. cam \in Cams /\ DOMAIN proc = {"op", "restore"} /\ OpTyped(proc["op"])
  BY DEF Good, CameraTyped
<1>2. /\ peer' = 0 /\ stream' = 0 /\ proc' = [proc EXCEPT !["restore"] = Idle] /\ switch' = switch
  BY DEF Reset
<1>3. cam'.sender = 0 /\ \A s \in Senders : cam'.attached[s] = 0
  BY <1>1 DEF Reset, Cams
<1>4. proc'["op"] = proc["op"] /\ proc'["restore"].pc = "idle"
  BY <1>1, <1>2 DEF Idle
<1>5. proc["op"].pc \in {"constraining", "attaching"} => proc["op"].peer # 0
  BY <1>1 DEF OpTyped, Enabling, Placing
<1>6. ASSUME NEW s \in {2, 3, 4} PROVE ~Taken(s)'
  <2>1. s \in Senders /\ s # 0
    BY DEF Senders
  <2> QED BY <1>2, <1>3, <1>4, <1>5, <2>1 DEF Taken, Stale
<1>7. TakenAll' = 0
  <2>1. ~Taken(2)' /\ ~Taken(3)' /\ ~Taken(4)'
    BY <1>6
  <2> QED BY <2>1 DEF TakenAll, One
<1>8. Pending("op")' = 0
  BY <1>2, <1>4, <1>5 DEF Pending, One, At, Stale
<1> QED BY <1>2, <1>7, <1>8 DEF Supply

LEMMA StartSupply ==
  ASSUME Good, Supply, Start
  PROVE  Supply'
<1>1. /\ DOMAIN proc = {"op", "restore"} /\ OpTyped(proc["op"]) /\ switch \in Switches /\ switch.peer <= conns
      /\ conns \in Nat /\ peer = 0 /\ stream = 0 /\ proc["op"].peer \in Nat
  BY DEF Good, CameraTyped, Start, OpTyped, ProcTyped, Procs
<1>2. /\ peer' = conns + 1 /\ stream' = stream /\ switch' = switch /\ cam' = cam
      /\ proc' = [proc EXCEPT !["restore"] = [Idle EXCEPT !.pc = "setup", !.peer = conns + 1]]
  BY DEF Start
<1>3. proc'["op"] = proc["op"] /\ proc'["restore"].pc = "setup"
  BY <1>1, <1>2 DEF Idle
<1>4. proc["op"].peer # peer' /\ switch.peer # peer'
  BY <1>1, <1>2 DEF OpTyped, Switches
<1>5. ASSUME NEW s \in {2, 3, 4} PROVE Taken(s)' => Taken(s)
  BY <1>2, <1>3, <1>4 DEF Taken, Stale
<1>6. Pending("op")' = 0 /\ Pending("restore")' = 0
  BY <1>2, <1>3, <1>4 DEF Pending, One, At, Stale
<1> QED BY <1>2, <1>5, <1>6, SupplyKept, SupplyCounts

LEMMA ActSupply ==
  ASSUME Good, Supply, NEW d, Spare(cam, d), Act(Result(d, proc["op"])) \/ Act(Iterate(d)) \/ Act(Result(d, Idle))
  PROVE  Supply'
<1>1. DOMAIN proc = {"op", "restore"}
  BY DEF Good, CameraTyped
<1>2. CASE Act(Result(d, proc["op"]))
  <2>1. cam' = d /\ proc'["op"] = proc["op"] /\ proc'["restore"] = proc["restore"]
        /\ peer' = peer /\ stream' = stream /\ switch' = switch
    BY <1>1, <1>2 DEF Act, Result
  <2> QED BY <2>1, SpareSupply
<1>3. CASE Act(Iterate(d))
  <2>1. Frugal(cam, Iterate(d))
    BY IterateFrugal, FrugalAfter DEF Spare
  <2> QED BY <1>3, <2>1, SupplyAsked DEF Act
<1>4. CASE Act(Result(d, Idle))
  <2>1. Frugal(cam, Result(d, Idle))
    BY DEF Frugal, Result, Idle
  <2> QED BY <1>4, <2>1, SupplyAsked DEF Act
<1> QED BY <1>2, <1>3, <1>4

LEMMA RequestSupply ==
  ASSUME Good, Supply, NEW c, Spare(cam, c), NEW on, NEW force, Act(RequestCameraState(c, on, force))
  PROVE  Supply'
<1> DEFINE d == [c EXCEPT !.target = IF on THEN "on" ELSE "off"]
<1>1. \A t : Spare(c, [c EXCEPT !.target = t])
  BY DEF Spare, Fields
<1>2. Spare(cam, d)
  BY <1>1, SpareChain
<1>3. Act(Result(d, proc["op"])) \/ Act(Iterate(d)) \/ Act(Result(c, Idle))
  BY DEF RequestCameraState
<1> HIDE DEF d
<1> QED BY <1>2, <1>3, ActSupply

LEMMA UserSupply ==
  ASSUME Good, Supply, ClickCamera \/ ToggleAudioOnly \/ SelectQuality \/ PauseVideo \/ RecoverVideo
  PROVE  Supply'
<1>1. DOMAIN cam = Fields
  BY ShapeOf
<1>2. \A on, automatic, b : Spare(cam, b) /\ Act(Result(SetVideoSending(b, on, automatic, "none"), proc["op"])) => Supply'
  <2> SUFFICES ASSUME NEW on, NEW automatic, NEW b, Spare(cam, b),
                      Act(Result(SetVideoSending(b, on, automatic, "none"), proc["op"]))
               PROVE  Supply'
    OBVIOUS
  <2>1. Spare(cam, SetVideoSending(b, on, automatic, "none"))
    BY SendingSpare, SpareChain DEF Spare
  <2> QED BY <2>1, ActSupply
<1>3. Spare(cam, cam)
  BY <1>1, SpareSelf
<1>4. CASE ClickCamera
  BY <1>3, <1>4, RequestSupply DEF ClickCamera
<1>5. CASE PauseVideo \/ RecoverVideo
  BY <1>2, <1>3, <1>5 DEF PauseVideo, RecoverVideo
<1>6. CASE ToggleAudioOnly
  <2>1. \A x, y, z : Spare(cam, [cam EXCEPT !.audioOnly = x, !.before = y, !.requested = z])
    BY <1>1 DEF Spare, Fields
  <2>2. \A x, z : Spare(cam, [cam EXCEPT !.audioOnly = x, !.requested = z])
    BY <1>1 DEF Spare, Fields
  <2> QED BY <1>2, <1>6, <2>1, <2>2 DEF ToggleAudioOnly
<1>7. CASE SelectQuality
  <2>1. \A x : Spare(cam, [cam EXCEPT !.quality = x])
    BY <1>1 DEF Spare, Fields
  <2>2. PICK on \in BOOLEAN :
          Act(IF ~on THEN RequestCameraState([cam EXCEPT !.quality = on], FALSE, TRUE)
              ELSE Result(IF [cam EXCEPT !.quality = on].requested
                            THEN SetVideoSending([cam EXCEPT !.quality = on], TRUE, FALSE, "none")
                            ELSE [cam EXCEPT !.quality = on], proc["op"]))
    BY <1>7 DEF SelectQuality
  <2>3. Spare(cam, [cam EXCEPT !.quality = on])
    BY <2>1
  <2>4. \/ Act(RequestCameraState([cam EXCEPT !.quality = on], FALSE, TRUE))
        \/ Act(Result(SetVideoSending([cam EXCEPT !.quality = on], TRUE, FALSE, "none"), proc["op"]))
        \/ Act(Result([cam EXCEPT !.quality = on], proc["op"]))
    BY <2>2
  <2> QED BY <1>2, <2>3, <2>4, RequestSupply, ActSupply
<1> QED BY <1>4, <1>5, <1>6, <1>7


(***************************************************************************)
(* The invariant, and what follows from it.                                *)
(***************************************************************************)
Strong == Good /\ Supply /\ SwitchPlaced

\* Nothing has been captured and nothing is under way at first.
LEMMA InitStrong ==
  Init => Strong
<1> SUFFICES ASSUME Init PROVE Strong
  OBVIOUS
<1>1. /\ proc["op"] = Idle /\ proc["restore"] = Idle /\ DOMAIN proc = {"op", "restore"}
      /\ peer = 0 /\ stream = 0 /\ switch = NoSwitch
      /\ conns = 0 /\ cameraActs = 0 /\ drops = 0 /\ failures = 0
      /\ asked = "none" /\ crossed = FALSE /\ meddled = FALSE
  BY DEF Init
<1>2. /\ cam.live = {} /\ cam.handle = 0 /\ cam.tracks = <<>> /\ cam.sender = 0
      /\ cam.attached = [s \in Senders |-> 0] /\ cam.sends = <<>> /\ cam.target = "none"
      /\ ~cam.audioOnly /\ ~cam.requested /\ ~cam.before /\ cam.quality
  BY DEF Init
<1>3. cam \in Cams
  <2>1. [s \in Senders |-> 0] \in [Senders -> Handles] /\ <<>> \in Seq(Captures) /\ <<>> \in Seq(Sends)
        /\ 0 \in Handles /\ 0 \in Places
    BY DEF Handles, Places
  <2> QED BY <2>1 DEF Init, Cams
<1>4. Idle \in Procs /\ Idle.pc = "idle" /\ Idle.peer = 0 /\ ~Idle.want
  BY DEF Idle, Procs, OpPcs, RestorePcs, Handles, Places
<1>5. NoSwitch \in Switches /\ NoSwitch.pc = "idle" /\ NoSwitch.peer = 0
  BY DEF NoSwitch, Switches, Handles, Places
<1>6. CameraTyped
  <2>1. ProcTyped(Idle)
    BY <1>4 DEF ProcTyped, Placing
  <2>2. OpTyped(Idle) /\ RestoreTyped(Idle)
    BY <1>1, <1>4, <2>1 DEF OpTyped, RestoreTyped, Enabling, Placing, OpPcs, RestorePcs
  <2>3. cam \in Cams /\ DOMAIN proc = {"op", "restore"} /\ OpTyped(proc["op"]) /\ RestoreTyped(proc["restore"])
    BY <1>1, <1>3, <2>2
  <2>4. /\ switch \in Switches /\ switch.peer <= conns /\ switch.pc # "replacing"
        /\ switch.pc = "idle" => switch = NoSwitch
    BY <1>1, <1>5
  <2>5. peer \in 0 .. conns /\ stream = (IF peer = 0 \/ At("restore", "setup") THEN 0 ELSE peer)
    BY <1>1
  <2> QED BY <1>1, <2>3, <2>4, <2>5 DEF CameraTyped
<1>7. CamGood(cam, proc["op"], proc["restore"], failures)
  <2>1. SendsInv(cam, Idle, Idle) /\ TargetInv(cam, Idle)
    BY <1>2, <1>4 DEF SendsInv, TargetInv
  <2>2. OneTask(cam, Idle, Idle) /\ RestoreWished(cam, Idle)
    BY <1>1, <1>2, <1>4 DEF OneTask, RestoreWished, Enabling, Placing, Disabling
  <2>3. Device(cam, Idle, Idle)
    BY <1>1, <1>2, <1>4, <1>5 DEF Device, Nothing, PlacedBy, Placing, Disabling, Tracks
  <2>4. Shown(cam, Idle, Idle) /\ Wished(cam, Idle, Idle)
    BY <1>1, <1>2, <1>4 DEF Shown, Wished, Disabling, Placing
  <2>5. Succeeds(cam, Idle, Idle)
    BY <1>1, <1>2, <1>4 DEF Succeeds, Wants, Enabling, Placing
  <2> QED BY <1>1, <2>1, <2>2, <2>3, <2>4, <2>5 DEF CamGood
<1>8. \A s \in {2, 3, 4} : ~Taken(s)
  BY <1>1, <1>2, <1>4, <1>5 DEF Taken, Senders
<1>9. TakenAll = 0 /\ Pending("op") = 0
  <2>1. ~Taken(2) /\ ~Taken(3) /\ ~Taken(4)
    BY <1>8
  <2> QED BY <1>1, <1>4, <2>1 DEF TakenAll, Pending, One, At
<1> QED BY <1>1, <1>5, <1>6, <1>7, <1>9 DEF Strong, Good, Supply, SwitchPlaced

\* Every step keeps the invariant.
LEMMA NextGood ==
  ASSUME Strong, Next
  PROVE  Good' /\ Supply'
<1>1. Good /\ Supply /\ SwitchPlaced /\ DOMAIN proc = {"op", "restore"}
  BY DEF Strong, Good, CameraTyped
<1>2. ASSUME NEW p \in DOMAIN proc, ProcSteps(p)
      PROVE  Good' /\ Supply'
  <2>1. p \in {"op", "restore"}
    BY <1>1
  <2>2. CASE CameraCaptured(p)
    <3>1. Good'
      BY <1>1, <2>1, <2>2, CameraCapturedOp, CameraCapturedRestore
    <3> QED BY <1>1, <2>1, <2>2, <3>1, CapturedSupply
  <2>3. CASE CameraRefused(p)
    BY <1>1, <2>1, <2>3, CameraRefusedGood, FailingSupply DEF CameraRefused
  <2>4. CASE Constrained(p)
    BY <1>1, <2>1, <2>4, ConstrainedGood, ConstrainedSupply
  <2>5. CASE Attached(p)
    BY <1>1, <2>1, <2>5, AttachedGood, AttachedSupply
  <2>6. CASE Activated(p)
    <3>1. Good'
      BY <1>1, <2>1, <2>6, ActivatedOp, ActivatedRestore
    <3> QED BY <1>1, <2>1, <2>6, <3>1, ActivatedSupply
  <2>7. CASE Negotiated(p)
    BY <1>1, <2>1, <2>7, NegotiatedGood, ActivatedSupply
  <2>8. CASE NegotiationFails(p)
    BY <1>1, <2>1, <2>8, NegotiationFailsGood, FailingSupply DEF NegotiationFails
  <2> QED BY <1>2, <2>2, <2>3, <2>4, <2>5, <2>6, <2>7, <2>8 DEF ProcSteps
<1>3. CASE CameraDetached
  BY <1>1, <1>3, CameraDetachedGood, DetachedSupply
<1>4. CASE RetryTimerFires
  BY <1>1, <1>4, RetryTimerFiresGood, RetrySupply
<1>5. CASE MicrophoneReady
  BY <1>1, <1>5, MicrophoneReadyGood, MicrophoneSupply
<1>6. CASE Offered
  BY <1>1, <1>6, OfferedGood, OfferedSupply
<1>7. CASE SendingSet
  BY <1>1, <1>7, SendingSetGood, SendingSetSupply
<1>8. CASE SwitchDevice
  BY <1>1, <1>8, SwitchDeviceGood, SwitchSupply
<1>9. CASE SwitchSteps
  BY <1>1, <1>9, SwitchCapturedGood, SwitchReplacedGood, SwitchRefusedGood, SwitchSupply DEF SwitchSteps
<1>10. CASE Reset
  BY <1>1, <1>10, ResetGood, ResetSupply
<1>11. CASE Start
  BY <1>1, <1>11, StartGood, StartSupply
<1>12. CASE ClickCamera
  BY <1>1, <1>12, ClickCameraGood, UserSupply
<1>13. CASE ToggleAudioOnly
  BY <1>1, <1>13, ToggleAudioOnlyGood, UserSupply
<1>14. CASE SelectQuality
  BY <1>1, <1>14, SelectQualityGood, UserSupply
<1>15. CASE PauseVideo \/ RecoverVideo
  BY <1>1, <1>15, VideoActGood, UserSupply
<1> QED BY <1>2, <1>3, <1>4, <1>5, <1>6, <1>7, <1>8, <1>9, <1>10, <1>11, <1>12, <1>13, <1>14, <1>15 DEF Next

LEMMA NextStrong ==
  Strong /\ [Next]_vars => Strong'
<1> SUFFICES ASSUME Strong, [Next]_vars PROVE Strong'
  OBVIOUS
<1>1. SwitchPlaced'
  BY SwitchStaysPlaced DEF Strong
<1>2. CASE Next
  BY <1>1, <1>2, NextGood DEF Strong
<1>3. CASE UNCHANGED vars
  <2>1. /\ peer' = peer /\ stream' = stream /\ cam' = cam /\ proc' = proc /\ switch' = switch /\ conns' = conns
        /\ cameraActs' = cameraActs /\ drops' = drops /\ failures' = failures /\ asked' = asked
        /\ crossed' = crossed /\ meddled' = meddled
    BY <1>3 DEF vars
  <2>2. CameraTyped'
    BY <2>1 DEF Strong, Good, CameraTyped, OpTyped, RestoreTyped, ProcTyped, At
  <2>3. SendsInv(cam, proc["op"], proc["restore"])' /\ TargetInv(cam, proc["op"])'
    BY <2>1 DEF Strong, Good, CamGood, SendsInv, TargetInv
  <2>4. ~crossed => /\ OneTask(cam, proc["op"], proc["restore"])' /\ Device(cam, proc["op"], proc["restore"])'
                    /\ Shown(cam, proc["op"], proc["restore"])' /\ RestoreWished(cam, proc["restore"])'
    BY <2>1 DEF Strong, Good, CamGood, OneTask, Device, Nothing, PlacedBy, Tracks, Shown, RestoreWished, Wants
  <2>5. ~crossed /\ ~meddled => /\ Wished(cam, proc["op"], proc["restore"])'
                                /\ failures = 0 => Succeeds(cam, proc["op"], proc["restore"])'
    BY <2>1 DEF Strong, Good, CamGood, Wished, Succeeds, Wants, Published
  <2>6. Good'
    BY <2>1, <2>2, <2>3, <2>4, <2>5 DEF Good, CamGood
  <2>7. Supply'
    BY <2>1 DEF Strong, Supply, TakenAll, Taken, Pending, At, Stale, One
  <2> QED BY <1>1, <2>6, <2>7 DEF Strong
<1> QED BY <1>2, <1>3

\* The properties follow, each from the part of the invariant that is about it.
LEMMA GoodTyped ==
  Good => TypeOK
<1> SUFFICES ASSUME Good PROVE TypeOK
  OBVIOUS
<1>1. CameraTyped /\ TargetInv(cam, proc["op"]) /\ cam \in Cams
  BY DEF Good, CamGood, CameraTyped
<1>2. \A i \in DOMAIN cam.tracks : cam.tracks[i] \in Captures
  BY <1>1 DEF Cams
<1>3. peer \in 0 .. conns /\ stream \in {0, peer}
  BY <1>1 DEF CameraTyped
<1>4. cam.target # "none" <=> proc["op"].pc # "idle"
  BY <1>1 DEF TargetInv
<1> QED BY <1>1, <1>2, <1>3, <1>4 DEF TypeOK, Cams, Handles, Places

\* When nothing is under way, the four tasks have come to rest.
LEMMA AtRest ==
  ASSUME Good, Calm
  PROVE  /\ proc["op"].pc = "idle" /\ proc["restore"].pc = "idle" /\ cam.sends = <<>> /\ switch.pc = "idle"
         /\ CamGood(cam, proc["op"], proc["restore"], failures)
         /\ stream = peer
<1>1. DOMAIN proc = {"op", "restore"} /\ stream = (IF peer = 0 \/ At("restore", "setup") THEN 0 ELSE peer)
  BY DEF Good, CameraTyped
<1>2. proc["op"].pc = "idle" /\ proc["restore"].pc = "idle" /\ cam.sends = <<>> /\ switch = NoSwitch
  BY <1>1 DEF Calm, Busy
<1> QED BY <1>1, <1>2 DEF Good, At, NoSwitch

LEMMA GoodComesBack ==
  Good => CameraComesBack
<1> SUFFICES ASSUME Good, CameraSettled, ~crossed, ~meddled, failures = 0, cam.requested
             PROVE  /\ cam.handle \in cam.live /\ cam.sender # 0
                    /\ cam.attached[cam.sender] = cam.handle /\ cam.negotiated
  BY DEF CameraComesBack
<1>1. /\ proc["op"].pc = "idle" /\ proc["restore"].pc = "idle" /\ stream # 0
      /\ Succeeds(cam, proc["op"], proc["restore"]) /\ Device(cam, proc["op"], proc["restore"])
  BY AtRest DEF CameraSettled, CamGood
<1>2. Published(cam) /\ cam.negotiated
  BY <1>1 DEF Succeeds, Wants
<1> QED BY <1>1, <1>2 DEF Published, Device, Disabling

LEMMA GoodLastWord ==
  Good => LastWordWins
BY AtRest DEF LastWordWins, CamGood, Succeeds

LEMMA GoodNothingUnseen ==
  Good => NothingSentUnseen
<1> SUFFICES ASSUME Good, CameraSettled, ~crossed, NEW s \in Senders, Sending(s)
             PROVE  cam.said = "on" /\ CameraOn(cam)
  BY DEF NothingSentUnseen
<1>1. /\ proc["op"].pc = "idle" /\ proc["restore"].pc = "idle" /\ cam.sends = <<>> /\ switch.pc = "idle"
      /\ Shown(cam, proc["op"], proc["restore"]) /\ Device(cam, proc["op"], proc["restore"])
      /\ SendsInv(cam, proc["op"], proc["restore"])
      /\ cam \in Cams
  BY AtRest DEF CameraSettled, CamGood, Good, CameraTyped
<1>2. cam.attached[s] \in cam.live /\ cam.attached[s] \in cam.enabled /\ cam.live \subseteq Captures
  BY <1>1 DEF Sending, Cams
<1>3. cam.handle = cam.attached[s] /\ cam.handle # 0
  BY <1>1, <1>2, Assumed DEF Device
<1>4. cam.requested /\ ~cam.suspended /\ cam.said = "on"
  BY <1>1, <1>2, <1>3 DEF Shown, Disabling, Enabling, Placing
<1>5. ~cam.audioOnly
  BY <1>1, <1>4 DEF SendsInv
<1> QED BY <1>3, <1>4, <1>5 DEF CameraOn

LEMMA GoodOff ==
  Good => OffStopsTheDevice
<1> SUFFICES ASSUME Good, Calm, ~crossed PROVE cam.live \subseteq {cam.handle}
  BY DEF OffStopsTheDevice
<1>1. Device(cam, proc["op"], proc["restore"]) /\ switch.pc = "idle"
  BY AtRest DEF CamGood
<1> QED BY <1>1 DEF Device

LEMMA AlwaysStrong ==
  Spec => []Strong
BY InitStrong, NextStrong, PTL DEF Spec

\* Every variable of the camera keeps its type, a camera that was on is published again
\* by the next connection (startWebRTC), and a click that meets an operation of
\* requestCameraState is not forgotten: the camera ends as it was asked last.
THEOREM CameraCorrect ==
  Spec => []CameraInv
<1>1. Strong => CameraInv
  BY GoodTyped, GoodComesBack, GoodLastWord DEF Strong, CameraInv
<1> QED BY <1>1, AlwaysStrong, PTL

\* When nothing is under way, a track that leaves is one that the button shows and that
\* the last media_state announced: setVideoSending, enableCameraOnce and
\* replaceLocalDevice enable tracks, setLocalMediaControls and sendMediaState tell of them.
THEOREM CameraNothingSentUnseen ==
  Spec => []NothingSentUnseen
<1>1. Strong => NothingSentUnseen
  BY GoodNothingUnseen DEF Strong
<1> QED BY <1>1, AlwaysStrong, PTL

\* When nothing is under way no device runs but the one that the handle names, which is
\* the one that the next disableCamera stops: no capture is lost on the way.
THEOREM CameraOffStopsTheDevice ==
  Spec => []OffStopsTheDevice
<1>1. Strong => OffStopsTheDevice
  BY GoodOff DEF Strong
<1> QED BY <1>1, AlwaysStrong, PTL
=============================================================================
