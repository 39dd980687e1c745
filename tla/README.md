# SlowMeet in TLA+

SlowMeet is a self-hosted meeting server: one Go process that signals over
WebSockets, forwards media as an SFU, and serves a browser client. This
directory holds TLA+ models of it, TLC runs on small instances, and TLAPS proofs.

## The system

| Part | Source | State it keeps | Operations | Modelled in |
|---|---|---|---|---|
| Meeting membership | `internal/meeting/meeting.go` | participants, capacity, queue of raised hands | Join, Leave, SetRaisedHand, SetMaxParticipants | `Meeting` |
| Hub: sessions | `internal/signaling/hub.go`, `admission.go` | clients, members, active tokens, pending reconnects with timers | connect, join, reclaim, admit, announce, disconnect, grace expiry, Close | `Sessions`, `Tenancy` |
| Hub: screen sharing | `hub.go:473-560`, `BroadcastConfig` | the lease (`screenSharer`) | request, release, revoke, publish the track | `ScreenShare` |
| Hub: hands | `hub.go:848-871`, tiles of `web/js/app.js` | the client's copy of its record; the tiles | raise, lower, replay, resume, take over | `RaisedHands` |
| Hub: chat | `hub.go:265-370, 883-895` | retained history and its expiry timer | send, replay, clear, expire | `ChatHistory` |
| Hub and browser: negotiation | `hub.go:1022-1235`, `renegotiation-queue.js`, `app.js` | signaling state, held candidates, queued requests, watchdog | offer, answer, rollback, candidates, restart | `Negotiation` |
| Browser: call | `app.js` | socket generation, peer, timers, entry state | join, lose, reconnect, start media, restart, leave | `Call` |
| Browser: camera | `app.js` | requested state, capture handles, sender, suspension | enable, disable, restore, switch, suspend | `Camera` |
| Browser: screen | `app.js`, `screen-share-adaptation.js` | the share, its request, sender and budget | start, stop, sample, update | `LocalScreen`, `ScreenAdaptation` |
| Browser: microphone | `app.js` | track, button, push-to-talk | capture, toggle, hold, switch | `Microphone` |
| Browser: people | `app.js` | tiles' labels, hand badges, people list, reactions | one handler per message | `People` |
| Browser: stage and grid | `app.js`, `meeting-layout.js`, `adaptation-policy.js` | tiles, pages, pins, expanded tile, subscriptions, columns | join, leave, pin, hide, expand, page, resize | `Stage`, `Layout` |
| Browser: adaptation | `app.js`, `adaptation-policy.js` | levels, sample counters, suspension, chip | the loop of one second, mode changes | `Adaptation` |
| Browser: remote media | `app.js`, `remote-*.js` | tile, picture, screen, speakers | tracks and messages in any order | `RemoteMedia` |
| Browser: chat page | `app.js`, `chat-history.js` | lines, tracker, badge, hint, panels | receive, replay, open, close, scroll | `ChatPage` |
| Browser: lobby | `app.js` | roster request, polling, device test | type, poll, test, join | `Lobby` |
| Browser and server: admin | `admin.js`, `server.go`, `store.go` | form, summary, requests under way; the store | load, save, refresh; update, publish | `AdminPage` |
| Media router | `internal/media/router.go` | peers, publications, targets, layers, retries | register, publish, subscribe, unregister; forward, keyframes | `Router`: who is forwarded what, by which sender |
| Rate limiter, metrics, protocol | `internal/ratelimit`, `internal/metrics`, `protocol.go` | buckets, counters, none | | no |

How they interact. Each WebSocket has one goroutine that reads messages and calls
the hub, and one that drains its bounded FIFO outbound queue. The hub's tables
are guarded by `Hub.mu`; the meeting, the configuration store and the router have
locks of their own, and the hub calls them both inside and outside its own lock.
Timers (`time.AfterFunc`) and Pion callbacks (`OnTrack`, ICE state) enter the hub
from other goroutines; the admin handler enters through `BroadcastConfig`. The
browser is one event loop: everything between two awaits is atomic, and any
handler, timer or click may come at an await. It sees one ordered stream of
messages per connection, and starts from an empty view after a reconnect
(`app.js:3636-3712`).

What is hard. In the hub almost every handler takes `Hub.mu` more than once and
broadcasts after it has let go, so departures, resumptions, takeovers, timers, the
operator and the shutdown interleave between those sections. In the browser the
long operations (starting media, turning the camera on, sharing the screen,
switching a device, one round of the quality loop) await several times, and
after each await have to notice that the connection was replaced, that the user
has changed their mind, or that another operation holds the same handles. What is
displayed is derived state that each handler refreshes by hand.
`PROJECT.json` lists these hazards line by line, with the properties that cover
them.

## Modules

| Module | What it is |
|---|---|
| `Meeting` | the membership table; one action per method, all of them one critical section |
| `Tenancy` | the abstract contract of meeting slots |
| `Sessions` | connections, tokens, slots, timers, shutdown, and what members are told; implements `Tenancy` |
| `RaisedHands` | `Meeting` composed with the handler, resumption and the browser tiles |
| `ScreenShare` | the lease, the router calls, the broadcasts, the operator |
| `Router` | publications, targets, senders and subscriptions of the media router |
| `HubFeatures` | `RaisedHands`, `ScreenShare` and `Router` in one server |
| `ChatHistory` | recording, replay, clearing and expiry of room chat |
| `Selection` | the elements of a sequence that lie in a set, in their order (`filter`), as a recursive function: the provers know nothing of the standard `SelectSeq` |
| `ChatPage` | `ChatHistory` composed with the page of one of its members |
| `Stage` | tiles, pages, pins, the expanded tile, camera subscriptions |
| `MeetingPage` | `ChatPage` and `Stage` on one page |
| `Negotiation` | offer and answer between one browser and the hub, with the renegotiation queue |
| `Call` | the life of a call: generations, timers, configuration requests, media start |
| `Camera` | the four tasks that share the camera |
| `LocalScreen` | sharing the local screen, with the hub's lease as its peer |
| `ScreenAdaptation` | the bitrate control of a shared screen |
| `Microphone` | capture, button, keys, device switch |
| `People` | labels, badges, list and reactions |
| `Layout` | the choice of the grid and its animation-frame loop |
| `MeetingControls` | the five before, on one page |
| `Adaptation` | the quality loop |
| `RemoteMedia` | the media of one observed participant |
| `MediaState` | the two before, on one page |
| `AdminPage` | the operator's page with the handler of `/admin/config` and the store |
| `Lobby` | the page before the meeting |
| `Pages` | a tab that shows one of the two |
| `SessionsProofs` | TLAPS proofs about `Sessions`: tokens and who acts; slots, the refinement of `Tenancy`, who sees whom |
| `HubFeaturesProofs` | about `Meeting`, `RaisedHands`, `ScreenShare`, `Router` and their composition |
| `MeetingPageProofs` | about `ChatHistory`, `ChatPage`, `Stage` and their composition |
| `NegotiationProofs`, `CallProofs` | about the module they are named after |
| `ControlsProofs` | about `LocalScreen`, `ScreenAdaptation`, `Microphone`, `People`, `Layout` and their composition |
| `MediaProofs` | about `Adaptation`, `RemoteMedia` and their composition |
| `PagesAndCameraProofs` | about `AdminPage`, `Lobby` and their composition, and about `Camera` |
| `MC*` | instances for TLC: symmetry sets and sets of records only; constants are in the `.cfg` files |

How state and actions correspond to the code. In the hub a critical section is one
action; a call made between two critical sections is one action; a program counter
(`pc[c]`, `step[p]`) says which comes next, so every interleaving that the locks
allow is a behaviour. In the browser a task of the event loop, with its
microtasks, is one action; an await is a value of a program counter, and the
checks after it are the guard or the branch of the next action. Variables carry the
source's name where there is one (`activeTokens` is `active`, `screenSharer` is
`sharer`, `cameraRequested` is `cam.requested`). A definition called "Mutant of X"
in its comment is X with a plausible bug; nothing uses it in the specification:
it is what a property has been tried on. `PROJECT.json` maps every definition to
the lines it models.

The compositions `HubFeatures`, `MeetingPage`, `MeetingControls`, `MediaState` and
`Pages` put parts side by side that share a program and little state. Where parts
do not touch each other, a variable (`way`, `tab`) chooses at the start which of
them moves in a behaviour, so that the run explores the sum of their state spaces
instead of the product; properties then speak of each part. What the parts share in
the code and in the model (the room and the page of one member; the hub's lease
and the browser's share) is inside the component modules.

Abstractions, per module:

- `Sessions`: an identifier stands for a participant and its token, which are
  created together and never reused. Messages are reduced to who is known to be
  present. The outbound queue (512 messages) never overflows, so admission fails
  only because the hub is closed or the join deadline has passed; a connection
  that is closed for any reason ends through `LoopExit`. `ReconnectTimeout` is
  positive or zero (`GraceChoices`); a run that allows both chooses at each
  departure, which covers either deployment. `CloseHub` stops timers in its
  critical section; the comment there says why this is the same.
- `ScreenShare`: a member stands for its connection of the moment; that
  connections of one participant do not overlap is `OneActingSession` of
  `Sessions`. A publication is absent, live or paused.
- `Router`: simulcast layers are publications of the role `camera`, and audio is
  forwarded like a screen. A publication is queued for its own source as well and
  rejected after `AddTrack`; that detour is left out, and so is a track that Pion
  delivers after its participant was unregistered. Senders are followed on the
  registered connection only: another one is closed, or about to be. An offer is
  one step; that it is answered or repeated is in `Negotiation`.
- `RaisedHands`: `Drop` stands for `disconnect` up to the grace entry (its races
  are in `Sessions`). The map iteration order of the roster replay is any order.
- `ChatHistory`: one room, as in the code (`chatRoomID`). Each message is sent
  once. The half hour of the expiry timer has no length, except that two
  callbacks do not overlap.
- `ChatPage`: a line is its message; the limit of 300 lines, focus and titles are
  left out. `RetriesEarly` allows Retry before the reconnect timer.
- `Negotiation`: a description is the number of the offer or the offer it
  answers; a candidate is the number of the description whose credentials it
  carries. Each side's peer connection is external (`faults`): the browser's may
  fail to create or to set its offer, to roll it back, to set the hub's offer, to
  answer it or to take the hub's answer; the hub's may refuse an offer or an
  answer, or a candidate it held back for one, or fail to answer; once something
  failed, its `CreateOffer` may fail, too.
- `Call`: a generation stands for socket, peer and microphone made under it. The
  delays of the timers have no length; the counters of attempts have the source's
  comparisons with smaller bounds.
- `Camera`, `LocalScreen`, `Microphone`: a capture is a number, live or stopped;
  the picker and `getUserMedia` grant or refuse when they like; a call on a closed
  peer is rejected at once. Layers and encodings of the camera are one record.
- `ScreenAdaptation`: bits and frame rates are small integers, scales quarters.
- `People`, `Stage`: text is a function of the fields it is made from; what is
  measured (sizes, positions) is left out.
- `Layout`: lengths in units of the gap, widths as exact fractions. The filmstrip
  of the pinned mode, and a call without a preferred number of columns, are left out.
- `Adaptation`: a sample is one of five classes instead of a dozen measurements;
  counters stop at the thresholds they are compared with.
- `RemoteMedia`: one participant is observed; of the others, only that one of
  them may share a screen or speak.
- `LocalScreen`: whatever makes `setVideoSending` suspend video or resume it (the
  quality loop, "Protect audio", the camera's quality) is one action.
- `Lobby`: the list of members is one value.
- `AdminPage`: the settings are two values, the connection methods and the rest,
  which is what the public `/config` tells (server.go:91-102); the form starts with
  what `admin.html` has in it.
- `Lobby`: with `TestsLate` a device test may be started while the page is joining.

## Runs

Every run checks all interleavings of its instance. The invariants named `...Inv`
are the conjunction of a module's type invariant and its smaller properties, which
are named and explained where they are defined.

| Run | Instance | What it shows |
|---|---|---|
| `sessions` | 3 connections, 2 participants, faults and shutdown | one acting session per participant; slots neither leak nor are freed under a live session, whose peer is registered; who is in the room has been shown to all in it; `Tenancy` is implemented |
| `sessions_live` | 3 connections, 1 participant, fair | resumptions complete, windows end, shutdown empties the meeting |
| `features` | 2 participants, 1 operator; 2 participants, one of them sends, 2 tracks and 5 senders at a time, 1 return | hands, records and queue agree and no hand is hidden; the lease dies with its connection, and until the first revocation no old owner stays on a screen and a holder's track is forwarded; once the router's calls are over it forwards to whom it should, by one sender each, and what a page has asked for flows |
| `meeting_page` | 2 members with 2 messages and a history of 1; 4 people on pages of 1 | exactly once, replay or live; the badge and the panels; the subscription sent last is for what is shown, pins and the expanded tile are displayed |
| `negotiation` | 2 requests, 1 track change, 1 failure of a description on either side, a loss; two of a restart, a candidate of the browser and one of the hub, or one after the failure | answers are to the outstanding offer, candidates are not early as long as nothing fails, a promise kept means the hub knows, and every request settles, whatever fails |
| `call` | 2 reconnection attempts before "Offline", 1 ICE restart, 2 attempts to connect that fail, 2 other troubles (a lost call, whose attempts then fail up to "Offline", leaves one more), 2 clicks or messages, 1 retry, which may leave a stray timer | nobody is dialled after leaving, no peer or microphone leaks, what is lost is scheduled, and neither call nor form is stuck |
| `camera` | 5 captures, 3 acts of the user or the adaptation, 1 loss, 1 failure | the last word wins, what is sent is announced, what is off is stopped |
| `controls` | 2 shares, 1 loss, 3 troubles or suspensions of video; 3 budgets; 2 connections with 2 device switches; 2 others; 15 sizes and 4 tiles | the lease matches the share, captures stop, the floor is learned and kept, the microphone's button is true, labels and badges are current, the grid settles near the best |
| `media` | 2 changes, 1 loss; 2 tracks of four roles and 4 messages | the loop pauses only for a cause and recovers; the right tracks are seen whatever the order |
| `pages` | settings of two parts that both differ from the form's first values, which cannot be saved before the public policy has arrived; edits, others' saves, lost answers and saves that cannot be written | what was filled in follows the store, a late roster never comes back, the buttons do |

Why the bounds are enough. Three connections make a chain of two takeovers, one in
the middle. A history of one with two messages reaches its limit. Two members can
succeed each other as owners of the lease; that more of them change nothing is
proved. Two tracks replace each other while a subscription, an unregistration and
a resume go on, and five senders are enough for what two calls may have under way;
for the router, too, the proofs cover any number. Pages of one tile with four people have a first, a middle and a last
page. Each browser run admits at least one overlap of two operations and one
connection loss at every await. Every mutant in `PROJECT.json` is found with
exactly these instances. Symmetry is declared for sets whose members the code
does not distinguish, and never in a run with liveness.

Runs that end in a violation are where the code does not do what a document, page,
comment or test of the repository says; `findings` in `PROJECT.json` quotes it.

| Run | What happens |
|---|---|
| `sessions_ghost` | a member admitted while another one disconnects is shown it for ever |
| `microphone_back` | a microphone that was on when the connection was lost is off on the next one, untouched: the button from which its state is restored was reset with the old connection |

### What does not hold

These definitions state what one might expect and are false of the code; they are
kept, with the constants that show it, for whoever changes it. None is a
property of a run.

| Definition | What happens | With |
|---|---|---|
| `Sessions!HeldSlotIsReclaimable` | a resume between two critical sections of `disconnect` (hub.go:380) becomes a new join | `MCSessions.cfg` |
| `ScreenShare!EveryoneSeesOwner` | a release announced after the next grant hides the owner (hub.go:524) | 3 members, no operator |
| `ScreenShare!NoShareWhileDisabled` | a request checked before the operator's switch is granted after it (hub.go:490) | 1 operator |
| `Router!MediaKeepsFlowing` | a resume in the grace window leaves the targets with senders of the old connection (router.go:813-816); the cleanup of a takeover deletes the participant from what the others have subscribed to (router.go:319-321), and their pages do not send it again (app.js:5017, though test-four-person-e2e.js:905-906 expects the media back) | as in `features` |
| `RaisedHands!NoPhantomHand` | the broadcasts of two handlers leave a hand shown that is down (hub.go:858) | `MCHubFeatures.cfg` |
| `ChatHistory!EmptyRoomForgets` | a failed join stops the history's expiry for good (hub.go:942) | joins may fail, fair |
| `Call!NeverDuplicated` | Retry leaves the old peer and microphone open, and the lines of the chat, which the replay repeats (app.js:1603) | `MaxActs = 3`, `MaxRetries = 1` |
| `Camera!OneCameraSender` | a connection may get two camera senders (app.js:3970, against the comment at 2549) | `MCCamera.cfg` |
| `LocalScreen!CameraComesBack` | a share that fails does not give the camera back: the request is ignored while the start is under way (app.js:5311, 2643) | as in `controls` |
| `Stage!PageIsDisplayed` | turning a page does not render it (app.js:875) | as in `meeting_page` |
| `AdminPage!SaveKeepsMethods` | the public policy does not tell the connection methods, so until the settings are loaded with the password their boxes are checked as in admin.html:166-169, and a save enables them all again (server.go:91-102, admin.js:210, 223-227) | `MCPages.cfg` |
| `Lobby!TestEndsOnJoin` | a device test that is started while the page is joining goes on in the meeting (app.js:2383) | `TestsLate = TRUE` |

Some properties of the browser carry a condition, because a race of two operations
breaks them; the condition is a history variable, set where the race happens and
explained there, so that everything else is still checked:

- `Camera`, `crossed`: a device switch that overlaps turning the camera on or off
  may leave a capture running (app.js:2257), and so may a rejected `replaceTrack`;
  Protect audio toggled quickly during an enable leaves an announced but inactive
  encoding.
- `Camera`, `meddled`: "Protect audio" saves `cameraRequested` in
  `cameraBeforeAudioOnly` and nothing ever clears that (app.js:1636, 1642). If an
  operation is under way meanwhile, or the quality "off" turns the camera off under
  "Protect audio", ending it sets `cameraRequested` without a capture: the camera is
  wanted and not there, and the button does nothing, because the loop of
  `requestCameraState` finds what it is asked for (app.js:2655). It takes five acts,
  two more than the run has; the proof found it.
- `LocalScreen`, `cut` and `late`: a connection lost while a share is stopped
  leaves a capture; a late grant is taken for that of the next request.
- `Microphone`, `crossed`: of two overlapping switches the second may end disabled
  while it is sent. There is also a window between `replaceTrack` and its
  continuation in which a muted user's new microphone is live (app.js:2257-2279),
  which `MutedIsSilent` excludes by name, as it does a switch whose offer is not
  answered, until the connection is reset; and Space released after a
  reconnection or an M turns the microphone on.
- `Sessions`, `NoFailedAdmission`: a session that is taken over before its admission
  failed was never announced, and the one that takes it over is not either.
- `Router`, `MediaFlows`: not for who resumes in the grace window, nor for the
  camera of who is taken over (see `MediaKeepsFlowing` above). What the router
  holds is exact in these cases, too; it is not what the page asked for.
- `RaisedHands`: a hand kept through a lost connection stays up in the table while
  its tile is gone (`"drop"` in `NoHiddenHand`), and a takeover may copy an older
  record (`"takeover"` in `CopyKnowsHand`). `MCHubFeatures.cfg` lets either kind
  of departure happen, together with leaving.
- `ScreenShare`, `revoked`: the operator's revocation announces and pauses after the
  lock, so a later grant may be hidden or left paused (hub.go:225). `HolderIsForwarded`
  says nothing of that case.
- `Call`: what retries leak (`retries = 0` in `NothingLeaks`). A Retry also loses
  sight of a reconnect timer that is armed already: it dials a second time, and
  calls back who has left (`retries = 0` in `LeavingIsFinal`). When that call is lost
  nobody reconnects it or says so, because `intentionalClose` is still set from the
  leaving (app.js:3608, `~intentional` in `CallSettles`).
- `Stage`, `late`: a pin made within 1.2 s after its participant left outlives the tile.
- `People`, `departed`: `participant_left` renumbers the hands without refreshing
  their badges (app.js:3575).
- `Adaptation`, `stale`: a profile decided while the camera opens (app.js:2595).
- `RemoteMedia`, `mixed`: the track of the other's share that is offered only after
  this participant became the owner is taken for this participant's (app.js:2763), and
  hides its screen until a track of its own arrives, also through later changes of the
  owner: the entry of `remoteScreenTracks` is kept when the share ends (app.js:3413).
- `ChatPage`, `unnoticed`: messages of the tick in which the chat closes. With a Retry
  pressed before the timer (`RetriesEarly`) the replay is shown and counted again, so
  the exact count of the badge, like `RailShowsFeed`, is stated without one.
- `Lobby`, `lapsed`: the roster is not polled again if the configuration request
  of a shown tab fails (app.js:3337).

### Fairness

`Sessions!Fairness`, `ChatHistory!Fairness` and those of the browser's modules are
weak fairness of the steps that a running process takes by itself: a goroutine or
a continuation that can go on does, an armed timer fires, a request is answered or
fails, a message on an open connection arrives. Nobody has to connect, click,
share, send or leave, and no failure has to happen. `Recovers` assumes, in its
premise, that the network is good from some time on. `Idle` actions let a
behaviour end when its supply of connections or clicks is used up, so that the
deadlock check stays on where a run does not say `CHECK_DEADLOCK FALSE`; a run
says so where users may simply stop.

## Proofs

`tlapm` proves the theorems listed in `PROJECT.json`, for every value of the
constants that satisfies the named assumptions of the modules: `LimitsAssumption`,
`SessionAssumptions`, `NoneIsNobody`, `PublishersTakePart`, `ChatAssumptions`,
`PageAssumptions`, `StageAssumptions`, `NegotiationAssumptions`, `CallAssumptions`,
`LocalScreenAssumptions`, `ScreenAdaptationAssumptions`, `LayoutAssumptions`,
`PeopleAssumptions`, `MicrophoneAssumptions`, `AdaptationAssumptions`,
`RemoteMediaAssumptions`, `CameraAssumptions`, `AdminAssumptions` and `LobbyAssumptions`. They say that `None` is no connection and
no participant, that who sends media, or whose page is looked at, takes part, that
bounds are natural numbers, that a page of the grid has room for a tile, that a budget
is positive, that a scale starts at one, that the remote participants are finitely many
and the local one is none of them, that a camera is received with layers or without, that switches are Boolean, and that what may be stored, or stands in the form at
first, is a setting. The sets of connections, participants, members,
messages, operators and settings are arbitrary, and so are the bounds on
reconnections, restarts, troubles, clicks, tracks, candidates, captures, shares, device
switches and sizes.

| Module | Theorems | Argument |
|---|---|---|
| `SessionsProofs` | `SessionsTypeOK`, `OneSessionActs` | see below |
| | `SlotsAreKept`, `HubImplementsTenancy`, `MembersSeeEachOther` | see below |
| `HubFeaturesProofs` | `MeetingTypeOK`, `HandsAndQueueAgree`, `HandsAreServedInOrder` | lemmas about a queue without duplicates: where an element is after another was removed or appended |
| | `HandsUseTheTable`, `HandsTypeCorrect`, `CopyKnowsHandAlways`, `NoHandIsHidden` | see below |
| | `ScreenShareTypeOK`, `LeaseEndsWithConnection`, `NoOldOwnerStays`, `HolderStaysForwarded` | the lease invariant is inductive as it stands; the other two follow from `OwnerInv`, which relates, until the first revocation, what every goroutine still has to announce or to tell the router to the lease and to what is shown |
| | `FeaturesAgree` | a behaviour of the composition is one of each part (`FeaturesAreSeparate`) |
| | `RouterTypeCorrect`, `RouterIsExactAlways`, `MediaFlowsAlways` | see below |
| `MeetingPageProofs` | `ChatHistoryTypeOK`, `RetainedMessagesArrive`, `NoMessageTwice` | replay and admission are one critical section, so are recording and fan-out; a message that has not been sent is in no feed |
| | `ReplayIsTheEnd`, `PageIsInTheRoom`, `PageIsTrue` | see below |
| | `ThePageIsTrue`, `SubscriptionsAreRight`, `NoLineTwice` | see below |
| `NegotiationProofs` | `NegotiationInvHolds`, `PeersStayInStep`, `PromisesAreKept` | see below |
| `CallProofs` | `CallInvHolds`, `NothingEverLeaks` | see below |
| `ControlsProofs` | `PartsAreImplemented` | a step of the page is a step of one part and a stutter of the others (`StepsOfParts`) |
| | `ScreenIsSafe`, `AdaptIsSafe`, `MicrophoneIsTrue`, `PeopleAreShown`, `GridIsSound` | one inductive invariant per part, see below |
| | `ControlsAreSafe`, `LeaseIsMatched`, `CapturesAreStopped`, `ButtonTellsTruth`, `ControlsSettle` | from the two rows before: what is proved of a part holds on the page |
| `MediaProofs` | `MediaPartsAreImplemented` | the two parts share no variable (`MediaSteps`) |
| | `AdaptationIsSafe`, `RemoteMediaIsSafe` | one inductive invariant per part, see below |
| | `MediaIsSafe`, `ReceivedIsAlwaysShown`, `PausesHaveCause` | from the two rows before |
| `PagesAndCameraProofs` | `PagesKeepQuiet`, `FormFollowsStore`, `ListNeedsPassword` | `AdminInv`: requests that have not crossed are one at most, and its answer is what is stored, or of the public policy the part that it tells; handlers that were not overtaken publish what is stored. `LobbyInv`: the current request was sent with the password that is typed, only the right one is answered with the list, and nothing asks beyond the form |
| | `CameraCorrect`, `CameraNothingSentUnseen`, `CameraOffStopsTheDevice` | see below |

**One session acts.** That at most one connection acts for a participant is not
inductive: a connection that waits says nothing of its predecessor's predecessor.
`SessionInv` numbers the connections of a participant by their `turn`, an auxiliary
variable, and says that turns differ, that the token tables name the last connection
(`TablesNameLatest`), that all connections after one that still acts are waiting
(`LaterOnesWait`), and that a connection whose token is not bound yet is the only
one (`TokenIsUnbound`). Most actions leave all this alone (`Quiet`); the six others
have a lemma each.

**Slots.** `SlotInv` adds to it which steps of a connection keep a slot; that an
entry, or an active token, means that the slot is held; that whoever is about to
free a slot (a cleanup, a timer's callback, the shutdown) was the last connection
of its participant and that nobody can resume it any more; and that whoever lost its
token or its entry has a successor, or is being evicted. The last part is what
lets a superseded cleanup skip `Leave` without leaking the slot, and the one before
is what keeps a stale timer from freeing the slot of a live session. `CalmStep`
covers the actions that touch neither slots nor tables.

**Refinement.** The mapping takes the tenant of a slot to be the connection past its
join and before its cleanup, which is unique by `OneSessionActs`. `MoveStep` covers
the actions that take a slot or keep all of them (they map to `Reserve`, `MoveIn`, `MoveOut`
or a stutter), `FreeStep` those that free one (`GiveUp`).

**Visibility.** `Seen` says that whoever is in the room, or was and is being
taken over, is known to every other member. The announcement of a takeover is
left out in the code, so the fact has to survive the whole chain from the cleanup
of the old connection to the admission of the new one; `PathInv` says where in the
chain a takeover can be.

**Hands.** Handlers change the table under one lock, the client's record under
another, and broadcast after both, so what tiles show is old in many ways at once.
`HandsInv` says that what is still to be broadcast of a participant tells the truth
about its record (`TellsTruth`), that a record that its copy does not agree with has a
broadcast by its own handler to come (`CopyIsComing`), and, where no connection is
lost, that whoever was announced has a lasting tile in every browser of the room, and
a raised hand is shown there or in such a broadcast (`TilesOfMembers`). `HandsUseTheTable`
shows that the composition changes the table by `Meeting`'s own actions, so
what is proved of the table holds in it.

**Router.** A call decides under the lock, acts without it, and checks again before it
records a target. `RouterInv` says that every sender of a registered connection is held
exactly once, by a target or by a call that will install or remove it (`OneHolder`,
`NoneForgotten`); that whoever should be forwarded a publication and is not has a
subscription pending in some call (`WillBeServed`), which only its own goroutine can
take away; and that connections are numbered, so an operation that was decided for an
old one recognises it. `WishesKnown` relates what a page has asked for to what
the router recorded, for those who did not come back in the ways left out above.

**Chat page.** What is retained is a suffix of what was recorded: recording
lengthens both, trimming drops from the front, expiry and clearing leave the part
behind a point (`SuffixByElements` recognises a suffix without computing one). Every
step of the page is a step of the room or leaves the room alone (`PageStepIsRoomStep`), so the
page inherits what is proved of the room. `PageInv` says that the lines on display are
the member's feed, that they include the messages that came since the chat was last
open, and that the badge counts those, but the ones that went by unnoticed; before
admission there is nothing to count. `MarkCounts` says what one arrival does to the count.

**Stage.** Twenty-odd handlers call the same few refreshes (`paginate`, `render`,
`count`, `reconcile`) in different orders, and each refresh relies on facts that another
one establishes. The proof has one lemma for each refresh, which says what it
needs (`Kept`: at most two pins, none of them hidden; `OwnPin`), what it makes true
(`Paged`: the shown tiles are those of the page; `Asked`: the last subscription is
the right one for what is shown; `Drawn`, `Focused`, `Paired`) and which fields it
alters. A handler is right when the refreshes it ends with make all of them
true, whatever it did before; `Good` is their conjunction, and one lemma for each action
shows it. `StageInv` adds what holds outside of a meeting and, for a pin that
outlives its tile (`late`), the part that survives (`LateHolds`).

Induction over data is possible where it runs up to a number that is at hand: the
lemma that `Keep` exists for every prefix (`KeptExists`) argues with the least
length for which it fails (`LeastNumber`), which needs no theorem with an operator
parameter.

**Negotiation.** The two sides' signaling states say nothing by themselves: what
matters is which descriptions are on their way. While the connection is up, `Inv`
states that the hub ignores an offer while one of its own, or its answer to an earlier
one, is under way, so that an offer the browser rolled back is never applied; that an
answer is under way only while the offer it answers is outstanding, and arrives
before any later offer of the hub; that candidates come behind the description they
belong to (unless a description was rejected); and that the requests of the batch are
included in the offer that is outstanding, so the promises kept when it is answered
are about changes that the hub has applied. An answer that arrives is therefore never
a stray one: the branch of `TakeAnswer` for it is a precaution.

**Call.** The generation is the only thing that tells a late event from a current one,
so the invariant first has to bound how many there are (`Counted`): each is paid for by a
click, by trouble, or by something that one of these left behind and that is
counted in `Due` (a submission, a timer, a closing socket). `Requested` says that in
a meeting the latest request for the ICE configuration is one for the token that is
held, so a delayed public answer is outdated; `Started` that the start of the current
socket awaits exactly that one; `Owned` that the media is that of the current
generation, unless a retry skipped `resetMediaConnection`, or belongs to a start that
will find itself outdated after its next await.

**Local screen.** The page and the hub talk through two queues, and neither knows what is
on its way. `OwnerIsTold` reads the lease off the queue: the last state in it is the
lease, and without one the page shows the lease already. `OneAnswer` says that at most one request
is open, on its way up or as its answer on its way down, until a request is given up
unanswered: then its answer may be taken for that of the next one, and `late` is set.
`LeaseIsHeld` says that whoever holds the lease, or will once the hub has read the queue,
is starting, sharing or stopping; `GrantIsKept` that a share keeps its lease until the
operator takes it, of which the page is about to read. `CapturesAreHeld` accounts for every
capture: it is the one being shared, the one being stopped, or the one that a failed
start is undoing. `SenderIsRight` says what the sender carries, and that its encoding is
active for a finished share exactly if video is not suspended. A start fails, and a share is stopped, from many places; `CatchKeeps` and `StopKeeps`
prove what these have in common.

**Adaptation of the screen.** `setParameters` is asynchronous and its calls are answered in
order, so what the sender has is old while one is under way. `LastIsCurrent` says that the
last call carries what was decided last, `OneSample` that the loop has one of them at
most; when the queue is empty the last answer is what is applied, unless it was refused.

**Grid.** Candidates are ranked by a score that prefers the columns chosen before. That a choice
repeats itself is arithmetic: what was the best without being preferred, or by being preferred,
is still the best when it is (`GridInv`); `ArgMax` gives the best of finitely many.

**People.** The list is rebuilt only when its signature changes. `ListIsBuilt` says that the rows
and the signature are of the same state, and `ListStays` that equal signatures mean equal
rows. Badges are a function of the queue of hands, in which equal orders are settled by the place
in the room: `NormalizedKeeps` and the lemmas about `Keep` say what a departure does to it.

**Microphone.** `replaceLocalDevice` awaits several times, and at each await the same track may be
in the stream, in a sender, in both or in neither. `MutedInv` says that only the first track of
the stream is enabled, and then the button shows it, or a call is still placing it
(`OnIsShown`); that what is sent is in the stream or was just swapped in (`SentIsHeld`);
and that what a call of an earlier connection captured is in neither (`StaleAreOut`). The
attempt to prove `MutedIsSilent` without an exception failed on a call whose offer is not
answered: its device is sent, and the button may be released before the connection is
reset; the property now names that case, which one refused capture more than the run had
allowed for would have shown (`MaxRefusals`). `HeardInv` adds, until two switches or a switch
and a reset cross, that one call runs alone (`OneRuns`), that it knows the track it replaces
(`RunIsRight`), and that every live track is held or being placed (`LiveIsHeld`).

**Quality loop.** A tick awaits twice, and a call of `applyProfile` once more, while the mode, the
limit, the camera and the connection change. `LastIsResolved` says that whoever changes what the
profile depends on also queues a call with what it resolves to now, so the last call in the
queue is always current and nothing is stale when the queue is empty; `OneIsTheLoops` that at
most one of the calls is the loop's, and then the loop waits for it; `Counted` that the
counters of critical and good samples are no higher than what was counted on this connection
(`seen`, `calm`), which makes a pause after a reconnection one with a cause of its own.

**Received media.** The messages about the lease and the offers with the tracks cross. `InOrder`
says that tracks arrive in the order in which they were published and that of the screens
of the participant at most the last is one that the server still has; `ScreenIsKept`
that the entry of `remoteScreenTracks` is that one as long as it lives, also while the other shares,
so that it is bound again when the participant is the owner once more; `Bound` that an element
shows only what arrived and did not end, and `Gone` that nothing is current of who is not
there. Whoever has no tile or no analyzer is not an active speaker and is not about to
become one (`PIsSilent`). The attempt to prove `ScreenIsShown` with an exception that ended
at the next change of the owner failed: the entry outlives that change (see `mixed` above).

**Camera.** The invariant (`Strong`) is about the moments between two awaits of the four tasks,
and most steps run through several functions of `requestCameraState` between two of them. So
it is a predicate on a camera and on where the tasks are (`CamGood`), and each function has a
lemma that takes a camera for which it holds to another one; a turn of the loop, which is at
no await, is a place of its own (`Turn`). It comes in layers, because the exceptions do: what
holds always is what is known of the calls of `setVideoSending` that wait, the last of which agrees
with `videoSuspended` (`SendsInv`), and of the target (`TargetInv`). Until two tasks cross, one
is under way (`OneTask`), the only captures that run are that of the handle and that which
a switch is about to adopt (`Device`), and a track that is enabled is wanted and
announced (`Shown`). Unless "Protect audio" meets an operation, each await also says what
is wanted (`Wished`), and as long as nothing fails, what is wanted is published when the tasks are
over (`Succeeds`). That there is a sender to add (`Supply`) is a count of the senders that are taken and
of the calls that are about to take one. The attempt to prove `LastWordWins` without an exception
for "Protect audio" failed on the button that does nothing (see `meddled` above).

Only model-checked: liveness (`ResumeCompletes`, `SlotsAreFreed`,
`NegotiationSettles`, `NobodyIsStuck`, `RequestsAnswered`, `FloorIsReached`,
`Recovers`, `PagesSettle`), which needs fairness and ENABLED. Every safety property that
a run checks is also proved.

## Not modelled

- **Router: layers.** Which simulcast layer of a camera is forwarded to a receiver
  (`selectedCameraLayerLocked`) depends on packets and time; only that a layer comes
  and goes like any other publication is in `Router`.
- **Router: packet path.** RTP rewriting, frame assembly, keyframe retries and the
  bounded packet queues work on bytes and timestamps, one packet at a time.
- **WebRTC peer.** A wrapper around Pion, which is external: what it accepts and
  rejects is the environment of `Negotiation`. The server's own timer for a failed
  ICE connection is left out; it ends in the same cleanup as any other loss.
- **Outbound queue.** Bounded by 512 messages; it never fills in the models. An
  overflow closes the socket, which is the loss of a connection.
- **Cap on unauthenticated sockets, password limiter, rate limiter.** Sequential
  counters and token buckets in real time, with unit tests of their own.
- **Signaling protocol.** Validation and encoding of a single message, without state.
- **Configuration file.** A temporary file, sync and rename before the memory
  changes: a crash leaves the old or the new file whole, by what the file system
  promises. That concurrent updates are ordered is in `AdminPage`.
- **Metrics, static pages, headers, health checks.** Counters and I/O.
- **Browser.** The filmstrip of the pinned mode, the warning to who speaks while
  muted, validation of forms, rendering, styling and focus.
- **Deployment and test scripts.** Not part of the running service.
