---------------------------- MODULE ChatHistory ----------------------------
(***************************************************************************)
(* Room chat in internal/signaling/hub.go: the fan-out to the members, the *)
(* retained history that is replayed to whoever is admitted, its clearing  *)
(* when the operator turns retention off, and its expiry once the meeting  *)
(* is empty.                                                               *)
(*                                                                         *)
(* Recording and fan-out are one critical section of Hub.mu, so is the     *)
(* replay with the admission.  What surrounds them is not: the setting is  *)
(* read before the lock, Meeting.Count has a lock of its own, and joins,   *)
(* departures, the expiry callback and an admin request interleave.        *)
(*                                                                         *)
(* Bounds: every message is sent at most once, at most one expiry callback *)
(* runs at a time (its period is half an hour), and one admin request.     *)
(***************************************************************************)
EXTENDS Naturals, Sequences, FiniteSets, SequencesExt

CONSTANTS Members, Messages,
          NoMessage,         \* not a message
          Limit,             \* chatHistoryLimit
          JoinsMayFail,      \* may a join fail after it took its slot?
          RetentionChanges   \* may the operator change RetainChatHistory?

ASSUME ChatAssumptions ==
  /\ Limit \in Nat \ {0}
  /\ NoMessage \notin Messages
  /\ JoinsMayFail \in BOOLEAN /\ RetentionChanges \in BOOLEAN

VARIABLES
  step,      \* next step of each member's goroutine
  message,   \* the chat message each goroutine is handling, if any
  keep,      \* whether it has made a history entry for it
  history,   \* Hub.chatHistory, the messages of the one room
  expiry,    \* the history's expiry timer: "none", "armed" or "fired"
  callback,  \* next step of the timer's callback
  retain,    \* RetainChatHistory in the configuration store
  admin,     \* next step of the admin request
  unsent,    \* messages nobody has sent yet
  feed,      \* the messages each member's browser shows, in order
  log        \* history variable: the messages retained so far, in order

chatVars == <<history, feed, log>>
expiryVars == <<expiry, callback>>
adminVars == <<retain, admin>>
vars == <<step, message, keep, unsent, chatVars, expiryVars, adminVars>>

Steps == {"out", "slot", "join", "in", "send", "leave", "schedule", "arm"}

Room == {p \in Members : step[p] \in {"in", "send"}}

\* Those whom Meeting.Count counts.
Present == {p \in Members : step[p] \in {"slot", "join", "in", "send", "leave"}}

Init ==
  /\ step = [p \in Members |-> "out"]
  /\ message = [p \in Members |-> NoMessage]
  /\ keep = [p \in Members |-> FALSE]
  /\ history = <<>>
  /\ expiry = "none"
  /\ callback = "idle"
  /\ retain = TRUE
  /\ admin = "idle"
  /\ unsent = Messages
  /\ feed = [p \in Members |-> <<>>]
  /\ log = <<>>

Goto(p, s) == step' = [step EXCEPT ![p] = s]

\* The chat message has been handled; back to the read loop.
Done(p) ==
  /\ message' = [message EXCEPT ![p] = NoMessage]
  /\ keep' = [keep EXCEPT ![p] = FALSE]
  /\ Goto(p, "in")

----------------------------------------------------------------------------
(* Joining.                                                                *)

TakeSlot(p) ==
  /\ step[p] = "out"
  /\ Goto(p, "slot")
  /\ UNCHANGED <<message, keep, unsent, chatVars, expiryVars, adminVars>>

\* cancelChatHistoryExpiry; a timer that fired is not called back.
CancelExpiry(p) ==
  /\ step[p] = "slot"
  /\ expiry' = "none"
  /\ Goto(p, "join")
  /\ UNCHANGED <<message, keep, unsent, chatVars, callback, adminVars>>

\* Mutant of Admit: the replay is what was retained before the admission.
AdmitLate(p) ==
  /\ step[p] = "join"
  /\ feed' = [feed EXCEPT ![p] = IF Len(history) = 0 THEN <<>> ELSE Front(history)]
  /\ Goto(p, "in")
  /\ UNCHANGED <<message, keep, unsent, history, log, expiryVars, adminVars>>

\* admit: room membership and replay in one critical section; the browser
\* starts from an empty chat.
Admit(p) ==
  /\ step[p] = "join"
  /\ feed' = [feed EXCEPT ![p] = history]
  /\ Goto(p, "in")
  /\ UNCHANGED <<message, keep, unsent, history, log, expiryVars, adminVars>>

\* A join that fails now was never announced: removeClientParticipant frees
\* the slot and does nothing else.
FailJoin(p) ==
  /\ JoinsMayFail
  /\ step[p] = "join"
  /\ Goto(p, "out")
  /\ UNCHANGED <<message, keep, unsent, chatVars, expiryVars, adminVars>>

----------------------------------------------------------------------------
(* Sending.                                                                *)

\* The sender's browser shows its own message; the handler reads the setting.
Send(p, m) ==
  /\ step[p] = "in"
  /\ m \in unsent
  /\ unsent' = unsent \ {m}
  /\ message' = [message EXCEPT ![p] = m]
  /\ keep' = [keep EXCEPT ![p] = retain]
  /\ feed' = [feed EXCEPT ![p] = Append(@, m)]
  /\ Goto(p, "send")
  /\ UNCHANGED <<history, log, expiryVars, adminVars>>

\* The last Limit entries.
Trimmed(entries) ==
  IF Len(entries) > Limit THEN SubSeq(entries, Len(entries) - Limit + 1, Len(entries)) ELSE entries

\* Mutant of Record: everyone gets the broadcast, the sender too.
RecordAndEcho(p) ==
  /\ step[p] = "send"
  /\ history' = IF keep[p] THEN Trimmed(Append(history, message[p])) ELSE history
  /\ expiry' = IF keep[p] THEN "none" ELSE expiry
  /\ feed' = [q \in Members |-> IF q \in Room THEN Append(feed[q], message[p]) ELSE feed[q]]
  /\ log' = IF keep[p] THEN Append(log, message[p]) ELSE log
  /\ Done(p)
  /\ UNCHANGED <<unsent, callback, adminVars>>

\* recordAndBroadcastChat; a recorded message stops the history's expiry.
Record(p) ==
  /\ step[p] = "send"
  /\ history' = IF keep[p] THEN Trimmed(Append(history, message[p])) ELSE history
  /\ expiry' = IF keep[p] THEN "none" ELSE expiry
  /\ feed' = [q \in Members |-> IF q \in Room \ {p} THEN Append(feed[q], message[p])
                                                    ELSE feed[q]]
  /\ log' = IF keep[p] THEN Append(log, message[p]) ELSE log
  /\ Done(p)
  /\ UNCHANGED <<unsent, callback, adminVars>>

----------------------------------------------------------------------------
(* Leaving.                                                                *)

Leave(p) ==
  /\ step[p] = "in"
  /\ feed' = [feed EXCEPT ![p] = <<>>]
  /\ Goto(p, "leave")
  /\ UNCHANGED <<message, keep, unsent, history, log, expiryVars, adminVars>>

FreeSlot(p) ==
  /\ step[p] = "leave"
  /\ Goto(p, "schedule")
  /\ UNCHANGED <<message, keep, unsent, chatVars, expiryVars, adminVars>>

\* scheduleChatHistoryExpiry: its check, and its critical section.
CheckSchedule(p) ==
  /\ step[p] = "schedule"
  /\ Goto(p, IF retain /\ Present = {} THEN "arm" ELSE "out")
  /\ UNCHANGED <<message, keep, unsent, chatVars, expiryVars, adminVars>>

Arm(p) ==
  /\ step[p] = "arm"
  /\ expiry' = IF history # <<>> THEN "armed" ELSE expiry
  /\ Goto(p, "out")
  /\ UNCHANGED <<message, keep, unsent, chatVars, callback, adminVars>>

----------------------------------------------------------------------------
(* The expiry timer.                                                       *)

Fire ==
  /\ expiry = "armed"
  /\ callback = "idle"
  /\ expiry' = "fired"
  /\ callback' = "check"
  /\ UNCHANGED <<step, message, keep, unsent, chatVars, adminVars>>

\* The callback looks at Meeting.Count before it takes the lock.
CheckEmpty ==
  /\ callback = "check"
  /\ callback' = IF Present = {} THEN "delete" ELSE "idle"
  /\ UNCHANGED <<step, message, keep, unsent, chatVars, expiry, adminVars>>

DeleteHistory ==
  /\ callback = "delete"
  /\ history' = <<>>
  /\ expiry' = "none"
  /\ callback' = "idle"
  /\ UNCHANGED <<step, message, keep, unsent, feed, log, adminVars>>

----------------------------------------------------------------------------
(* An admin request that changes RetainChatHistory.                        *)

Post(v) ==
  /\ RetentionChanges
  /\ admin = "idle"
  /\ retain' = v
  /\ admin' = IF v THEN "idle" ELSE "clear"
  /\ UNCHANGED <<step, message, keep, unsent, chatVars, expiryVars>>

\* clearChatHistory at the end of BroadcastConfig.
Clear ==
  /\ admin = "clear"
  /\ history' = <<>>
  /\ expiry' = "none"
  /\ admin' = "idle"
  /\ UNCHANGED <<step, message, keep, unsent, feed, log, callback, retain>>

MemberStep(p) ==
  \/ TakeSlot(p) \/ CancelExpiry(p) \/ Admit(p) \/ FailJoin(p)
  \/ (\E m \in Messages : Send(p, m)) \/ Record(p)
  \/ Leave(p) \/ FreeSlot(p) \/ CheckSchedule(p) \/ Arm(p)

Next == (\E p \in Members : MemberStep(p)) \/ Fire \/ CheckEmpty \/ DeleteHistory
        \/ (\E v \in BOOLEAN : Post(v)) \/ Clear

Spec == Init /\ [][Next]_vars

\* Goroutines run, and timers fire.  Nobody has to join, to send or to leave.
Fairness ==
  /\ \A p \in Members :
       WF_vars(CancelExpiry(p) \/ Admit(p) \/ FailJoin(p) \/ Record(p) \/ FreeSlot(p)
               \/ CheckSchedule(p) \/ Arm(p))
  /\ WF_vars(Fire) /\ WF_vars(CheckEmpty \/ DeleteHistory)
  /\ WF_vars(Clear)

FairSpec == Spec /\ Fairness

----------------------------------------------------------------------------
(* Properties.                                                             *)

\* Type invariant; a message is at hand only while it is handled, and only a
\* history that exists has a timer.
TypeOK ==
  /\ step \in [Members -> Steps]
  /\ message \in [Members -> Messages \cup {NoMessage}]
  /\ \A p \in Members : step[p] = "send" <=> message[p] # NoMessage
  /\ keep \in [Members -> BOOLEAN]
  /\ history \in Seq(Messages) /\ Len(history) <= Limit
  /\ expiry \in {"none", "armed", "fired"}
  /\ (expiry # "none" => history # <<>>)
  /\ callback \in {"idle", "check", "delete"}
  /\ retain \in BOOLEAN
  /\ admin \in {"idle", "clear"}
  /\ unsent \subseteq Messages
  /\ feed \in [Members -> Seq(Messages)]
  /\ log \in Seq(Messages)

\* Nobody sees a message twice, be it replayed, broadcast or one's own.
AtMostOnce == \A p \in Members : IsInjective(feed[p])

\* Nobody in the room misses a retained message: it came with the replay or as
\* a broadcast.
RetainedReachesAll == \A p \in Room : ToSet(history) \subseteq ToSet(feed[p])

\* What is replayed is the end of the retained conversation: no message is out
\* of order and none is missing between two others, whatever was cleared.
HistoryIsTail == IsSuffix(history, log)

\* The chat of an empty meeting is forgotten in the end.  If JoinsMayFail it may not
\* be: a join that fails has stopped the expiry, and nothing arms it (hub.go:635).
EmptyRoomForgets == <>[](Present = {}) => []<>(history = <<>>)

=============================================================================
