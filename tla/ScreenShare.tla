---------------------------- MODULE ScreenShare ----------------------------
(***************************************************************************)
(* The screen-share lease of internal/signaling/hub.go: who holds it, what *)
(* every browser in the room was told about it, and whether the media      *)
(* router forwards the screen publications.                                *)
(*                                                                         *)
(* The lease changes hands under Hub.mu; the router call and the broadcast *)
(* that follow are made after the unlock, by the goroutine that changed    *)
(* it.  The goroutines are one per member (its read loop and its cleanup), *)
(* one per admin request (BroadcastConfig) and the one on which Pion       *)
(* delivers a new remote track.  A member may disconnect and come back;    *)
(* its next connection is admitted only after the cleanup of the previous  *)
(* one is over (module Sessions, OneActingSession), so a member stands for *)
(* its connection of the moment.                                           *)
(***************************************************************************)
EXTENDS Naturals

CONSTANTS Members,  \* participants with a connection
          Admins,   \* admin requests that may be served at the same time
          None

ASSUME NoneIsNobody == None \notin Members

VARIABLES
  step,     \* next step of each member's goroutine
  owed,     \* the announcement that goroutine has yet to broadcast
  sharer,   \* Hub.screenSharer
  shown,    \* screenShareOwner in each member's browser
  pub,      \* each member's screen publication in the router
  track,    \* members whose OnTrack chose the screen role and will publish
  enabled,  \* EnableScreenShare in the configuration store
  admin,    \* next step of each admin request
  policy,   \* the configuration snapshot the request carries
  evicted,  \* releasedScreenSharerID of the request
  revoked   \* history variable: has the operator ever taken a lease away?

leaseVars == <<step, owed, sharer>>
adminVars == <<enabled, admin, policy, evicted, revoked>>
screenVars == <<leaseVars, shown, pub, track, adminVars>>

InRoom == {p \in Members : step[p] \in {"in", "asked", "granted", "stopped", "telling"}}

ScreenInit ==
  /\ step = [p \in Members |-> "out"]
  /\ owed = [p \in Members |-> "nothing"]
  /\ sharer = None
  /\ shown = [p \in Members |-> None]
  /\ pub = [p \in Members |-> "none"]
  /\ track = {}
  /\ enabled = TRUE
  /\ admin = [x \in Admins |-> "idle"]
  /\ policy = [x \in Admins |-> TRUE]
  /\ evicted = [x \in Admins |-> None]
  /\ revoked = FALSE

Goto(p, s) == step' = [step EXCEPT ![p] = s]

\* The browser of every room member records what a screen_share_state says.
Broadcast(owner) == shown' = [p \in Members |-> IF p \in InRoom THEN owner ELSE shown[p]]

\* SetPublicationActive on the publication p may have.
SetActive(p, active) ==
  pub' = [pub EXCEPT ![p] = IF @ = "none" THEN @ ELSE IF active THEN "live" ELSE "paused"]

----------------------------------------------------------------------------
(* A member's goroutine.                                                   *)

\* admit replays the present owner in the critical section that makes p a
\* room member; the browser starts from no owner.
Admit(p) ==
  /\ step[p] = "out"
  /\ Goto(p, "in")
  /\ shown' = [shown EXCEPT ![p] = sharer]
  /\ UNCHANGED <<owed, sharer, pub, track, adminVars>>

\* requestScreenShare(active): the setting is read before the lock is taken.
\* A request made while sharing is disabled is answered with an error.
AskStart(p) ==
  /\ step[p] = "in"
  /\ enabled
  /\ Goto(p, "asked")
  /\ UNCHANGED <<owed, sharer, shown, pub, track, adminVars>>

Refuse(p) ==
  /\ step[p] = "asked"
  /\ sharer \notin {None, p}
  /\ Goto(p, "in")
  /\ UNCHANGED <<owed, sharer, shown, pub, track, adminVars>>

\* Mutant of Grant: whoever asks last gets the lease.
GrantAnyway(p) ==
  /\ step[p] = "asked"
  /\ sharer' = p
  /\ owed' = [owed EXCEPT ![p] = IF sharer = p THEN "nothing" ELSE "taken"]
  /\ Goto(p, "granted")
  /\ UNCHANGED <<shown, pub, track, adminVars>>

\* Only a change of owner is announced.
Grant(p) ==
  /\ step[p] = "asked"
  /\ sharer \in {None, p}
  /\ sharer' = p
  /\ owed' = [owed EXCEPT ![p] = IF sharer = p THEN "nothing" ELSE "taken"]
  /\ Goto(p, "granted")
  /\ UNCHANGED <<shown, pub, track, adminVars>>

\* requestScreenShare(inactive), allowed while sharing is disabled.
AskStop(p) ==
  /\ step[p] = "in"
  /\ sharer' = IF sharer = p THEN None ELSE sharer
  /\ owed' = [owed EXCEPT ![p] = IF sharer = p THEN "free" ELSE "nothing"]
  /\ Goto(p, "stopped")
  /\ UNCHANGED <<shown, pub, track, adminVars>>

\* Mutant of SetRouter: a paused publication is not resumed.
SetRouterOnStop(p) ==
  /\ step[p] \in {"granted", "stopped"}
  /\ IF step[p] = "stopped" THEN SetActive(p, FALSE) ELSE UNCHANGED pub
  /\ Goto(p, "telling")
  /\ UNCHANGED <<owed, sharer, shown, track, adminVars>>

\* The router call after the unlock.
SetRouter(p) ==
  /\ step[p] \in {"granted", "stopped"}
  /\ SetActive(p, step[p] = "granted")
  /\ Goto(p, "telling")
  /\ UNCHANGED <<owed, sharer, shown, track, adminVars>>

\* The broadcast after that.
Tell(p) ==
  /\ step[p] = "telling"
  /\ \/ owed[p] = "taken" /\ Broadcast(p)
     \/ owed[p] = "free" /\ Broadcast(None)
     \/ owed[p] = "nothing" /\ UNCHANGED shown
  /\ owed' = [owed EXCEPT ![p] = "nothing"]
  /\ Goto(p, "in")
  /\ UNCHANGED <<sharer, pub, track, adminVars>>

\* The read loop ends between two messages; cleanup leaves the room first.
Drop(p) ==
  /\ step[p] = "in"
  /\ Goto(p, "gone")
  /\ shown' = [shown EXCEPT ![p] = None]
  /\ UNCHANGED <<owed, sharer, pub, track, adminVars>>

\* releaseScreenShare: its critical section, the router call, the broadcast.
Release(p) ==
  /\ step[p] = "gone"
  /\ IF sharer = p
     THEN sharer' = None /\ Goto(p, "unpublish")
     ELSE UNCHANGED sharer /\ Goto(p, "out")
  /\ UNCHANGED <<owed, shown, pub, track, adminVars>>

Unpublish(p) ==
  /\ step[p] = "unpublish"
  /\ pub' = [pub EXCEPT ![p] = "none"]
  /\ Goto(p, "tellFree")
  /\ UNCHANGED <<owed, sharer, shown, track, adminVars>>

TellFree(p) ==
  /\ step[p] = "tellFree"
  /\ Broadcast(None)
  /\ Goto(p, "out")
  /\ UNCHANGED <<owed, sharer, pub, track, adminVars>>

----------------------------------------------------------------------------
(* Media.                                                                  *)

\* OnTrack: the role of a new track is decided under the lock...
TrackArrives(p) ==
  /\ p \in InRoom
  /\ sharer = p
  /\ pub[p] = "none"
  /\ p \notin track
  /\ track' = track \union {p}
  /\ UNCHANGED <<leaseVars, shown, pub, adminVars>>

\* ... and the track is published after it was released.
PublishTrack(p) ==
  /\ p \in track
  /\ track' = track \ {p}
  /\ pub' = [pub EXCEPT ![p] = "live"]
  /\ UNCHANGED <<leaseVars, shown, adminVars>>

----------------------------------------------------------------------------
(* An admin request: Store.Update, Store.Snapshot, Hub.BroadcastConfig.    *)

Post(x, value) ==
  /\ admin[x] = "idle"
  /\ value # enabled
  /\ enabled' = value
  /\ admin' = [admin EXCEPT ![x] = "saved"]
  /\ UNCHANGED <<leaseVars, shown, pub, track, policy, evicted, revoked>>

ReadBack(x) ==
  /\ admin[x] = "saved"
  /\ policy' = [policy EXCEPT ![x] = enabled]
  /\ admin' = [admin EXCEPT ![x] = "apply"]
  /\ UNCHANGED <<leaseVars, shown, pub, track, enabled, evicted, revoked>>

\* The critical section of BroadcastConfig.
Evict(x) ==
  /\ admin[x] = "apply"
  /\ IF ~policy[x] /\ sharer # None
     THEN evicted' = [evicted EXCEPT ![x] = sharer] /\ sharer' = None /\ revoked' = TRUE
     ELSE UNCHANGED <<evicted, sharer, revoked>>
  /\ admin' = [admin EXCEPT ![x] = "mute"]
  /\ UNCHANGED <<step, owed, shown, pub, track, enabled, policy>>

Mute(x) ==
  /\ admin[x] = "mute"
  /\ IF evicted[x] # None THEN SetActive(evicted[x], FALSE) ELSE UNCHANGED pub
  /\ admin' = [admin EXCEPT ![x] = "tell"]
  /\ UNCHANGED <<leaseVars, shown, track, enabled, policy, evicted, revoked>>

\* After the config_update, which carries no owner.
TellEvicted(x) ==
  /\ admin[x] = "tell"
  /\ IF evicted[x] # None THEN Broadcast(None) ELSE UNCHANGED shown
  /\ evicted' = [evicted EXCEPT ![x] = None]
  /\ admin' = [admin EXCEPT ![x] = "idle"]
  /\ UNCHANGED <<leaseVars, pub, track, enabled, policy, revoked>>

MemberStep(p) ==
  \/ Admit(p) \/ AskStart(p) \/ Refuse(p) \/ Grant(p) \/ AskStop(p) \/ SetRouter(p)
  \/ Tell(p) \/ Drop(p) \/ Release(p) \/ Unpublish(p) \/ TellFree(p)
  \/ TrackArrives(p) \/ PublishTrack(p)

AdminStep(x) ==
  (\E value \in BOOLEAN : Post(x, value)) \/ ReadBack(x) \/ Evict(x) \/ Mute(x) \/ TellEvicted(x)

ScreenNext == (\E p \in Members : MemberStep(p)) \/ (\E x \in Admins : AdminStep(x))

ScreenSpec == ScreenInit /\ [][ScreenNext]_screenVars

----------------------------------------------------------------------------
(* Properties.                                                             *)

\* Type invariant; an announcement is owed only between a change of the lease
\* and its broadcast.
ScreenTypeOK ==
  /\ step \in [Members -> {"out", "in", "asked", "granted", "stopped", "telling",
                           "gone", "unpublish", "tellFree"}]
  /\ owed \in [Members -> {"nothing", "taken", "free"}]
  /\ \A p \in Members : owed[p] # "nothing" => step[p] \in {"granted", "stopped", "telling"}
  /\ sharer \in Members \union {None}
  /\ shown \in [Members -> Members \union {None}]
  /\ pub \in [Members -> {"none", "live", "paused"}]
  /\ track \subseteq Members
  /\ enabled \in BOOLEAN
  /\ admin \in [Admins -> {"idle", "saved", "apply", "mute", "tell"}]
  /\ policy \in [Admins -> BOOLEAN]
  /\ evicted \in [Admins -> Members \union {None}]
  /\ revoked \in BOOLEAN

\* The lease never outlives the connection that holds it: whoever holds it is
\* in the room, or its cleanup has yet to give it up.
LeaseDiesWithConnection == sharer # None => sharer \in InRoom \/ step[sharer] = "gone"

\* No goroutine is between changing the lease or the setting and the last of
\* the calls that follow.
Quiet ==
  /\ \A p \in Members : step[p] \in {"in", "out"}
  /\ \A x \in Admins : admin[x] = "idle"
  /\ track = {}

\* Once the broadcasts are through, nobody is shown as sharing who does not
\* hold the lease: grants and releases of several members may be announced out
\* of order, but never so that an old owner is left on a screen.  (A revocation
\* is announced by the admin request, and may be overtaken by what it revokes.)
NoPhantomOwner == Quiet /\ ~revoked => \A p \in InRoom : shown[p] \in {None, sharer}

\* Once the calls are through, the holder's publication, if it has one, is
\* forwarded: a pause from an earlier stop never lands after the resume.
HolderIsForwarded == Quiet /\ ~revoked /\ sharer # None => pub[sharer] \in {"none", "live"}

\* Once the broadcasts are through, everyone sees who is sharing.  They may not: the
\* release of one member may be announced after the next grant (hub.go:524).
EveryoneSeesOwner == Quiet => \A p \in InRoom : shown[p] = sharer

\* Once the calls are through, nobody shares while sharing is disabled.  Somebody
\* may: the switch is read before the lock is taken (hub.go:490).
NoShareWhileDisabled == Quiet /\ ~enabled => sharer = None
=============================================================================
