------------------------------ MODULE Tenancy ------------------------------
(***************************************************************************)
(* What the signaling hub promises about meeting slots, without tokens,    *)
(* timers, sockets or messages: a slot belongs to one participant, at most *)
(* one connection occupies it at a time, a connection moves into an        *)
(* existing slot only when nobody occupies it, a slot is given up only     *)
(* while it is empty, and a participant who lost the slot never gets it    *)
(* back.  Module Sessions is shown to implement this.                      *)
(***************************************************************************)
EXTENDS Integers, FiniteSets

CONSTANTS Conns, Ids, None, MaxParticipants

VARIABLES slots,   \* participants that hold a slot
          former,  \* participants that gave theirs up
          tenant   \* the connection that occupies each slot, or None

vars == <<slots, former, tenant>>

Init == slots = {} /\ former = {} /\ tenant = [p \in Ids |-> None]

Reserve(p) ==
  /\ p \notin slots \union former
  /\ Cardinality(slots) < MaxParticipants
  /\ slots' = slots \union {p}
  /\ \E c \in Conns : tenant' = [tenant EXCEPT ![p] = c]
  /\ UNCHANGED former

MoveIn(p, c) ==
  /\ p \in slots
  /\ tenant[p] = None
  /\ \A q \in Ids : tenant[q] # c
  /\ tenant' = [tenant EXCEPT ![p] = c]
  /\ UNCHANGED <<slots, former>>

MoveOut(p) ==
  /\ tenant[p] # None
  /\ tenant' = [tenant EXCEPT ![p] = None]
  /\ UNCHANGED <<slots, former>>

GiveUp(p) ==
  /\ p \in slots
  /\ tenant[p] = None
  /\ slots' = slots \ {p}
  /\ former' = former \union {p}
  /\ UNCHANGED tenant

Next == \E p \in Ids : \/ Reserve(p) \/ MoveOut(p) \/ GiveUp(p)
                       \/ \E c \in Conns : MoveIn(p, c)

Spec == Init /\ [][Next]_vars
=============================================================================
