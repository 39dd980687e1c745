------------------------------ MODULE Meeting ------------------------------
(***************************************************************************)
(* The membership table of internal/meeting/meeting.go: which participants *)
(* hold a slot, the capacity, and the queue of raised hands.               *)
(*                                                                         *)
(* Every exported method takes Meeting.mu for its whole body, so each      *)
(* method is one action.  Identifiers are fresh UUIDs: an Id is given out  *)
(* at most once, which "issued" records.  Ids bounds how many participants *)
(* a behaviour may ever create, Limits the values an operator may set.     *)
(***************************************************************************)
EXTENDS Integers, Sequences, FiniteSets, SequencesExt

CONSTANTS Ids,      \* identifiers uuid.NewString may return
          Limits    \* arguments SetMaxParticipants may receive

ASSUME LimitsAssumption == Limits \subseteq Int

VARIABLES max,            \* Meeting.max
          participants,   \* the keys of Meeting.participants
          raised,         \* Participant.RaisedHand of each identifier
          order,          \* Participant.HandOrder of each identifier
          raisedHandIDs,  \* Meeting.raisedHandIDs
          issued          \* identifiers uuid.NewString has returned

vars == <<max, participants, raised, order, raisedHandIDs, issued>>

Init ==
  /\ max \in {l \in Limits : l >= 1}
  /\ participants = {}
  /\ raised = [id \in Ids |-> FALSE]
  /\ order = [id \in Ids |-> 0]
  /\ raisedHandIDs = <<>>
  /\ issued = {}

\* Position of id in a queue that holds it.
Position(queue, id) == CHOOSE i \in DOMAIN queue : queue[i] = id

\* append(ids[:index], ids[index+1:]...) for the entry that equals id, if any.
Dequeue(queue, id) ==
  IF \E i \in DOMAIN queue : queue[i] = id
  THEN RemoveAt(queue, Position(queue, id))
  ELSE queue

\* The HandOrder of every participant once the entries of queue have been
\* renumbered from 1; participants outside the queue keep what they had.
Reindexed(orders, queue) ==
  [id \in Ids |-> IF \E i \in DOMAIN queue : queue[i] = id
                  THEN Position(queue, id)
                  ELSE orders[id]]

\* Meeting.Join with a valid name and a free slot.
Join(id) ==
  /\ id \notin issued
  /\ Cardinality(participants) < max
  /\ participants' = participants \union {id}
  /\ issued' = issued \union {id}
  /\ UNCHANGED <<max, raised, order, raisedHandIDs>>

\* Meeting.Leave; an unknown identifier changes nothing.  The record is
\* deleted, so its hand fields are gone with it.
Leave(id) ==
  /\ id \in participants
  /\ participants' = participants \ {id}
  /\ raised' = [raised EXCEPT ![id] = FALSE]
  /\ raisedHandIDs' = Dequeue(raisedHandIDs, id)
  /\ order' = Reindexed([order EXCEPT ![id] = 0], raisedHandIDs')
  /\ UNCHANGED <<max, issued>>

\* Meeting.SetRaisedHand(id, true) for a lowered hand.
RaiseHand(id) ==
  /\ id \in participants
  /\ ~raised[id]
  /\ raised' = [raised EXCEPT ![id] = TRUE]
  /\ raisedHandIDs' = Append(raisedHandIDs, id)
  /\ order' = [order EXCEPT ![id] = Len(raisedHandIDs')]
  /\ UNCHANGED <<max, participants, issued>>

\* Meeting.SetRaisedHand(id, false) for a raised hand.
LowerHand(id) ==
  /\ id \in participants
  /\ raised[id]
  /\ raised' = [raised EXCEPT ![id] = FALSE]
  /\ raisedHandIDs' = Dequeue(raisedHandIDs, id)
  /\ order' = Reindexed([order EXCEPT ![id] = 0], raisedHandIDs')
  /\ UNCHANGED <<max, participants, issued>>

\* Meeting.SetMaxParticipants: a limit below one is ignored, and lowering the
\* limit below the present count evicts nobody.
SetMaxParticipants(limit) ==
  /\ limit >= 1
  /\ max' = limit
  /\ UNCHANGED <<participants, raised, order, raisedHandIDs, issued>>

Next ==
  \/ \E id \in Ids : Join(id)
  \/ \E id \in Ids : Leave(id)
  \/ \E id \in Ids : RaiseHand(id)
  \/ \E id \in Ids : LowerHand(id)
  \/ \E limit \in Limits : SetMaxParticipants(limit)

Spec == Init /\ [][Next]_vars

----------------------------------------------------------------------------
\* Type invariant of the table.
TypeOK ==
  /\ max \in Limits /\ max >= 1
  /\ participants \subseteq Ids
  /\ issued \subseteq Ids
  /\ raised \in [Ids -> BOOLEAN]
  /\ order \in [Ids -> Nat]
  /\ raisedHandIDs \in Seq(Ids)

\* The hand fields of the records and the queue agree: exactly the present
\* participants with a raised hand are queued, each once, and HandOrder is the
\* position in the queue (zero for a lowered hand).  Join, Leave and
\* SetRaisedHand keep two representations of one fact in step by hand.
HandQueueConsistent ==
  /\ \A id \in Ids : raised[id] <=>
        \E i \in DOMAIN raisedHandIDs : raisedHandIDs[i] = id
  /\ \A i, j \in DOMAIN raisedHandIDs :
        raisedHandIDs[i] = raisedHandIDs[j] => i = j
  /\ \A i \in DOMAIN raisedHandIDs : order[raisedHandIDs[i]] = i
  /\ \A id \in Ids : ~raised[id] => order[id] = 0
  /\ \A id \in Ids : raised[id] => id \in participants

\* First in, first out: two hands that stay raised through a step keep their
\* relative order, whoever leaves, raises or lowers a hand in between.
HandOrderIsFifo ==
  [][\A a, b \in Ids :
        (raised[a] /\ raised'[a] /\ raised[b] /\ raised'[b] /\ order[a] < order[b])
        => order'[a] < order'[b]]_vars
=============================================================================
