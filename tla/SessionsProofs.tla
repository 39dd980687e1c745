--------------------------- MODULE SessionsProofs ---------------------------
(*****************************************************************************)
(* Proofs about Sessions, for every set of connections and participants: its *)
(* types, that at most one connection acts for a participant however often its *)
(* session is resumed or taken over, that no slot leaks and none is freed under *)
(* a live session, that the room's members see each other, and that the hub  *)
(* implements module Tenancy.                                                *)
(*****************************************************************************)
EXTENDS Sessions, TLAPS

\* Type invariant of connections, tokens, slots and timers.
THEOREM SessionsTypeOK == Spec => []TypeOK
<1>1. Init => TypeOK
  <2> SUFFICES ASSUME Init
               PROVE  TypeOK
    OBVIOUS
  <2> USE DEF Init
  <2>1. /\ pc \in [Conns -> Steps] /\ \A c \in Conns : pc[c] = "none"
        /\ who \in [Conns -> Ids \union {None}]
        /\ prev \in [Conns -> Conns \union {None}]
        /\ turn \in [Conns -> Nat]
    BY DEF Steps
  <2>2. /\ resumed \in [Conns -> BOOLEAN] /\ takeover \in [Conns -> BOOLEAN]
        /\ joined \in [Conns -> BOOLEAN] /\ intentional \in [Conns -> BOOLEAN]
        /\ expired \in [Conns -> BOOLEAN]
    OBVIOUS
  <2>3. /\ severed \subseteq Conns /\ room \subseteq Conns
        /\ active \in [Ids -> Conns \union {None}]
        /\ pending \in [Ids -> Conns \union {None}]
        /\ timer \in [Conns -> {"off", "armed", "fired", "lapsed", "leaving", "stopped"}]
    OBVIOUS
  <2>4. /\ participants \subseteq Ids /\ created \subseteq Ids /\ issued \subseteq Ids
        /\ peers \in [Ids -> Conns \union {None}]
        /\ view \in [Conns -> SUBSET Ids] /\ audience \in [Conns -> SUBSET Conns]
        /\ closed \in BOOLEAN /\ evicting \subseteq Ids
    OBVIOUS
  <2>5. QED
    BY <2>1, <2>2, <2>3, <2>4 DEF TypeOK
<1>2. TypeOK /\ [Next]_vars => TypeOK'
  <2> SUFFICES ASSUME TypeOK, [Next]_vars
               PROVE  TypeOK'
    OBVIOUS
  <2> USE SessionAssumptions DEF TypeOK, Steps, JoinSteps, RoomSteps, CleanupSteps,
                                 connVars, hubVars, slotVars, viewVars
  <2>1. ASSUME NEW c \in Conns, Connect(c)
        PROVE  TypeOK'
    BY <2>1 DEF Connect, Goto
  <2>2. ASSUME NEW c \in Conns, LoopExit(c)
        PROVE  TypeOK'
    BY <2>2 DEF LoopExit, Goto
  <2>3. ASSUME NEW c \in Conns, LeaveMessage(c)
        PROVE  TypeOK'
    BY <2>3 DEF LeaveMessage, Goto
  <2>4. ASSUME NEW c \in Conns, BindToken(c)
        PROVE  TypeOK'
    BY <2>4 DEF BindToken, Goto
  <2>5. ASSUME NEW c \in Conns, ClosePrevious(c)
        PROVE  TypeOK'
    BY <2>5 DEF ClosePrevious
  <2>6. ASSUME NEW c \in Conns, AwaitPrevious(c)
        PROVE  TypeOK'
    BY <2>6 DEF AwaitPrevious, Goto
  <2>7. ASSUME NEW c \in Conns, RegisterPeer(c)
        PROVE  TypeOK'
    BY <2>7 DEF RegisterPeer, Goto
  <2>8. ASSUME NEW c \in Conns, PeerSetupFails(c)
        PROVE  TypeOK'
    BY <2>8 DEF PeerSetupFails, Goto
  <2>9. ASSUME NEW c \in Conns, ExpireAdmission(c)
        PROVE  TypeOK'
    BY <2>9 DEF ExpireAdmission
  <2>10. ASSUME NEW c \in Conns, Admit(c)
        PROVE  TypeOK'
    BY <2>10 DEF Admit, Goto, InGrace
  <2>11. ASSUME NEW c \in Conns, AdmitFails(c)
        PROVE  TypeOK'
    BY <2>11 DEF AdmitFails, Goto
  <2>12. ASSUME NEW c \in Conns, Announce(c)
        PROVE  TypeOK'
    BY <2>12, SMTT(30) DEF Announce, Goto, TellJoined
  <2>13. ASSUME NEW c \in Conns, Cleanup(c)
        PROVE  TypeOK'
    BY <2>13 DEF Cleanup, Goto
  <2>14. ASSUME NEW c \in Conns, Drop(c)
        PROVE  TypeOK'
    BY <2>14 DEF Drop, Goto
  <2>15. ASSUME NEW c \in Conns, Retire(c)
        PROVE  TypeOK'
    BY <2>15 DEF Retire, Goto, Unregister
  <2>16. ASSUME NEW c \in Conns, Teardown(c)
        PROVE  TypeOK'
    BY <2>16 DEF Teardown, Goto, Unregister
  <2>17. ASSUME NEW c \in Conns, OpenGrace(c)
        PROVE  TypeOK'
    <3>1. who[c] \in Ids
      BY <2>17 DEF OpenGrace
    <3>2. CASE closed
      BY <2>17, <3>2 DEF OpenGrace, Goto
    <3>3. CASE ~closed
      <4>1. pending' = [pending EXCEPT ![who[c]] = c] /\ Goto(c, "tellLeft")
        BY <2>17, <3>3 DEF OpenGrace
      <4>2. pending' \in [Ids -> Conns \union {None}]
        BY <4>1, <3>1
      <4>3. QED
        BY <2>17, <4>1, <4>2 DEF OpenGrace, Goto
    <3>4. QED
      BY <3>2, <3>3
  <2>18. ASSUME NEW c \in Conns, TellLeft(c)
        PROVE  TypeOK'
    BY <2>18 DEF TellLeft, Goto, TellGoneTo
  <2>19. ASSUME NEW c \in Conns, ArmTimer(c)
        PROVE  TypeOK'
    BY <2>19 DEF ArmTimer, Goto
  <2>20. ASSUME NEW c \in Conns, Remove(c)
        PROVE  TypeOK'
    BY <2>20 DEF Remove, Goto
  <2>21. ASSUME NEW c \in Conns, TellGone(c)
        PROVE  TypeOK'
    BY <2>21 DEF TellGone, Goto, TellGoneTo
  <2>22. ASSUME NEW c \in Conns, TimerFires(c)
        PROVE  TypeOK'
    BY <2>22 DEF TimerFires
  <2>23. ASSUME NEW c \in Conns, ExpireEntry(c)
        PROVE  TypeOK'
    BY <2>23 DEF ExpireEntry
  <2>24. ASSUME NEW c \in Conns, ExpireMedia(c)
        PROVE  TypeOK'
    BY <2>24 DEF ExpireMedia, Unregister
  <2>25. ASSUME NEW c \in Conns, ExpireSlot(c)
        PROVE  TypeOK'
    BY <2>25 DEF ExpireSlot
  <2>26. ASSUME NEW c \in Conns, NEW p \in Ids, JoinFresh(c, p)
        PROVE  TypeOK'
    BY <2>26 DEF JoinFresh, Goto
  <2>27. ASSUME NEW c \in Conns, NEW p \in Ids, ReclaimPending(c, p)
        PROVE  TypeOK'
    BY <2>27 DEF ReclaimPending, Goto, TakeSession, StopTimer
  <2>28. ASSUME NEW c \in Conns, NEW p \in Ids, ReclaimActive(c, p)
        PROVE  TypeOK'
    BY <2>28 DEF ReclaimActive, Goto, TakeSession
  <2>29. ASSUME CloseHub
        PROVE  TypeOK'
    BY <2>29 DEF CloseHub, InGrace
  <2>30. ASSUME NEW p \in Ids, CloseFreesSlot(p)
        PROVE  TypeOK'
    BY <2>30 DEF CloseFreesSlot
  <2>31. ASSUME CloseSockets
        PROVE  TypeOK'
    BY <2>31 DEF CloseSockets, Clients
  <2>32. CASE UNCHANGED vars
    BY <2>32 DEF vars
  <2>33. ASSUME NEW c \in Conns, JoinPath(c)
        PROVE  TypeOK'
    BY <2>33, <2>1, <2>2, <2>3, <2>4, <2>5, <2>6, <2>7, <2>8, <2>9, <2>10,
       <2>11, <2>12, <2>26, <2>27, <2>28
       DEF JoinPath
  <2>34. ASSUME NEW c \in Conns, CleanupPath(c)
        PROVE  TypeOK'
    BY <2>34, <2>13, <2>14, <2>15, <2>16, <2>17, <2>18, <2>19, <2>20, <2>21
       DEF CleanupPath
  <2>35. ASSUME NEW c \in Conns, TimerPath(c)
        PROVE  TypeOK'
    BY <2>35, <2>22, <2>23, <2>24, <2>25 DEF TimerPath
  <2>36. QED
    BY <2>29, <2>30, <2>31, <2>32, <2>33, <2>34, <2>35
       DEF Next, ClosePath, Idle
<1>3. QED
  BY <1>1, <1>2, PTL DEF Spec

\* No connection that carries the same participant came after c.
Latest(c) == \A d \in Conns : who[d] = who[c] => turn[d] <= turn[c]

\* A connection carries a participant from its join on, and the participant is
\* one that was created.
NamesAreCreated ==
  \A c \in Conns : /\ who[c] # None => who[c] \in created
                   /\ pc[c] \in {"none", "open"} => who[c] = None

\* The connections of a participant are numbered in the order they joined.
TurnsDiffer ==
  \A c, d \in Conns : c # d /\ who[c] = who[d] /\ who[c] # None => turn[c] # turn[d]

\* The token tables name the latest connection of a participant, one of them at
\* a time.
TablesNameLatest ==
  \A p \in Ids :
    /\ active[p] # None => who[active[p]] = p /\ Latest(active[p]) /\ pending[p] = None
    /\ pending[p] # None => who[pending[p]] = p /\ Latest(pending[p])

\* A connection that waits does so for the one just before it.
WaitsForPredecessor ==
  \A d \in Conns :
    pc[d] = "waiting" => who[prev[d]] = who[d] /\ turn[d] = turn[prev[d]] + 1

\* Until a connection is done, every later one of its participant waits.
LaterOnesWait ==
  \A c, d \in Conns :
    who[c] = who[d] /\ who[c] # None /\ turn[c] < turn[d] /\ pc[c] # "done"
      => pc[d] = "waiting"

\* Between Meeting.Join and the binding of its token, and between the two
\* critical sections of a graceful disconnect, nobody can resume the session.
TokenIsUnbound ==
  \A c \in Conns :
    pc[c] \in {"named", "grace"} =>
      active[who[c]] = None /\ pending[who[c]] = None /\ Latest(c)

SessionInv == /\ NamesAreCreated
              /\ TurnsDiffer
              /\ TablesNameLatest
              /\ WaitsForPredecessor
              /\ LaterOnesWait
              /\ TokenIsUnbound

\* What a step may do to the token tables and to a connection's place in the
\* join path without any bearing on who comes after whom: it binds no token, and
\* moves no connection to or from a wait, nor into the steps where the token is
\* unbound.
Quiet ==
  /\ UNCHANGED <<who, turn, prev>>
  /\ created \subseteq created'
  /\ \A p \in Ids : active'[p] \in {active[p], None} /\ pending'[p] \in {pending[p], None}
  /\ \A c \in Conns :
       /\ pc'[c] \in {"none", "open"} => pc[c] \in {"none", "open"}
       /\ pc'[c] = "waiting" <=> pc[c] = "waiting"
       /\ pc[c] = "done" => pc'[c] = "done"
       /\ pc'[c] \in {"named", "grace"} => pc[c] \in {"named", "grace"}

\* A quiet step preserves the invariant.
LEMMA QuietStep == TypeOK /\ SessionInv /\ Quiet => SessionInv'
<1> SUFFICES ASSUME TypeOK, SessionInv, Quiet
             PROVE  SessionInv'
  OBVIOUS
<1> USE SessionAssumptions
<1>0. \A c \in Conns : Latest(c) => Latest(c)'
  BY DEF Quiet, Latest
<1>1. NamesAreCreated'
  BY DEF SessionInv, NamesAreCreated, Quiet
<1>2. TurnsDiffer'
  BY DEF SessionInv, TurnsDiffer, Quiet
<1>3. TablesNameLatest'
  BY <1>0 DEF SessionInv, TablesNameLatest, Quiet, TypeOK
<1>4. WaitsForPredecessor'
  BY DEF SessionInv, WaitsForPredecessor, Quiet
<1>5. LaterOnesWait'
  BY DEF SessionInv, LaterOnesWait, Quiet
<1>6. TokenIsUnbound'
  <2> SUFFICES ASSUME NEW c \in Conns, pc'[c] \in {"named", "grace"}
               PROVE  active'[who'[c]] = None /\ pending'[who'[c]] = None /\ Latest(c)'
    BY DEF TokenIsUnbound
  <2>1. pc[c] \in {"named", "grace"} /\ who'[c] = who[c]
    BY DEF Quiet
  <2>2. active[who[c]] = None /\ pending[who[c]] = None /\ Latest(c)
    BY <2>1 DEF SessionInv, TokenIsUnbound
  <2>3. who[c] \in Ids
    BY <2>1 DEF TypeOK
  <2>4. QED
    BY <2>1, <2>2, <2>3, <1>0 DEF Quiet
<1>7. QED
  BY <1>1, <1>2, <1>3, <1>4, <1>5, <1>6 DEF SessionInv

\* A join creates a participant no connection has carried before.
LEMMA JoinFreshStep ==
  ASSUME TypeOK, SessionInv, NEW c \in Conns, NEW p \in Ids, JoinFresh(c, p)
  PROVE  SessionInv'
<1> USE SessionAssumptions
<1>1. /\ pc[c] = "open" /\ who[c] = None /\ p \notin created
      /\ created' = created \union {p}
      /\ who' = [who EXCEPT ![c] = p] /\ turn' = [turn EXCEPT ![c] = 1]
      /\ pc' = [pc EXCEPT ![c] = "named"]
      /\ UNCHANGED <<prev, active, pending>>
  BY DEF JoinFresh, Goto, hubVars, SessionInv, NamesAreCreated
<1>2. \A d \in Conns : who[d] # p
  BY <1>1 DEF SessionInv, NamesAreCreated
<1>3. active[p] = None /\ pending[p] = None
  BY <1>2 DEF SessionInv, TablesNameLatest, TypeOK
<1>4. /\ who'[c] = p /\ pc'[c] = "named"
      /\ \A d \in Conns \ {c} : who'[d] = who[d] /\ turn'[d] = turn[d] /\ pc'[d] = pc[d]
  BY <1>1 DEF TypeOK
<1>5. \A d \in Conns \ {c} : who[d] # None /\ Latest(d) => Latest(d)'
  BY <1>2, <1>4 DEF Latest
<1>6. Latest(c)'
  BY <1>1, <1>2, <1>4 DEF Latest, TypeOK
<1>7. NamesAreCreated'
  BY <1>1, <1>4 DEF SessionInv, NamesAreCreated
<1>8. TurnsDiffer'
  BY <1>2, <1>4 DEF SessionInv, TurnsDiffer
<1>9. TablesNameLatest'
  <2> SUFFICES ASSUME NEW q \in Ids
               PROVE  /\ active[q] # None => who'[active[q]] = q /\ Latest(active[q])'
                                             /\ pending[q] = None
                      /\ pending[q] # None => who'[pending[q]] = q /\ Latest(pending[q])'
    BY <1>1 DEF TablesNameLatest, Latest
  <2>1. active[q] \in Conns \union {None} /\ pending[q] \in Conns \union {None} /\ q # None
    BY DEF TypeOK
  <2>2. /\ active[q] # None => who[active[q]] = q /\ Latest(active[q]) /\ pending[q] = None
        /\ pending[q] # None => who[pending[q]] = q /\ Latest(pending[q])
    BY DEF SessionInv, TablesNameLatest
  <2>3. QED
    BY <1>1, <1>4, <1>5, <2>1, <2>2
<1>10. WaitsForPredecessor'
  <2> SUFFICES ASSUME NEW d \in Conns, pc'[d] = "waiting"
               PROVE  who'[prev[d]] = who'[d] /\ turn'[d] = turn'[prev[d]] + 1
    BY <1>1 DEF WaitsForPredecessor
  <2>1. d # c /\ pc[d] = "waiting"
    BY <1>4
  <2>2. prev[d] \in Conns /\ who[prev[d]] = who[d] /\ who[d] # None
        /\ turn[d] = turn[prev[d]] + 1
    BY <2>1 DEF SessionInv, WaitsForPredecessor, TypeOK
  <2>3. QED
    BY <1>1, <1>4, <2>1, <2>2
<1>11. LaterOnesWait'
  <2> SUFFICES ASSUME NEW d \in Conns, NEW e \in Conns, who'[d] = who'[e],
                      who'[d] # None, turn'[d] < turn'[e], pc'[d] # "done"
               PROVE  pc'[e] = "waiting"
    BY DEF LaterOnesWait
  <2>1. turn'[c] = 1
    BY <1>1 DEF TypeOK
  <2>2. d # c /\ e # c
    BY <2>1, <1>2, <1>4
  <2>3. QED
    BY <2>2, <1>4 DEF SessionInv, LaterOnesWait
<1>12. TokenIsUnbound'
  <2> SUFFICES ASSUME NEW d \in Conns, pc'[d] \in {"named", "grace"}
               PROVE  active[who'[d]] = None /\ pending[who'[d]] = None /\ Latest(d)'
    BY <1>1 DEF TokenIsUnbound, Latest
  <2>1. CASE d = c
    BY <2>1, <1>3, <1>4, <1>6
  <2>2. CASE d # c
    <3>1. pc[d] \in {"named", "grace"} /\ who[d] # None /\ who'[d] = who[d]
      BY <1>4, <2>2 DEF TypeOK
    <3>2. QED
      BY <3>1, <2>2, <1>5 DEF SessionInv, TokenIsUnbound
  <2>3. QED
    BY <2>1, <2>2
<1>13. QED
  BY <1>7, <1>8, <1>9, <1>10, <1>11, <1>12 DEF SessionInv

\* The token of a fresh join becomes active while no other table names it.
LEMMA BindTokenStep ==
  ASSUME TypeOK, SessionInv, NEW c \in Conns, BindToken(c)
  PROVE  SessionInv'
<1> USE SessionAssumptions
<1>1. /\ pc[c] = "named" /\ active' = [active EXCEPT ![who[c]] = c]
      /\ pc' = [pc EXCEPT ![c] = "setup"]
      /\ UNCHANGED <<who, prev, turn, pending, created>>
  BY DEF BindToken, Goto, slotVars
<1>2. who[c] \in Ids /\ pending[who[c]] = None /\ Latest(c)
  BY <1>1 DEF SessionInv, TokenIsUnbound, TypeOK
<1>3. pc'[c] = "setup" /\ \A d \in Conns \ {c} : pc'[d] = pc[d]
  BY <1>1 DEF TypeOK
<1>4. active'[who[c]] = c /\ \A q \in Ids \ {who[c]} : active'[q] = active[q]
  BY <1>1, <1>2 DEF TypeOK
<1>5. \A d \in Conns : Latest(d)' <=> Latest(d)
  BY <1>1 DEF Latest
<1>6. NamesAreCreated' /\ TurnsDiffer' /\ WaitsForPredecessor' /\ LaterOnesWait'
  BY <1>1, <1>3 DEF SessionInv, NamesAreCreated, TurnsDiffer, WaitsForPredecessor,
                    LaterOnesWait
<1>7. TablesNameLatest'
  BY <1>1, <1>2, <1>4, <1>5 DEF SessionInv, TablesNameLatest, TypeOK
<1>8. TokenIsUnbound'
  <2> SUFFICES ASSUME NEW d \in Conns, pc'[d] \in {"named", "grace"}
               PROVE  active'[who[d]] = None /\ pending[who[d]] = None /\ Latest(d)
    BY <1>1, <1>5 DEF TokenIsUnbound
  <2>1. d # c /\ pc[d] \in {"named", "grace"}
    BY <1>3
  <2>2. active[who[d]] = None /\ pending[who[d]] = None /\ Latest(d) /\ who[d] \in Ids
    BY <2>1 DEF SessionInv, TokenIsUnbound, TypeOK
  <2>3. who[d] # who[c]
    <3> SUFFICES ASSUME who[d] = who[c]
                 PROVE  FALSE
      OBVIOUS
    <3>1. turn[c] \in Nat /\ turn[d] \in Nat /\ turn[c] <= turn[d] /\ turn[d] <= turn[c]
      BY <1>2, <2>2 DEF Latest, TypeOK
    <3>2. QED
      BY <3>1, <2>1, <1>2 DEF SessionInv, TurnsDiffer
  <2>4. QED
    BY <2>2, <2>3, <1>4
<1>9. QED
  BY <1>6, <1>7, <1>8 DEF SessionInv

\* The connection that resumes or takes over a session becomes the latest of its
\* participant, behind the one it replaces.
LEMMA TakeSessionStep ==
  ASSUME TypeOK, SessionInv, NEW c \in Conns, NEW p \in Ids, NEW q \in Conns,
         q = pending[p] \/ q = active[p],
         TakeSession(c, p, q), pending' = [pending EXCEPT ![p] = None],
         created' = created
  PROVE  SessionInv'
<1> USE SessionAssumptions
<1>1. /\ pc[c] = "open" /\ who[c] = None
      /\ who' = [who EXCEPT ![c] = p] /\ turn' = [turn EXCEPT ![c] = turn[q] + 1]
      /\ prev' = [prev EXCEPT ![c] = q] /\ active' = [active EXCEPT ![p] = c]
      /\ pc' = [pc EXCEPT ![c] = "waiting"]
  BY DEF TakeSession, Goto, SessionInv, NamesAreCreated
<1>2. who[q] = p /\ Latest(q) /\ p # None /\ q # c /\ q # None /\ p \in created
  BY <1>1 DEF SessionInv, TablesNameLatest, NamesAreCreated
<1>3. \A d \in Conns : turn[d] \in Nat
  BY DEF TypeOK
<1>4. /\ who'[c] = p /\ turn'[c] = turn[q] + 1 /\ prev'[c] = q /\ pc'[c] = "waiting"
      /\ \A d \in Conns \ {c} : /\ who'[d] = who[d] /\ turn'[d] = turn[d]
                                /\ prev'[d] = prev[d] /\ pc'[d] = pc[d]
  BY <1>1 DEF TypeOK
<1>5. /\ active'[p] = c /\ pending'[p] = None
      /\ \A r \in Ids \ {p} : active'[r] = active[r] /\ pending'[r] = pending[r]
  BY <1>1 DEF TypeOK
<1>6. \A d \in Conns \ {c} : who[d] = p => turn[d] < turn'[c]
  BY <1>2, <1>3, <1>4 DEF Latest
<1>7. Latest(c)'
  BY <1>3, <1>4, <1>6 DEF Latest
<1>8. \A d \in Conns \ {c} : who[d] # p /\ Latest(d) => Latest(d)'
  BY <1>4 DEF Latest
<1>9. NamesAreCreated'
  BY <1>2, <1>4 DEF SessionInv, NamesAreCreated
<1>10. TurnsDiffer'
  <2> SUFFICES ASSUME NEW d \in Conns, NEW e \in Conns, d # e, who'[d] = who'[e],
                      who'[d] # None
               PROVE  turn'[d] # turn'[e]
    BY DEF TurnsDiffer
  <2>1. CASE d = c
    BY <2>1, <1>3, <1>4, <1>6
  <2>2. CASE e = c
    BY <2>2, <1>3, <1>4, <1>6
  <2>3. CASE d # c /\ e # c
    BY <2>3, <1>4 DEF SessionInv, TurnsDiffer
  <2>4. QED
    BY <2>1, <2>2, <2>3
<1>11. TablesNameLatest'
  <2> SUFFICES ASSUME NEW r \in Ids
               PROVE  /\ active'[r] # None => who'[active'[r]] = r /\ Latest(active[r])'
                                              /\ pending'[r] = None
                      /\ pending'[r] # None => who'[pending'[r]] = r /\ Latest(pending[r])'
    BY DEF TablesNameLatest
  <2>1. CASE r = p
    BY <2>1, <1>4, <1>5, <1>7 DEF Latest
  <2>2. CASE r # p
    <3>1. /\ active[r] \in Conns \union {None} /\ pending[r] \in Conns \union {None}
          /\ r # None
      BY DEF TypeOK
    <3>2. /\ active[r] # None => who[active[r]] = r /\ Latest(active[r]) /\ pending[r] = None
          /\ pending[r] # None => who[pending[r]] = r /\ Latest(pending[r])
      BY DEF SessionInv, TablesNameLatest
    <3>3. active'[r] = active[r] /\ pending'[r] = pending[r]
      BY <2>2, <1>5
    <3>4. \A d \in Conns : who[d] = r /\ Latest(d) => who'[d] = r /\ Latest(d)'
      BY <2>2, <3>1, <1>1, <1>4, <1>8
    <3>5. QED
      BY <3>1, <3>2, <3>3, <3>4 DEF Latest
  <2>3. QED
    BY <2>1, <2>2
<1>12. WaitsForPredecessor'
  <2> SUFFICES ASSUME NEW d \in Conns, pc'[d] = "waiting"
               PROVE  who'[prev'[d]] = who'[d] /\ turn'[d] = turn'[prev'[d]] + 1
    BY DEF WaitsForPredecessor
  <2>1. CASE d = c
    BY <2>1, <1>2, <1>4
  <2>2. CASE d # c
    <3>1. /\ prev[d] \in Conns /\ who[prev[d]] = who[d] /\ who[d] # None
          /\ turn[d] = turn[prev[d]] + 1
      BY <2>2, <1>4 DEF SessionInv, WaitsForPredecessor, TypeOK
    <3>2. prev[d] # c
      BY <3>1, <1>1
    <3>3. QED
      BY <2>2, <3>1, <3>2, <1>4
  <2>3. QED
    BY <2>1, <2>2
<1>13. LaterOnesWait'
  <2> SUFFICES ASSUME NEW d \in Conns, NEW e \in Conns, who'[d] = who'[e],
                      who'[d] # None, turn'[d] < turn'[e], pc'[d] # "done"
               PROVE  pc'[e] = "waiting"
    BY DEF LaterOnesWait
  <2>1. CASE e = c
    BY <2>1, <1>4
  <2>2. CASE d = c /\ e # c
    BY <2>2, <1>3, <1>4, <1>6
  <2>3. CASE d # c /\ e # c
    BY <2>3, <1>4 DEF SessionInv, LaterOnesWait
  <2>4. QED
    BY <2>1, <2>2, <2>3
<1>14. TokenIsUnbound'
  <2> SUFFICES ASSUME NEW d \in Conns, pc'[d] \in {"named", "grace"}
               PROVE  active'[who'[d]] = None /\ pending'[who'[d]] = None /\ Latest(d)'
    BY DEF TokenIsUnbound
  <2>1. d # c /\ pc[d] \in {"named", "grace"} /\ who'[d] = who[d]
    BY <1>4
  <2>2. active[who[d]] = None /\ pending[who[d]] = None /\ Latest(d) /\ who[d] \in Ids
    BY <2>1 DEF SessionInv, TokenIsUnbound, TypeOK
  <2>3. who[d] # p
    BY <2>2, <1>2
  <2>4. QED
    BY <2>1, <2>2, <2>3, <1>5, <1>8
<1>15. QED
  BY <1>9, <1>10, <1>11, <1>12, <1>13, <1>14 DEF SessionInv

\* A connection whose predecessor is done has no unfinished one before it.
LEMMA AwaitPreviousStep ==
  ASSUME TypeOK, SessionInv, NEW c \in Conns, AwaitPrevious(c)
  PROVE  SessionInv'
<1> USE SessionAssumptions
<1>1. /\ pc[c] = "waiting" /\ pc[prev[c]] = "done"
      /\ pc' = [pc EXCEPT ![c] = "setup"]
      /\ UNCHANGED <<who, prev, turn, active, pending, created>>
  BY DEF AwaitPrevious, Goto, slotVars, hubVars
<1>2. /\ prev[c] \in Conns /\ who[prev[c]] = who[c] /\ who[c] # None
      /\ turn[c] = turn[prev[c]] + 1
  BY <1>1 DEF SessionInv, WaitsForPredecessor, TypeOK
<1>3. pc'[c] = "setup" /\ \A d \in Conns \ {c} : pc'[d] = pc[d]
  BY <1>1 DEF TypeOK
<1>4. \A d \in Conns : Latest(d)' <=> Latest(d)
  BY <1>1 DEF Latest
<1>5. NamesAreCreated' /\ TurnsDiffer' /\ WaitsForPredecessor'
  BY <1>1, <1>3 DEF SessionInv, NamesAreCreated, TurnsDiffer, WaitsForPredecessor
<1>6. TablesNameLatest'
  BY <1>1, <1>4 DEF SessionInv, TablesNameLatest, TypeOK
<1>7. TokenIsUnbound'
  BY <1>1, <1>3, <1>4 DEF SessionInv, TokenIsUnbound
<1>8. LaterOnesWait'
  <2> SUFFICES ASSUME NEW d \in Conns, NEW e \in Conns, who[d] = who[e], who[d] # None,
                      turn[d] < turn[e], pc'[d] # "done"
               PROVE  pc'[e] = "waiting"
    BY <1>1 DEF LaterOnesWait
  <2>1. pc[d] # "done"
    BY <1>1, <1>3
  <2>2. pc[e] = "waiting"
    BY <2>1 DEF SessionInv, LaterOnesWait
  <2>3. e # c
    <3> SUFFICES ASSUME e = c
                 PROVE  FALSE
      OBVIOUS
    <3>1. turn[d] \in Nat /\ turn[prev[c]] \in Nat /\ d # prev[c]
      BY <1>1, <1>2, <2>1 DEF TypeOK
    <3>2. turn[d] # turn[prev[c]]
      BY <3>1, <1>2 DEF SessionInv, TurnsDiffer
    <3>3. turn[d] < turn[prev[c]]
      BY <3>1, <3>2, <1>2
    <3>4. pc[prev[c]] = "waiting"
      BY <3>3, <2>1, <1>2 DEF SessionInv, LaterOnesWait
    <3>5. QED
      BY <3>4, <1>1
  <2>4. QED
    BY <2>2, <2>3, <1>3
<1>9. QED
  BY <1>5, <1>6, <1>7, <1>8 DEF SessionInv

\* Only the latest connection of a participant unbinds its token, and a
\* superseded one goes its way quietly.
LEMMA DropStep ==
  ASSUME TypeOK, SessionInv, NEW c \in Conns, Drop(c)
  PROVE  SessionInv'
<1> USE SessionAssumptions
<1>1. /\ pc[c] = "drop" /\ who[c] \in Ids
      /\ UNCHANGED <<who, prev, turn, pending, created>>
  BY DEF Drop, slotVars, TypeOK
<1>2. CASE active[who[c]] # c
  <2>1. active' = active /\ pc' = [pc EXCEPT ![c] = "retire"]
    BY <1>2 DEF Drop, Goto
  <2>2. Quiet
    BY <1>1, <2>1 DEF Quiet, TypeOK
  <2>3. QED
    BY <2>2, QuietStep
<1>3. CASE active[who[c]] = c
  <2>1. /\ active' = [active EXCEPT ![who[c]] = None]
        /\ pc' = [pc EXCEPT ![c] = "grace"] \/ pc' = [pc EXCEPT ![c] = "teardown"]
    BY <1>3 DEF Drop, Goto
  <2>2. pending[who[c]] = None /\ Latest(c)
    BY <1>1, <1>3 DEF SessionInv, TablesNameLatest, TypeOK
  <2>3. /\ pc'[c] \in {"grace", "teardown"} /\ \A d \in Conns \ {c} : pc'[d] = pc[d]
        /\ active'[who[c]] = None
        /\ \A q \in Ids \ {who[c]} : active'[q] = active[q]
    BY <1>1, <2>1 DEF TypeOK
  <2>4. \A d \in Conns : Latest(d)' <=> Latest(d)
    BY <1>1 DEF Latest
  <2>5. NamesAreCreated' /\ TurnsDiffer' /\ WaitsForPredecessor' /\ LaterOnesWait'
    BY <1>1, <2>3 DEF SessionInv, NamesAreCreated, TurnsDiffer, WaitsForPredecessor,
                      LaterOnesWait
  <2>6. TablesNameLatest'
    BY <1>1, <2>3, <2>4 DEF SessionInv, TablesNameLatest, TypeOK
  <2>7. TokenIsUnbound'
    <3> SUFFICES ASSUME NEW d \in Conns, pc'[d] \in {"named", "grace"}
                 PROVE  active'[who[d]] = None /\ pending[who[d]] = None /\ Latest(d)
      BY <1>1, <2>4 DEF TokenIsUnbound
    <3>1. CASE d = c
      BY <3>1, <2>2, <2>3
    <3>2. CASE d # c
      <4>1. pc[d] \in {"named", "grace"}
        BY <3>2, <2>3
      <4>2. active[who[d]] = None /\ pending[who[d]] = None /\ Latest(d) /\ who[d] \in Ids
        BY <4>1 DEF SessionInv, TokenIsUnbound, TypeOK
      <4>3. QED
        BY <4>2, <2>3
    <3>3. QED
      BY <3>1, <3>2
  <2>8. QED
    BY <2>5, <2>6, <2>7 DEF SessionInv
<1>4. QED
  BY <1>2, <1>3

\* The pending entry goes to the latest connection of its participant.
LEMMA OpenGraceStep ==
  ASSUME TypeOK, SessionInv, NEW c \in Conns, OpenGrace(c)
  PROVE  SessionInv'
<1> USE SessionAssumptions
<1>1. /\ pc[c] = "grace" /\ who[c] \in Ids
      /\ UNCHANGED <<who, prev, turn, active, created>>
  BY DEF OpenGrace, slotVars, TypeOK
<1>2. CASE closed
  <2>1. pending' = pending /\ pc' = [pc EXCEPT ![c] = "remove"]
    BY <1>2 DEF OpenGrace, Goto
  <2>2. Quiet
    BY <1>1, <2>1 DEF Quiet, TypeOK
  <2>3. QED
    BY <2>2, QuietStep
<1>3. CASE ~closed
  <2>1. pending' = [pending EXCEPT ![who[c]] = c] /\ pc' = [pc EXCEPT ![c] = "tellLeft"]
    BY <1>3 DEF OpenGrace, Goto
  <2>2. active[who[c]] = None /\ Latest(c)
    BY <1>1 DEF SessionInv, TokenIsUnbound
  <2>3. /\ pc'[c] = "tellLeft" /\ \A d \in Conns \ {c} : pc'[d] = pc[d]
        /\ pending'[who[c]] = c
        /\ \A q \in Ids \ {who[c]} : pending'[q] = pending[q]
    BY <1>1, <2>1 DEF TypeOK
  <2>4. \A d \in Conns : Latest(d)' <=> Latest(d)
    BY <1>1 DEF Latest
  <2>5. NamesAreCreated' /\ TurnsDiffer' /\ WaitsForPredecessor' /\ LaterOnesWait'
    BY <1>1, <2>3 DEF SessionInv, NamesAreCreated, TurnsDiffer, WaitsForPredecessor,
                      LaterOnesWait
  <2>6. TablesNameLatest'
    BY <1>1, <2>2, <2>3, <2>4 DEF SessionInv, TablesNameLatest, TypeOK
  <2>7. TokenIsUnbound'
    <3> SUFFICES ASSUME NEW d \in Conns, pc'[d] \in {"named", "grace"}
                 PROVE  active[who[d]] = None /\ pending'[who[d]] = None /\ Latest(d)
      BY <1>1, <2>4 DEF TokenIsUnbound
    <3>1. d # c /\ pc[d] \in {"named", "grace"}
      BY <2>3
    <3>2. active[who[d]] = None /\ pending[who[d]] = None /\ Latest(d) /\ who[d] \in Ids
      BY <3>1 DEF SessionInv, TokenIsUnbound, TypeOK
    <3>3. who[d] # who[c]
      <4> SUFFICES ASSUME who[d] = who[c]
                   PROVE  FALSE
        OBVIOUS
      <4>1. turn[c] \in Nat /\ turn[d] \in Nat /\ turn[c] <= turn[d] /\ turn[d] <= turn[c]
        BY <2>2, <3>2 DEF Latest, TypeOK
      <4>2. QED
        BY <4>1, <3>1, <1>1 DEF SessionInv, TurnsDiffer
    <3>4. QED
      BY <3>2, <3>3, <2>3
  <2>8. QED
    BY <2>5, <2>6, <2>7 DEF SessionInv
<1>4. QED
  BY <1>2, <1>3

\* The invariant is kept by every step of every connection, timer and shutdown.
LEMMA SessionInvariant == Spec => []SessionInv
<1>1. Init => SessionInv
  BY SessionAssumptions DEF Init, SessionInv, NamesAreCreated, TurnsDiffer,
     TablesNameLatest, WaitsForPredecessor, LaterOnesWait, TokenIsUnbound
<1>2. TypeOK /\ SessionInv /\ [Next]_vars => SessionInv'
  <2> SUFFICES ASSUME TypeOK, SessionInv, [Next]_vars
               PROVE  SessionInv'
    OBVIOUS
  <2> USE SessionAssumptions
  <2>1. ASSUME NEW c \in Conns, Connect(c)
        PROVE  Quiet
    BY <2>1
       DEF Quiet, TypeOK, Connect, Goto, connVars, hubVars, slotVars,
           JoinSteps, RoomSteps
  <2>2. ASSUME NEW c \in Conns, LoopExit(c)
        PROVE  Quiet
    BY <2>2
       DEF Quiet, TypeOK, LoopExit, Goto, connVars, hubVars, slotVars,
           JoinSteps, RoomSteps
  <2>3. ASSUME NEW c \in Conns, LeaveMessage(c)
        PROVE  Quiet
    BY <2>3
       DEF Quiet, TypeOK, LeaveMessage, Goto, connVars, hubVars,
           slotVars, JoinSteps, RoomSteps
  <2>4. ASSUME NEW c \in Conns, BindToken(c)
        PROVE  SessionInv'
    BY <2>4, BindTokenStep
  <2>5. ASSUME NEW c \in Conns, ClosePrevious(c)
        PROVE  Quiet
    BY <2>5
       DEF Quiet, TypeOK, ClosePrevious, connVars, hubVars, slotVars,
           JoinSteps, RoomSteps
  <2>6. ASSUME NEW c \in Conns, AwaitPrevious(c)
        PROVE  SessionInv'
    BY <2>6, AwaitPreviousStep
  <2>7. ASSUME NEW c \in Conns, RegisterPeer(c)
        PROVE  Quiet
    BY <2>7
       DEF Quiet, TypeOK, RegisterPeer, Goto, connVars, hubVars,
           slotVars, JoinSteps, RoomSteps
  <2>8. ASSUME NEW c \in Conns, PeerSetupFails(c)
        PROVE  Quiet
    BY <2>8
       DEF Quiet, TypeOK, PeerSetupFails, Goto, connVars, hubVars,
           slotVars, JoinSteps, RoomSteps
  <2>9. ASSUME NEW c \in Conns, ExpireAdmission(c)
        PROVE  Quiet
    BY <2>9
       DEF Quiet, TypeOK, ExpireAdmission, connVars, hubVars, slotVars,
           JoinSteps, RoomSteps
  <2>10. ASSUME NEW c \in Conns, Admit(c)
        PROVE  Quiet
    BY <2>10
       DEF Quiet, TypeOK, Admit, Goto, connVars, hubVars, slotVars,
           JoinSteps, RoomSteps
  <2>11. ASSUME NEW c \in Conns, AdmitFails(c)
        PROVE  Quiet
    BY <2>11
       DEF Quiet, TypeOK, AdmitFails, Goto, connVars, hubVars, slotVars,
           JoinSteps, RoomSteps
  <2>12. ASSUME NEW c \in Conns, Announce(c)
        PROVE  Quiet
    BY <2>12
       DEF Quiet, TypeOK, Announce, Goto, connVars, hubVars, slotVars,
           JoinSteps, RoomSteps
  <2>13. ASSUME NEW c \in Conns, Cleanup(c)
        PROVE  Quiet
    BY <2>13
       DEF Quiet, TypeOK, Cleanup, Goto, connVars, hubVars, slotVars,
           JoinSteps, RoomSteps
  <2>14. ASSUME NEW c \in Conns, Drop(c)
        PROVE  SessionInv'
    BY <2>14, DropStep
  <2>15. ASSUME NEW c \in Conns, Retire(c)
        PROVE  Quiet
    BY <2>15
       DEF Quiet, TypeOK, Retire, Goto, connVars, hubVars, slotVars,
           JoinSteps, RoomSteps
  <2>16. ASSUME NEW c \in Conns, Teardown(c)
        PROVE  Quiet
    BY <2>16
       DEF Quiet, TypeOK, Teardown, Goto, connVars, hubVars, slotVars,
           JoinSteps, RoomSteps
  <2>17. ASSUME NEW c \in Conns, OpenGrace(c)
        PROVE  SessionInv'
    BY <2>17, OpenGraceStep
  <2>18. ASSUME NEW c \in Conns, TellLeft(c)
        PROVE  Quiet
    BY <2>18
       DEF Quiet, TypeOK, TellLeft, Goto, connVars, hubVars, slotVars,
           JoinSteps, RoomSteps
  <2>19. ASSUME NEW c \in Conns, ArmTimer(c)
        PROVE  Quiet
    BY <2>19
       DEF Quiet, TypeOK, ArmTimer, Goto, connVars, hubVars, slotVars,
           JoinSteps, RoomSteps
  <2>20. ASSUME NEW c \in Conns, Remove(c)
        PROVE  Quiet
    BY <2>20
       DEF Quiet, TypeOK, Remove, Goto, connVars, hubVars, slotVars,
           JoinSteps, RoomSteps
  <2>21. ASSUME NEW c \in Conns, TellGone(c)
        PROVE  Quiet
    BY <2>21
       DEF Quiet, TypeOK, TellGone, Goto, connVars, hubVars, slotVars,
           JoinSteps, RoomSteps
  <2>22. ASSUME NEW c \in Conns, TimerFires(c)
        PROVE  Quiet
    BY <2>22
       DEF Quiet, TypeOK, TimerFires, connVars, hubVars, slotVars,
           JoinSteps, RoomSteps
  <2>23. ASSUME NEW c \in Conns, ExpireEntry(c)
        PROVE  Quiet
    BY <2>23
       DEF Quiet, TypeOK, ExpireEntry, connVars, hubVars, slotVars,
           JoinSteps, RoomSteps
  <2>24. ASSUME NEW c \in Conns, ExpireMedia(c)
        PROVE  Quiet
    BY <2>24
       DEF Quiet, TypeOK, ExpireMedia, connVars, hubVars, slotVars,
           JoinSteps, RoomSteps
  <2>25. ASSUME NEW c \in Conns, ExpireSlot(c)
        PROVE  Quiet
    BY <2>25
       DEF Quiet, TypeOK, ExpireSlot, connVars, hubVars, slotVars,
           JoinSteps, RoomSteps
  <2>26. ASSUME NEW c \in Conns, NEW p \in Ids, JoinFresh(c, p)
        PROVE  SessionInv'
    BY <2>26, JoinFreshStep
  <2>27. ASSUME NEW c \in Conns, NEW p \in Ids, ReclaimPending(c, p)
        PROVE  SessionInv'
    <3>1. pending[p] \in Conns /\ TakeSession(c, p, pending[p]) /\ created' = created
      BY <2>27 DEF ReclaimPending, TypeOK, slotVars
    <3>2. pending' = [pending EXCEPT ![p] = None]
      BY <2>27 DEF ReclaimPending, TypeOK
    <3>3. QED
      BY <3>1, <3>2, TakeSessionStep
  <2>28. ASSUME NEW c \in Conns, NEW p \in Ids, ReclaimActive(c, p)
        PROVE  SessionInv'
    <3>1. active[p] \in Conns /\ TakeSession(c, p, active[p]) /\ created' = created
      BY <2>28 DEF ReclaimActive, TypeOK, slotVars
    <3>2. pending' = [pending EXCEPT ![p] = None]
      BY <2>28 DEF ReclaimActive, TypeOK
    <3>3. QED
      BY <3>1, <3>2, TakeSessionStep
  <2>29. ASSUME CloseHub
        PROVE  Quiet
    BY <2>29
       DEF Quiet, TypeOK, CloseHub, InGrace, connVars, hubVars, slotVars,
           JoinSteps, RoomSteps
  <2>30. ASSUME NEW p \in Ids, CloseFreesSlot(p)
        PROVE  Quiet
    BY <2>30
       DEF Quiet, TypeOK, CloseFreesSlot, connVars, hubVars, slotVars,
           JoinSteps, RoomSteps
  <2>31. ASSUME CloseSockets
        PROVE  Quiet
    BY <2>31
       DEF Quiet, TypeOK, CloseSockets, connVars, hubVars, slotVars,
           JoinSteps, RoomSteps
  <2>32. CASE UNCHANGED vars
    <3>1. Quiet
      BY <2>32 DEF Quiet, vars, connVars, hubVars, slotVars
    <3>2. QED
      BY <3>1, QuietStep
  <2>33. ASSUME NEW c \in Conns, JoinPath(c)
        PROVE  SessionInv'
    BY <2>33, <2>1, <2>2, <2>3, <2>4, <2>5, <2>6, <2>7, <2>8, <2>9, <2>10,
       <2>11, <2>12, <2>26, <2>27, <2>28, QuietStep
       DEF JoinPath
  <2>34. ASSUME NEW c \in Conns, CleanupPath(c)
        PROVE  SessionInv'
    BY <2>34, <2>13, <2>14, <2>15, <2>16, <2>17, <2>18, <2>19, <2>20, <2>21,
       QuietStep
       DEF CleanupPath
  <2>35. ASSUME NEW c \in Conns, TimerPath(c)
        PROVE  SessionInv'
    BY <2>35, <2>22, <2>23, <2>24, <2>25, QuietStep DEF TimerPath
  <2>36. QED
    BY <2>29, <2>30, <2>31, <2>32, <2>33, <2>34, <2>35, QuietStep
       DEF Next, ClosePath, Idle
<1>3. QED
  BY <1>1, <1>2, SessionsTypeOK, PTL DEF Spec

\* One connection at a time acts for a participant, however often its session is resumed
\* or taken over (hub.go, reclaim and disconnect).
THEOREM OneSessionActs == Spec => []OneActingSession
<1>1. TypeOK /\ SessionInv => OneActingSession
  <2> SUFFICES ASSUME TypeOK, SessionInv, NEW c \in Conns, NEW d \in Conns,
                      Acting(c), Acting(d), who[c] = who[d], c # d
               PROVE  FALSE
    BY DEF OneActingSession
  <2>1. turn[c] \in Nat /\ turn[d] \in Nat /\ who[c] # None
    BY DEF TypeOK, Acting
  <2>2. turn[c] < turn[d] \/ turn[d] < turn[c]
    BY <2>1 DEF SessionInv, TurnsDiffer
  <2>3. pc[c] = "waiting" \/ pc[d] = "waiting"
    BY <2>1, <2>2 DEF SessionInv, LaterOnesWait, Acting, RoomSteps, CleanupSteps
  <2>4. QED
    BY <2>3 DEF Acting, RoomSteps, CleanupSteps
<1>2. QED
  BY <1>1, SessionInvariant, SessionsTypeOK, PTL

(*****************************************************************************)
(* The slots.                                                                *)
(*****************************************************************************)
\* Steps at which a connection's participant holds its slot.
HeldSteps == {"named", "waiting", "setup", "admit", "announce", "room", "cleanup", "drop",
              "retire", "teardown", "grace", "remove"}

\* Steps at which active may name a connection, those that a session may be taken over
\* at, and those of one whose entry is pending.
ActiveSteps == {"waiting", "setup", "admit", "announce", "room", "cleanup", "drop"}
EntrySteps == {"tellLeft", "arm", "done"}
RegisteredSteps == {"admit", "announce", "room"}

\* c is about to free the slot of its participant.
Parting(c) == pc[c] \in {"teardown", "remove"} \/ timer[c] \in {"lapsed", "leaving"}

\* Somebody resumed or took over the session that c carried.
Followed(c) == \E d \in Conns : who[d] = who[c] /\ turn[d] > turn[c]

\* The token tables and the slots agree.
SlotIsHeld ==
  /\ participants \subseteq created
  /\ \A c \in Conns : who[c] # None /\ pc[c] \in HeldSteps => who[c] \in participants
  /\ \A c \in Conns : pc[c] = "tellGone" => who[c] \notin participants
EntryIsHeld ==
  \A p \in Ids : pending[p] # None =>
    /\ p \in participants
    /\ pc[pending[p]] \in EntrySteps
    /\ pc[pending[p]] = "done" => timer[pending[p]] \in {"armed", "fired"}
ActiveIsLive == \A p \in Ids : active[p] # None => pc[active[p]] \in ActiveSteps

\* Who frees a slot is the last connection that carried the participant, and nobody can
\* resume it any more.
PartingIsLast ==
  \A c \in Conns : Parting(c) =>
    active[who[c]] = None /\ pending[who[c]] = None /\ Latest(c)
EvictedIsLast ==
  \A p \in evicting :
    /\ active[p] = None /\ pending[p] = None
    /\ \E c \in Conns : who[c] = p /\ Latest(c) /\ pc[c] \in EntrySteps
TimerIsLast == \A c \in Conns : timer[c] # "off" => pc[c] = "done" /\ who[c] # None

\* A session that lost its token, or its entry, has a successor or is being evicted.
LosersAreFollowed ==
  /\ \A c \in Conns :
       /\ who[c] # None
       /\ pc[c] \in ActiveSteps \union {"retire"}
       /\ active[who[c]] # c
       => Followed(c)
  /\ \A c \in Conns :
       /\ pc[c] \in {"tellLeft", "arm"}
       /\ pending[who[c]] # c
       /\ who[c] \in participants
       => Followed(c) \/ who[c] \in evicting

SlotInv == /\ SlotIsHeld /\ EntryIsHeld /\ ActiveIsLive
           /\ PartingIsLast /\ EvictedIsLast /\ TimerIsLast
           /\ LosersAreFollowed
           /\ SlotHasOwner

----------------------------------------------------------------------------
(* Who is alone in carrying a participant.                                 *)

\* All connections before the last one of a participant are done, unless it waits.
LEMMA LastIsAlone ==
  ASSUME TypeOK, SessionInv, NEW c \in Conns, NEW d \in Conns, who[c] = who[d],
         who[c] # None, c # d, Latest(c), pc[c] # "waiting"
  PROVE  pc[d] = "done"
<1>1. turn[c] \in Nat /\ turn[d] \in Nat /\ turn[d] <= turn[c] /\ turn[c] # turn[d]
  BY DEF TypeOK, Latest, SessionInv, TurnsDiffer
<1>2. turn[d] < turn[c]
  BY <1>1
<1>3. QED
  BY <1>2 DEF SessionInv, LaterOnesWait

\* While one connection acts, the others of its participant wait or are done.
LEMMA ActorIsAlone ==
  ASSUME TypeOK, SessionInv, NEW c \in Conns, NEW d \in Conns, who[c] = who[d],
         who[c] # None, c # d, pc[c] \notin {"waiting", "done"}
  PROVE  pc[d] \in {"waiting", "done"}
<1>1. turn[c] \in Nat /\ turn[d] \in Nat /\ turn[c] # turn[d]
  BY DEF TypeOK, SessionInv, TurnsDiffer
<1>2. turn[c] < turn[d] \/ turn[d] < turn[c]
  BY <1>1
<1>3. QED
  BY <1>2 DEF SessionInv, LaterOnesWait

\* Two connections cannot both be the last of a participant.
LEMMA OneLatest ==
  ASSUME TypeOK, SessionInv, NEW c \in Conns, NEW d \in Conns, who[c] = who[d],
         who[c] # None, Latest(c), Latest(d)
  PROVE  c = d
<1>1. turn[c] \in Nat /\ turn[d] \in Nat /\ turn[d] <= turn[c] /\ turn[c] <= turn[d]
  BY DEF TypeOK, Latest
<1>2. QED
  BY <1>1 DEF SessionInv, TurnsDiffer

\* Who comes after whom depends on who and turn alone.
LEMMA SameTurns ==
  ASSUME UNCHANGED <<who, turn>>
  PROVE  \A c \in Conns : (Latest(c)' <=> Latest(c)) /\ (Followed(c)' <=> Followed(c))
BY DEF Latest, Followed

----------------------------------------------------------------------------
(* Steps that leave tokens and slots alone.                                *)

\* What a step may do to a connection's place and timer without any bearing on the
\* tables and the slots.
Calm ==
  /\ UNCHANGED <<who, turn, prev, active, pending, participants, created, evicting>>
  /\ \A c \in Conns :
       /\ timer'[c] = timer[c] \/ (timer[c] = "armed" /\ timer'[c] = "fired")
       /\ pc[c] = "done" => pc'[c] = "done"
       /\ pc[c] \in EntrySteps => pc'[c] \in EntrySteps
       /\ pc'[c] \in {"tellLeft", "arm"} => pc[c] \in {"tellLeft", "arm"}
       /\ pc'[c] \in {"teardown", "remove"} => pc[c] \in {"teardown", "remove"}
       /\ pc'[c] = "tellGone" => pc[c] = "tellGone"
       /\ \/ who[c] = None
          \/ /\ pc'[c] \in HeldSteps => pc[c] \in HeldSteps
             /\ pc'[c] = "done" => pc[c] \in {"done", "retire", "tellGone"}
             /\ pc[c] \in ActiveSteps => pc'[c] \in ActiveSteps
             /\ pc'[c] \in ActiveSteps \union {"retire"} => pc[c] \in ActiveSteps \union {"retire"}

\* A calm step preserves the invariant.
LEMMA CalmStep ==
  ASSUME TypeOK, SessionInv, SlotInv, Calm
  PROVE  SlotInv'
<1> USE SessionAssumptions
<1>0. \A c \in Conns : (Latest(c)' <=> Latest(c)) /\ (Followed(c)' <=> Followed(c))
  BY SameTurns DEF Calm
<1>1. SlotIsHeld'
  BY DEF SlotInv, SlotIsHeld, Calm
<1>2. EntryIsHeld'
  <2> SUFFICES ASSUME NEW p \in Ids, pending[p] # None
               PROVE  /\ p \in participants
                      /\ pc'[pending[p]] \in EntrySteps
                      /\ pc'[pending[p]] = "done" => timer'[pending[p]] \in {"armed", "fired"}
    BY DEF EntryIsHeld, Calm
  <2>1. pending[p] \in Conns /\ who[pending[p]] = p /\ p # None
    BY DEF TypeOK, SessionInv, TablesNameLatest
  <2>2. /\ p \in participants /\ pc[pending[p]] \in EntrySteps
        /\ pc[pending[p]] = "done" => timer[pending[p]] \in {"armed", "fired"}
    BY DEF SlotInv, EntryIsHeld
  <2>3. QED
    BY <2>1, <2>2 DEF Calm, EntrySteps
<1>3. ActiveIsLive'
  <2> SUFFICES ASSUME NEW p \in Ids, active[p] # None
               PROVE  pc'[active[p]] \in ActiveSteps
    BY DEF ActiveIsLive, Calm
  <2>1. active[p] \in Conns /\ who[active[p]] = p /\ p # None
    BY DEF TypeOK, SessionInv, TablesNameLatest
  <2>2. QED
    BY <2>1 DEF SlotInv, ActiveIsLive, Calm
<1>4. PartingIsLast'
  BY <1>0 DEF SlotInv, PartingIsLast, Parting, Calm
<1>5. EvictedIsLast'
  BY <1>0 DEF SlotInv, EvictedIsLast, Calm
<1>6. TimerIsLast'
  BY DEF SlotInv, TimerIsLast, Calm
<1>7. LosersAreFollowed'
  BY <1>0 DEF SlotInv, LosersAreFollowed, Calm
<1>8. SlotHasOwner'
  <2> SUFFICES ASSUME NEW p \in participants
               PROVE  \/ \E c \in Conns : who[c] = p /\ pc'[c] # "done"
                      \/ /\ pending[p] # None
                         /\ timer'[pending[p]] \in {"armed", "fired"}
                      \/ \E c \in Conns : who[c] = p /\ timer'[c] \in {"lapsed", "leaving"}
                      \/ p \in evicting
    BY DEF SlotHasOwner, Calm
  <2>0. p \in Ids /\ p # None /\ pending[p] \in Conns \union {None}
    BY DEF TypeOK
  <2>1. CASE \E c \in Conns : who[c] = p /\ pc[c] # "done"
    <3>1. PICK c \in Conns : who[c] = p /\ pc[c] # "done"
      BY <2>1
    <3>2. CASE pc'[c] # "done"
      BY <3>1, <3>2
    <3>3. CASE pc'[c] = "done"
      <4>1. pc[c] \in {"retire", "tellGone"}
        BY <3>1, <3>3, <2>0 DEF Calm
      <4>2. pc[c] = "retire"
        BY <4>1, <3>1 DEF SlotInv, SlotIsHeld
      <4>3. active[p] # c
        BY <4>2, <2>0 DEF SlotInv, ActiveIsLive, ActiveSteps
      <4>4. Followed(c)
        BY <4>2, <4>3, <3>1, <2>0 DEF SlotInv, LosersAreFollowed
      <4>5. PICK d \in Conns : who[d] = p /\ turn[d] > turn[c]
        BY <4>4, <3>1 DEF Followed
      <4>6. pc[d] = "waiting"
        BY <4>5, <4>2, <3>1, <2>0 DEF SessionInv, LaterOnesWait, TypeOK
      <4>7. pc'[d] \in ActiveSteps
        BY <4>5, <4>6, <2>0 DEF Calm, ActiveSteps
      <4>8. QED
        BY <4>5, <4>7 DEF ActiveSteps
    <3>4. QED
      BY <3>2, <3>3
  <2>2. CASE pending[p] # None /\ timer[pending[p]] \in {"armed", "fired"}
    BY <2>0, <2>2 DEF Calm
  <2>3. CASE \E c \in Conns : who[c] = p /\ timer[c] \in {"lapsed", "leaving"}
    BY <2>3 DEF Calm
  <2>4. CASE p \in evicting
    BY <2>4
  <2>5. QED
    BY <2>1, <2>2, <2>3, <2>4 DEF SlotInv, SlotHasOwner
<1>9. QED
  BY <1>1, <1>2, <1>3, <1>4, <1>5, <1>6, <1>7, <1>8 DEF SlotInv
----------------------------------------------------------------------------
(* Steps that give out slots and tokens.                                   *)

\* A join takes a slot for a participant that nobody carried before.
LEMMA JoinFreshSlots ==
  ASSUME TypeOK, SessionInv, SlotInv, NEW c \in Conns, NEW p \in Ids, JoinFresh(c, p)
  PROVE  SlotInv'
<1> USE SessionAssumptions
<1>1. /\ pc[c] = "open" /\ who[c] = None /\ p \notin created
      /\ participants' = participants \union {p} /\ created' = created \union {p}
      /\ who' = [who EXCEPT ![c] = p] /\ turn' = [turn EXCEPT ![c] = 1]
      /\ pc' = [pc EXCEPT ![c] = "named"]
      /\ UNCHANGED <<active, pending, timer, evicting>>
  BY DEF JoinFresh, Goto, hubVars, SessionInv, NamesAreCreated
<1>2. /\ who'[c] = p /\ pc'[c] = "named"
      /\ \A d \in Conns \ {c} : who'[d] = who[d] /\ turn'[d] = turn[d] /\ pc'[d] = pc[d]
  BY <1>1 DEF TypeOK
<1>3. \A d \in Conns : who[d] # p
  BY <1>1 DEF SessionInv, NamesAreCreated
<1>4. active[p] = None /\ pending[p] = None /\ p \notin evicting /\ timer[c] = "off"
  BY <1>1, <1>3 DEF SessionInv, TablesNameLatest, TypeOK, SlotInv, EvictedIsLast, TimerIsLast
<1>5. \A d \in Conns \ {c} : who[d] # None =>
        (Latest(d) => Latest(d)') /\ (Followed(d) => Followed(d)')
  BY <1>1, <1>2, <1>3 DEF Latest, Followed
<1>6. \A r \in Ids : /\ r # None
                     /\ active[r] # None => active[r] \in Conns \ {c} /\ who[active[r]] = r
                     /\ pending[r] # None => pending[r] \in Conns \ {c} /\ who[pending[r]] = r
  BY <1>1 DEF SessionInv, TablesNameLatest, TypeOK
<1>7. SlotIsHeld'
  BY <1>1, <1>2, <1>3 DEF SlotInv, SlotIsHeld
<1>8. EntryIsHeld'
  BY <1>1, <1>2, <1>6 DEF SlotInv, EntryIsHeld
<1>9. ActiveIsLive'
  BY <1>1, <1>2, <1>6 DEF SlotInv, ActiveIsLive
<1>10. PartingIsLast'
  <2> SUFFICES ASSUME NEW d \in Conns, Parting(d)'
               PROVE  active[who'[d]] = None /\ pending[who'[d]] = None /\ Latest(d)'
    BY <1>1 DEF PartingIsLast
  <2>1. d # c
    BY <1>1, <1>2, <1>4 DEF Parting
  <2>2. Parting(d) /\ who'[d] = who[d]
    BY <1>1, <1>2, <2>1 DEF Parting
  <2>3. who[d] # None
    BY <2>2 DEF Parting, SlotInv, TimerIsLast, TypeOK
  <2>4. QED
    BY <2>1, <2>2, <2>3, <1>5 DEF SlotInv, PartingIsLast
<1>11. EvictedIsLast'
  <2> SUFFICES ASSUME NEW r \in evicting
               PROVE  /\ active[r] = None /\ pending[r] = None
                      /\ \E d \in Conns : who'[d] = r /\ Latest(d)' /\ pc'[d] \in EntrySteps
    BY <1>1 DEF EvictedIsLast
  <2>1. active[r] = None /\ pending[r] = None
    BY DEF SlotInv, EvictedIsLast
  <2>2. PICK d \in Conns : who[d] = r /\ Latest(d) /\ pc[d] \in EntrySteps
    BY DEF SlotInv, EvictedIsLast
  <2>3. r \in Ids /\ d # c
    BY <1>1, <2>2 DEF TypeOK
  <2>4. QED
    BY <1>2, <1>5, <2>1, <2>2, <2>3
<1>12. TimerIsLast'
  BY <1>1, <1>2, <1>4 DEF SlotInv, TimerIsLast
<1>13. LosersAreFollowed'
  <2>1. ASSUME NEW d \in Conns, who'[d] # None, pc'[d] \in ActiveSteps \union {"retire"},
               active[who'[d]] # d
        PROVE  Followed(d)'
    <3>1. d # c
      BY <2>1, <1>2 DEF ActiveSteps
    <3>2. QED
      BY <2>1, <3>1, <1>2, <1>5 DEF SlotInv, LosersAreFollowed
  <2>2. ASSUME NEW d \in Conns, pc'[d] \in {"tellLeft", "arm"}, pending[who'[d]] # d,
               who'[d] \in participants'
        PROVE  Followed(d)' \/ who'[d] \in evicting
    <3>1. d # c /\ who[d] \in participants /\ who[d] # None
      BY <2>2, <1>1, <1>2, <1>3 DEF TypeOK
    <3>2. QED
      BY <2>2, <3>1, <1>2, <1>5 DEF SlotInv, LosersAreFollowed
  <2>3. QED
    BY <1>1, <2>1, <2>2 DEF LosersAreFollowed
<1>14. SlotHasOwner'
  BY <1>1, <1>2, <1>6 DEF SlotInv, SlotHasOwner, TypeOK
<1>15. QED
  BY <1>7, <1>8, <1>9, <1>10, <1>11, <1>12, <1>13, <1>14 DEF SlotInv

\* The token of a fresh join becomes active.
LEMMA BindTokenSlots ==
  ASSUME TypeOK, SessionInv, SlotInv, NEW c \in Conns, BindToken(c)
  PROVE  SlotInv'
<1> USE SessionAssumptions
<1>1. /\ pc[c] = "named" /\ active' = [active EXCEPT ![who[c]] = c]
      /\ pc' = [pc EXCEPT ![c] = "setup"]
      /\ UNCHANGED <<who, turn, pending, timer, evicting, created, participants>>
  BY DEF BindToken, Goto, slotVars
<1>2. who[c] \in Ids /\ who[c] # None /\ active[who[c]] = None /\ pending[who[c]] = None
      /\ Latest(c)
  BY <1>1 DEF SessionInv, TokenIsUnbound, TypeOK
<1>3. pc'[c] = "setup" /\ \A d \in Conns \ {c} : pc'[d] = pc[d]
  BY <1>1 DEF TypeOK
<1>4. active'[who[c]] = c /\ \A r \in Ids \ {who[c]} : active'[r] = active[r]
  BY <1>1, <1>2 DEF TypeOK
<1>5. \A d \in Conns : (Latest(d)' <=> Latest(d)) /\ (Followed(d)' <=> Followed(d))
  BY <1>1, SameTurns
<1>6. SlotIsHeld' /\ TimerIsLast'
  BY <1>1, <1>2, <1>3 DEF SlotInv, SlotIsHeld, TimerIsLast, HeldSteps
<1>7. EntryIsHeld'
  BY <1>1, <1>3 DEF SlotInv, EntryIsHeld, EntrySteps, TypeOK
<1>8. ActiveIsLive'
  BY <1>1, <1>3, <1>4 DEF SlotInv, ActiveIsLive, ActiveSteps, TypeOK
<1>9. \A d \in Conns \ {c} : who[d] = who[c] => pc[d] = "done" /\ ~Latest(d)
  BY <1>1, <1>2, LastIsAlone, OneLatest
<1>10. PartingIsLast'
  <2> SUFFICES ASSUME NEW d \in Conns, Parting(d)'
               PROVE  active'[who[d]] = None /\ pending[who[d]] = None /\ Latest(d)
    BY <1>1, <1>5 DEF PartingIsLast
  <2>1. Parting(d) /\ d # c
    BY <1>1, <1>3 DEF Parting, SlotInv, TimerIsLast
  <2>2. active[who[d]] = None /\ pending[who[d]] = None /\ Latest(d)
    BY <2>1 DEF SlotInv, PartingIsLast
  <2>3. who[d] \in Ids /\ who[d] # who[c]
    BY <2>1, <2>2, <1>9 DEF Parting, SlotInv, TimerIsLast, TypeOK
  <2>4. QED
    BY <2>2, <2>3, <1>4
<1>11. EvictedIsLast'
  <2> SUFFICES ASSUME NEW r \in evicting
               PROVE  /\ active'[r] = None /\ pending[r] = None
                      /\ \E d \in Conns : who[d] = r /\ Latest(d) /\ pc'[d] \in EntrySteps
    BY <1>1, <1>5 DEF EvictedIsLast
  <2>1. active[r] = None /\ pending[r] = None /\ r \in Ids
    BY DEF SlotInv, EvictedIsLast, TypeOK
  <2>2. PICK d \in Conns : who[d] = r /\ Latest(d) /\ pc[d] \in EntrySteps
    BY DEF SlotInv, EvictedIsLast
  <2>3. d # c /\ r # who[c]
    BY <2>2, <1>1, <1>9 DEF EntrySteps
  <2>4. QED
    BY <1>3, <1>4, <2>1, <2>2, <2>3
<1>12. LosersAreFollowed'
  BY <1>1, <1>2, <1>3, <1>4, <1>5, <1>9 DEF SlotInv, LosersAreFollowed, ActiveSteps, TypeOK
<1>13. SlotHasOwner'
  BY <1>1, <1>2, <1>3 DEF SlotInv, SlotHasOwner, TypeOK
<1>14. QED
  BY <1>6, <1>7, <1>8, <1>10, <1>11, <1>12, <1>13 DEF SlotInv

\* The connection that resumes or takes over a session follows all others of its
\* participant, and the slot is kept for it.
LEMMA TakeSessionSlots ==
  ASSUME TypeOK, SessionInv, SlotInv, NEW c \in Conns, NEW p \in Ids, NEW q \in Conns,
         q = pending[p] \/ (pending[p] = None /\ q = active[p]),
         TakeSession(c, p, q),
         pending' = [pending EXCEPT ![p] = None],
         \A d \in Conns : timer'[d] = timer[d]
                            \/ (d = q /\ timer[d] = "armed" /\ timer'[d] = "stopped"),
         UNCHANGED <<participants, created, evicting>>
  PROVE  SlotInv'
<1> USE SessionAssumptions
<1>1. /\ pc[c] = "open" /\ who[c] = None
      /\ who' = [who EXCEPT ![c] = p] /\ turn' = [turn EXCEPT ![c] = turn[q] + 1]
      /\ pc' = [pc EXCEPT ![c] = "waiting"]
      /\ active' = [active EXCEPT ![p] = c]
  BY DEF TakeSession, Goto, SessionInv, NamesAreCreated
<1>2. who[q] = p /\ Latest(q) /\ p # None /\ (active[p] # None \/ pending[p] # None)
  BY DEF SessionInv, TablesNameLatest, TypeOK
<1>3. /\ who'[c] = p /\ pc'[c] = "waiting" /\ turn'[c] = turn[q] + 1
      /\ \A d \in Conns \ {c} : who'[d] = who[d] /\ turn'[d] = turn[d] /\ pc'[d] = pc[d]
      /\ active'[p] = c /\ pending'[p] = None
      /\ \A r \in Ids \ {p} : active'[r] = active[r] /\ pending'[r] = pending[r]
  BY <1>1 DEF TypeOK
<1>4. p \in participants
  <2>1. CASE q = pending[p]
    BY <2>1 DEF SlotInv, EntryIsHeld
  <2>2. CASE q = active[p]
    <3>1. pc[q] \in HeldSteps
      BY <2>2 DEF SlotInv, ActiveIsLive, ActiveSteps, HeldSteps
    <3>2. QED
      BY <3>1, <1>2 DEF SlotInv, SlotIsHeld
  <2>3. QED
    BY <2>1, <2>2
<1>5. \A d \in Conns \ {c} : who[d] # None /\ who[d] # p =>
        (Latest(d) => Latest(d)') /\ (Followed(d) => Followed(d)')
  BY <1>1, <1>3 DEF Latest, Followed
<1>6. \A d \in Conns \ {c} : who[d] = p => Followed(d)'
  <2> SUFFICES ASSUME NEW d \in Conns \ {c}, who[d] = p
               PROVE  Followed(d)'
    OBVIOUS
  <2>1. turn[d] \in Nat /\ turn[q] \in Nat /\ turn[d] <= turn[q]
    BY <1>2 DEF Latest, TypeOK
  <2>2. who'[c] = who'[d] /\ turn'[c] > turn'[d]
    BY <1>3, <2>1
  <2>3. QED
    BY <2>2 DEF Followed
<1>7. \A r \in Ids : /\ r # None
                     /\ active[r] # None => active[r] \in Conns \ {c} /\ who[active[r]] = r
                     /\ pending[r] # None => pending[r] \in Conns \ {c} /\ who[pending[r]] = r
  BY <1>1 DEF SessionInv, TablesNameLatest, TypeOK
<1>8. SlotIsHeld'
  BY <1>3, <1>4 DEF SlotInv, SlotIsHeld
<1>9. EntryIsHeld'
  <2> SUFFICES ASSUME NEW r \in Ids, pending'[r] # None
               PROVE  /\ r \in participants /\ pc'[pending'[r]] \in EntrySteps
                      /\ pc'[pending'[r]] = "done" => timer'[pending'[r]] \in {"armed", "fired"}
    BY DEF EntryIsHeld
  <2>1. r # p /\ pending'[r] = pending[r]
    BY <1>3
  <2>2. pending[r] \in Conns \ {c} /\ pending[r] # q
    BY <2>1, <1>2, <1>7
  <2>3. QED
    BY <2>1, <2>2, <1>3 DEF SlotInv, EntryIsHeld
<1>10. ActiveIsLive'
  BY <1>3, <1>7 DEF SlotInv, ActiveIsLive, ActiveSteps
<1>11. PartingIsLast'
  <2> SUFFICES ASSUME NEW d \in Conns, Parting(d)'
               PROVE  active'[who'[d]] = None /\ pending'[who'[d]] = None /\ Latest(d)'
    BY DEF PartingIsLast
  <2>1. d # c
    BY <1>1, <1>3 DEF Parting, SlotInv, TimerIsLast
  <2>2. Parting(d) /\ who'[d] = who[d]
    BY <1>3, <2>1 DEF Parting
  <2>3. active[who[d]] = None /\ pending[who[d]] = None /\ Latest(d)
    BY <2>2 DEF SlotInv, PartingIsLast
  <2>4. who[d] \in Ids /\ who[d] # None /\ who[d] # p
    BY <2>2, <2>3, <1>2 DEF Parting, SlotInv, TimerIsLast, TypeOK
  <2>5. QED
    BY <2>1, <2>2, <2>3, <2>4, <1>3, <1>5
<1>12. EvictedIsLast'
  <2> SUFFICES ASSUME NEW r \in evicting
               PROVE  /\ active'[r] = None /\ pending'[r] = None
                      /\ \E d \in Conns : who'[d] = r /\ Latest(d)' /\ pc'[d] \in EntrySteps
    BY DEF EvictedIsLast
  <2>1. active[r] = None /\ pending[r] = None /\ r \in Ids /\ r # p
    BY <1>2 DEF SlotInv, EvictedIsLast, TypeOK
  <2>2. PICK d \in Conns : who[d] = r /\ Latest(d) /\ pc[d] \in EntrySteps
    BY DEF SlotInv, EvictedIsLast
  <2>3. d # c /\ who[d] # None
    BY <2>1, <2>2, <1>1
  <2>4. QED
    BY <1>3, <1>5, <2>1, <2>2, <2>3
<1>13. TimerIsLast'
  BY <1>1, <1>3 DEF SlotInv, TimerIsLast
<1>14. LosersAreFollowed'
  <2>1. ASSUME NEW d \in Conns, who'[d] # None, pc'[d] \in ActiveSteps \union {"retire"},
               active'[who'[d]] # d
        PROVE  Followed(d)'
    <3>1. d # c /\ who[d] \in Ids
      BY <2>1, <1>3 DEF TypeOK
    <3>2. CASE who[d] = p
      BY <3>1, <3>2, <1>6
    <3>3. CASE who[d] # p
      BY <2>1, <3>1, <3>3, <1>3, <1>5 DEF SlotInv, LosersAreFollowed
    <3>4. QED
      BY <3>2, <3>3
  <2>2. ASSUME NEW d \in Conns, pc'[d] \in {"tellLeft", "arm"}, pending'[who'[d]] # d,
               who'[d] \in participants
        PROVE  Followed(d)' \/ who'[d] \in evicting
    <3>1. d # c /\ who[d] \in Ids
      BY <2>2, <1>3 DEF TypeOK
    <3>2. CASE who[d] = p
      BY <3>1, <3>2, <1>6
    <3>3. CASE who[d] # p
      BY <2>2, <3>1, <3>3, <1>3, <1>5 DEF SlotInv, LosersAreFollowed
    <3>4. QED
      BY <3>2, <3>3
  <2>3. QED
    BY <2>1, <2>2 DEF LosersAreFollowed
<1>15. SlotHasOwner'
  <2> SUFFICES ASSUME NEW r \in participants
               PROVE  \/ \E d \in Conns : who'[d] = r /\ pc'[d] # "done"
                      \/ /\ pending'[r] # None
                         /\ timer'[pending'[r]] \in {"armed", "fired"}
                      \/ \E d \in Conns : who'[d] = r /\ timer'[d] \in {"lapsed", "leaving"}
                      \/ r \in evicting
    BY DEF SlotHasOwner
  <2>1. CASE r = p
    BY <2>1, <1>3
  <2>2. CASE r # p
    <3>1. r \in Ids /\ (pending[r] # None => pending[r] # q)
      BY <2>2, <1>2, <1>7 DEF TypeOK
    <3>2. QED
      BY <2>2, <3>1, <1>1, <1>3, <1>7 DEF SlotInv, SlotHasOwner
  <2>3. QED
    BY <2>1, <2>2
<1>16. QED
  BY <1>8, <1>9, <1>10, <1>11, <1>12, <1>13, <1>14, <1>15 DEF SlotInv

----------------------------------------------------------------------------
(* The cleanup.                                                            *)

\* The last connection gives its token up; one that lost it has a successor.
LEMMA DropSlots ==
  ASSUME TypeOK, SessionInv, SlotInv, NEW c \in Conns, Drop(c)
  PROVE  SlotInv'
<1> USE SessionAssumptions
<1>1. /\ pc[c] = "drop" /\ who[c] \in Ids /\ who[c] # None
      /\ UNCHANGED <<who, turn, prev, pending, timer, evicting, created, participants>>
  BY DEF Drop, slotVars, TypeOK
<1>2. CASE active[who[c]] # c
  <2>1. active' = active /\ pc' = [pc EXCEPT ![c] = "retire"]
    BY <1>2 DEF Drop, Goto
  <2>2. pc'[c] = "retire" /\ \A d \in Conns \ {c} : pc'[d] = pc[d]
    BY <2>1 DEF TypeOK
  <2>3. \A d \in Conns : (Latest(d)' <=> Latest(d)) /\ (Followed(d)' <=> Followed(d))
    BY <1>1, SameTurns
  <2>4. SlotIsHeld' /\ TimerIsLast' /\ PartingIsLast' /\ EvictedIsLast'
    BY <1>1, <2>1, <2>2, <2>3
       DEF SlotInv, SlotIsHeld, TimerIsLast, PartingIsLast, Parting, EvictedIsLast, HeldSteps,
           EntrySteps
  <2>5. EntryIsHeld'
    BY <1>1, <2>2 DEF SlotInv, EntryIsHeld, EntrySteps, TypeOK
  <2>6. ActiveIsLive'
    <3> SUFFICES ASSUME NEW p \in Ids, active[p] # None
                 PROVE  pc'[active[p]] \in ActiveSteps
      BY <2>1 DEF ActiveIsLive
    <3>1. active[p] \in Conns /\ active[p] # c
      BY <1>2 DEF TypeOK, SessionInv, TablesNameLatest
    <3>2. QED
      BY <3>1, <2>2 DEF SlotInv, ActiveIsLive
  <2>7. LosersAreFollowed'
    BY <1>1, <2>1, <2>2, <2>3 DEF SlotInv, LosersAreFollowed, ActiveSteps
  <2>8. SlotHasOwner'
    BY <1>1, <2>2 DEF SlotInv, SlotHasOwner, TypeOK
  <2>9. QED
    BY <2>4, <2>5, <2>6, <2>7, <2>8 DEF SlotInv
<1>3. CASE active[who[c]] = c
  <2>1. /\ active' = [active EXCEPT ![who[c]] = None]
        /\ pc' = [pc EXCEPT ![c] = "grace"] \/ pc' = [pc EXCEPT ![c] = "teardown"]
    BY <1>3 DEF Drop, Goto
  <2>2. pending[who[c]] = None /\ Latest(c)
    BY <1>1, <1>3 DEF SessionInv, TablesNameLatest, TypeOK
  <2>3. /\ pc'[c] \in {"grace", "teardown"} /\ \A d \in Conns \ {c} : pc'[d] = pc[d]
        /\ active'[who[c]] = None
        /\ \A r \in Ids \ {who[c]} : active'[r] = active[r]
    BY <1>1, <2>1 DEF TypeOK
  <2>4. \A d \in Conns : (Latest(d)' <=> Latest(d)) /\ (Followed(d)' <=> Followed(d))
    BY <1>1, SameTurns
  <2>5. \A d \in Conns \ {c} : who[d] = who[c] => pc[d] = "done"
    BY <1>1, <2>2, LastIsAlone
  <2>6. SlotIsHeld' /\ TimerIsLast'
    BY <1>1, <2>3 DEF SlotInv, SlotIsHeld, TimerIsLast, HeldSteps
  <2>7. EntryIsHeld'
    BY <1>1, <2>3 DEF SlotInv, EntryIsHeld, EntrySteps, TypeOK
  <2>8. ActiveIsLive'
    <3> SUFFICES ASSUME NEW p \in Ids, active'[p] # None
                 PROVE  pc'[active'[p]] \in ActiveSteps
      BY DEF ActiveIsLive
    <3>1. p # who[c] /\ active'[p] = active[p]
      BY <2>3
    <3>2. active[p] \in Conns \ {c}
      BY <3>1, <1>1 DEF TypeOK, SessionInv, TablesNameLatest
    <3>3. QED
      BY <3>1, <3>2, <2>3 DEF SlotInv, ActiveIsLive
  <2>9. PartingIsLast'
    <3> SUFFICES ASSUME NEW d \in Conns, Parting(d)'
                 PROVE  active'[who[d]] = None /\ pending[who[d]] = None /\ Latest(d)
      BY <1>1, <2>4 DEF PartingIsLast
    <3>1. CASE d = c
      BY <3>1, <2>2, <2>3
    <3>2. CASE d # c
      <4>1. Parting(d)
        BY <3>2, <1>1, <2>3 DEF Parting
      <4>2. who[d] \in Ids
        BY <4>1 DEF Parting, SlotInv, TimerIsLast, TypeOK
      <4>3. QED
        BY <4>1, <4>2, <2>3 DEF SlotInv, PartingIsLast
    <3>3. QED
      BY <3>1, <3>2
  <2>10. EvictedIsLast'
    <3> SUFFICES ASSUME NEW r \in evicting
                 PROVE  /\ active'[r] = None /\ pending[r] = None
                        /\ \E d \in Conns : who[d] = r /\ Latest(d) /\ pc'[d] \in EntrySteps
      BY <1>1, <2>4 DEF EvictedIsLast
    <3>1. active[r] = None /\ pending[r] = None /\ r \in Ids
      BY DEF SlotInv, EvictedIsLast, TypeOK
    <3>2. PICK d \in Conns : who[d] = r /\ Latest(d) /\ pc[d] \in EntrySteps
      BY DEF SlotInv, EvictedIsLast
    <3>3. d # c
      BY <3>2, <1>1 DEF EntrySteps
    <3>4. QED
      BY <3>1, <3>2, <3>3, <2>3
  <2>11. LosersAreFollowed'
    BY <1>1, <2>3, <2>4, <2>5 DEF SlotInv, LosersAreFollowed, ActiveSteps, TypeOK
  <2>12. SlotHasOwner'
    BY <1>1, <2>3 DEF SlotInv, SlotHasOwner, TypeOK
  <2>13. QED
    BY <2>6, <2>7, <2>8, <2>9, <2>10, <2>11, <2>12 DEF SlotInv
<1>4. QED
  BY <1>2, <1>3

\* The entry of a graceful departure names the last connection, which still holds
\* the slot.
LEMMA OpenGraceSlots ==
  ASSUME TypeOK, SessionInv, SlotInv, NEW c \in Conns, OpenGrace(c)
  PROVE  SlotInv'
<1> USE SessionAssumptions
<1>1. /\ pc[c] = "grace" /\ who[c] \in Ids /\ who[c] # None
      /\ active[who[c]] = None /\ pending[who[c]] = None /\ Latest(c)
      /\ who[c] \in participants
      /\ UNCHANGED <<who, turn, active, timer, evicting, created, participants>>
  BY DEF OpenGrace, slotVars, TypeOK, SessionInv, TokenIsUnbound, SlotInv, SlotIsHeld, HeldSteps
<1>2. \A d \in Conns : (Latest(d)' <=> Latest(d)) /\ (Followed(d)' <=> Followed(d))
  BY <1>1, SameTurns
<1>3. \A d \in Conns \ {c} : who[d] = who[c] => pc[d] = "done" /\ ~Latest(d)
  BY <1>1, LastIsAlone, OneLatest
<1>4. who[c] \notin evicting
  BY <1>1, <1>3 DEF SlotInv, EvictedIsLast, EntrySteps
<1>5. CASE closed
  <2>1. pending' = pending /\ pc' = [pc EXCEPT ![c] = "remove"]
    BY <1>5 DEF OpenGrace, Goto
  <2>2. pc'[c] = "remove" /\ \A d \in Conns \ {c} : pc'[d] = pc[d]
    BY <2>1 DEF TypeOK
  <2>3. SlotIsHeld' /\ TimerIsLast' /\ PartingIsLast' /\ EvictedIsLast' /\ LosersAreFollowed'
    BY <1>1, <1>2, <2>1, <2>2
       DEF SlotInv, SlotIsHeld, TimerIsLast, PartingIsLast, Parting, EvictedIsLast, HeldSteps,
           EntrySteps, ActiveSteps, LosersAreFollowed
  <2>4. EntryIsHeld' /\ ActiveIsLive'
    BY <1>1, <2>1, <2>2
       DEF SlotInv, EntryIsHeld, EntrySteps, ActiveIsLive, ActiveSteps, TypeOK
  <2>5. SlotHasOwner'
    BY <1>1, <2>1, <2>2 DEF SlotInv, SlotHasOwner, TypeOK
  <2>6. QED
    BY <2>3, <2>4, <2>5 DEF SlotInv
<1>6. CASE ~closed
  <2>1. pending' = [pending EXCEPT ![who[c]] = c] /\ pc' = [pc EXCEPT ![c] = "tellLeft"]
    BY <1>6 DEF OpenGrace, Goto
  <2>2. /\ pc'[c] = "tellLeft" /\ \A d \in Conns \ {c} : pc'[d] = pc[d]
        /\ pending'[who[c]] = c
        /\ \A r \in Ids \ {who[c]} : pending'[r] = pending[r]
    BY <1>1, <2>1 DEF TypeOK
  <2>3. SlotIsHeld' /\ TimerIsLast'
    BY <1>1, <2>2 DEF SlotInv, SlotIsHeld, TimerIsLast, HeldSteps
  <2>4. EntryIsHeld'
    <3> SUFFICES ASSUME NEW p \in Ids, pending'[p] # None
                 PROVE  /\ p \in participants /\ pc'[pending'[p]] \in EntrySteps
                        /\ pc'[pending'[p]] = "done" => timer[pending'[p]] \in {"armed", "fired"}
      BY <1>1 DEF EntryIsHeld
    <3>1. CASE p = who[c]
      BY <3>1, <1>1, <2>2 DEF EntrySteps
    <3>2. CASE p # who[c]
      <4>1. pending'[p] = pending[p] /\ pending[p] \in Conns /\ who[pending[p]] = p
        BY <3>2, <2>2 DEF TypeOK, SessionInv, TablesNameLatest
      <4>2. QED
        BY <3>2, <4>1, <2>2 DEF SlotInv, EntryIsHeld
    <3>3. QED
      BY <3>1, <3>2
  <2>5. ActiveIsLive'
    BY <1>1, <2>2 DEF SlotInv, ActiveIsLive, ActiveSteps, TypeOK
  <2>6. PartingIsLast'
    <3> SUFFICES ASSUME NEW d \in Conns, Parting(d)'
                 PROVE  active[who[d]] = None /\ pending'[who[d]] = None /\ Latest(d)
      BY <1>1, <1>2 DEF PartingIsLast
    <3>1. Parting(d) /\ d # c
      BY <1>1, <2>2 DEF Parting, SlotInv, TimerIsLast
    <3>2. active[who[d]] = None /\ pending[who[d]] = None /\ Latest(d)
      BY <3>1 DEF SlotInv, PartingIsLast
    <3>3. who[d] \in Ids /\ who[d] # who[c]
      BY <3>1, <3>2, <1>3 DEF Parting, SlotInv, TimerIsLast, TypeOK
    <3>4. QED
      BY <3>2, <3>3, <2>2
  <2>7. EvictedIsLast'
    <3> SUFFICES ASSUME NEW r \in evicting
                 PROVE  /\ active[r] = None /\ pending'[r] = None
                        /\ \E d \in Conns : who[d] = r /\ Latest(d) /\ pc'[d] \in EntrySteps
      BY <1>1, <1>2 DEF EvictedIsLast
    <3>1. active[r] = None /\ pending[r] = None /\ r \in Ids /\ r # who[c]
      BY <1>4 DEF SlotInv, EvictedIsLast, TypeOK
    <3>2. PICK d \in Conns : who[d] = r /\ Latest(d) /\ pc[d] \in EntrySteps
      BY DEF SlotInv, EvictedIsLast
    <3>3. QED
      BY <3>1, <3>2, <2>2
  <2>8. LosersAreFollowed'
    BY <1>1, <1>2, <1>3, <2>2 DEF SlotInv, LosersAreFollowed, ActiveSteps, TypeOK
  <2>9. SlotHasOwner'
    <3> SUFFICES ASSUME NEW p \in participants
                 PROVE  \/ \E d \in Conns : who[d] = p /\ pc'[d] # "done"
                        \/ pending'[p] # None /\ timer[pending'[p]] \in {"armed", "fired"}
                        \/ \E d \in Conns : who[d] = p /\ timer[d] \in {"lapsed", "leaving"}
                        \/ p \in evicting
      BY <1>1 DEF SlotHasOwner
    <3>1. p \in Ids
      BY DEF TypeOK
    <3>2. CASE p = who[c]
      BY <2>2, <3>2
    <3>3. CASE p # who[c]
      <4>1. pending'[p] = pending[p]
        BY <2>2, <3>1, <3>3
      <4>2. \A d \in Conns : who[d] = p => pc'[d] = pc[d]
        BY <2>2, <3>3
      <4>3. QED
        BY <4>1, <4>2 DEF SlotInv, SlotHasOwner
    <3>4. QED
      BY <3>2, <3>3
  <2>10. QED
    BY <2>3, <2>4, <2>5, <2>6, <2>7, <2>8, <2>9 DEF SlotInv
<1>7. QED
  BY <1>5, <1>6

\* The timer is armed for an entry that is still there; one that is gone was taken by
\* a successor or by the shutdown.
LEMMA ArmTimerSlots ==
  ASSUME TypeOK, SessionInv, SlotInv, NEW c \in Conns, ArmTimer(c)
  PROVE  SlotInv'
<1> USE SessionAssumptions
<1>1. /\ pc[c] = "arm" /\ who[c] \in Ids /\ who[c] # None
      /\ pc' = [pc EXCEPT ![c] = "done"]
      /\ UNCHANGED <<who, turn, active, pending, evicting, created, participants>>
  BY DEF ArmTimer, Goto, slotVars, TypeOK
<1>2. pc'[c] = "done" /\ \A d \in Conns \ {c} : pc'[d] = pc[d] /\ timer'[d] = timer[d]
  BY <1>1 DEF ArmTimer, TypeOK
<1>3. timer[c] = "off" /\ timer'[c] = (IF pending[who[c]] = c THEN "armed" ELSE "off")
  BY <1>1 DEF ArmTimer, SlotInv, TimerIsLast, TypeOK
<1>4. \A d \in Conns : (Latest(d)' <=> Latest(d)) /\ (Followed(d)' <=> Followed(d))
  BY <1>1, SameTurns
<1>5. SlotIsHeld' /\ TimerIsLast' /\ PartingIsLast' /\ EvictedIsLast' /\ LosersAreFollowed'
  BY <1>1, <1>2, <1>3, <1>4
     DEF SlotInv, SlotIsHeld, TimerIsLast, PartingIsLast, Parting, EvictedIsLast, HeldSteps,
         EntrySteps, ActiveSteps, LosersAreFollowed
<1>6. EntryIsHeld'
  <2> SUFFICES ASSUME NEW p \in Ids, pending[p] # None
               PROVE  /\ p \in participants /\ pc'[pending[p]] \in EntrySteps
                      /\ pc'[pending[p]] = "done" => timer'[pending[p]] \in {"armed", "fired"}
    BY <1>1 DEF EntryIsHeld
  <2>1. pending[p] \in Conns /\ who[pending[p]] = p
    BY DEF TypeOK, SessionInv, TablesNameLatest
  <2>2. QED
    BY <2>1, <1>2, <1>3 DEF SlotInv, EntryIsHeld, EntrySteps
<1>7. ActiveIsLive'
  BY <1>1, <1>2 DEF SlotInv, ActiveIsLive, ActiveSteps, TypeOK
<1>8. SlotHasOwner'
  <2> SUFFICES ASSUME NEW p \in participants
               PROVE  \/ \E d \in Conns : who[d] = p /\ pc'[d] # "done"
                      \/ /\ pending[p] # None
                         /\ timer'[pending[p]] \in {"armed", "fired"}
                      \/ \E d \in Conns : who[d] = p /\ timer'[d] \in {"lapsed", "leaving"}
                      \/ p \in evicting
    BY <1>1 DEF SlotHasOwner
  <2>1. p \in Ids
    BY DEF TypeOK
  <2>2. CASE p = who[c]
    <3>1. CASE pending[p] = c
      BY <3>1, <2>2, <1>3, <1>1
    <3>2. CASE pending[p] # c
      <4>1. Followed(c) \/ p \in evicting
        BY <3>2, <2>2, <1>1 DEF SlotInv, LosersAreFollowed
      <4>2. CASE Followed(c)
        <5>1. PICK d \in Conns : who[d] = who[c] /\ turn[d] > turn[c]
          BY <4>2 DEF Followed
        <5>2. turn[c] \in Nat /\ turn[d] \in Nat
          BY DEF TypeOK
        <5>3. pc[d] = "waiting" /\ d # c
          BY <5>1, <5>2, <1>1 DEF SessionInv, LaterOnesWait
        <5>4. QED
          BY <5>1, <5>3, <1>2, <2>2
      <4>3. QED
        BY <4>1, <4>2
    <3>3. QED
      BY <3>1, <3>2
  <2>3. CASE p # who[c]
    <3>1. pending[p] # None => pending[p] \in Conns \ {c}
      BY <2>1, <2>3 DEF TypeOK, SessionInv, TablesNameLatest
    <3>2. QED
      BY <2>3, <3>1, <1>2, <1>3 DEF SlotInv, SlotHasOwner
  <2>4. QED
    BY <2>2, <2>3
<1>9. QED
  BY <1>5, <1>6, <1>7, <1>8 DEF SlotInv

\* The last connection of a participant, its timer or the shutdown frees the slot.
LEMMA FreeSlot ==
  ASSUME TypeOK, SessionInv, SlotInv, NEW p \in Ids, NEW c \in Conns,
         who[c] = p, Latest(c), pc[c] # "waiting", active[p] = None, pending[p] = None,
         participants' = participants \ {p},
         UNCHANGED <<who, turn, active, pending, created>>,
         evicting' \in {evicting, evicting \ {p}},
         \A d \in Conns : \/ timer'[d] = timer[d]
                          \/ d = c /\ timer[d] = "leaving" /\ timer'[d] = "stopped",
         \A d \in Conns \ {c} : pc'[d] = pc[d],
         \/ pc'[c] = pc[c] /\ pc[c] \notin HeldSteps
         \/ pc[c] = "remove" /\ pc'[c] \in {"tellGone", "done"}
  PROVE  SlotInv'
<1> USE SessionAssumptions
<1>1. p # None /\ \A d \in Conns \ {c} : who[d] = p => pc[d] = "done"
  BY LastIsAlone DEF TypeOK
<1>2. \A d \in Conns : (Latest(d)' <=> Latest(d)) /\ (Followed(d)' <=> Followed(d))
  BY SameTurns
<1>3. SlotIsHeld'
  BY <1>1 DEF SlotInv, SlotIsHeld, HeldSteps
<1>4. EntryIsHeld'
  <2> SUFFICES ASSUME NEW r \in Ids, pending[r] # None
               PROVE  /\ r \in participants \ {p} /\ pc'[pending[r]] \in EntrySteps
                      /\ pc'[pending[r]] = "done" => timer'[pending[r]] \in {"armed", "fired"}
    BY DEF EntryIsHeld
  <2>1. pending[r] \in Conns \ {c} /\ r # p
    BY DEF TypeOK, SessionInv, TablesNameLatest
  <2>2. QED
    BY <2>1 DEF SlotInv, EntryIsHeld
<1>5. ActiveIsLive'
  <2> SUFFICES ASSUME NEW r \in Ids, active[r] # None
               PROVE  pc'[active[r]] \in ActiveSteps
    BY DEF ActiveIsLive
  <2>1. active[r] \in Conns \ {c} /\ r # p
    BY DEF TypeOK, SessionInv, TablesNameLatest
  <2>2. QED
    BY <2>1 DEF SlotInv, ActiveIsLive
<1>6. PartingIsLast'
  BY <1>2 DEF SlotInv, PartingIsLast, Parting
<1>7. EvictedIsLast'
  <2> SUFFICES ASSUME NEW r \in evicting'
               PROVE  /\ active[r] = None /\ pending[r] = None
                      /\ \E d \in Conns : who[d] = r /\ Latest(d) /\ pc'[d] \in EntrySteps
    BY <1>2 DEF EvictedIsLast
  <2>1. r \in evicting /\ active[r] = None /\ pending[r] = None
    BY DEF SlotInv, EvictedIsLast
  <2>2. PICK d \in Conns : who[d] = r /\ Latest(d) /\ pc[d] \in EntrySteps
    BY <2>1 DEF SlotInv, EvictedIsLast
  <2>3. pc'[d] \in EntrySteps
    BY <2>2 DEF EntrySteps
  <2>4. QED
    BY <2>1, <2>2, <2>3
<1>8. TimerIsLast'
  BY DEF SlotInv, TimerIsLast
<1>9. LosersAreFollowed'
  BY <1>1, <1>2 DEF SlotInv, LosersAreFollowed, ActiveSteps
<1>10. SlotHasOwner'
  <2> SUFFICES ASSUME NEW r \in participants \ {p}
               PROVE  \/ \E d \in Conns : who[d] = r /\ pc'[d] # "done"
                      \/ /\ pending[r] # None
                         /\ timer'[pending[r]] \in {"armed", "fired"}
                      \/ \E d \in Conns : who[d] = r /\ timer'[d] \in {"lapsed", "leaving"}
                      \/ r \in evicting'
    BY DEF SlotHasOwner
  <2>1. \A d \in Conns : who[d] = r => pc'[d] = pc[d] /\ timer'[d] = timer[d]
    OBVIOUS
  <2>2. pending[r] # None => pending[r] \in Conns /\ who[pending[r]] = r
    BY DEF TypeOK, SessionInv, TablesNameLatest
  <2>3. QED
    BY <2>1, <2>2 DEF SlotInv, SlotHasOwner
<1>11. QED
  BY <1>3, <1>4, <1>5, <1>6, <1>7, <1>8, <1>9, <1>10 DEF SlotInv

----------------------------------------------------------------------------
(* The grace timer and the shutdown.                                       *)

\* A timer that finds its own entry lapses for the last connection; one that finds
\* another entry, or none, does nothing.
LEMMA ExpireEntrySlots ==
  ASSUME TypeOK, SessionInv, SlotInv, NEW c \in Conns, ExpireEntry(c)
  PROVE  SlotInv'
<1> USE SessionAssumptions
<1>1. /\ timer[c] = "fired" /\ pc[c] = "done" /\ who[c] \in Ids /\ who[c] # None
      /\ UNCHANGED <<pc, who, turn, active, evicting, created, participants>>
  BY DEF ExpireEntry, connVars, slotVars, TypeOK, SlotInv, TimerIsLast
<1>2. \A d \in Conns : (Latest(d)' <=> Latest(d)) /\ (Followed(d)' <=> Followed(d))
  BY <1>1, SameTurns
<1>3. /\ \A d \in Conns \ {c} : timer'[d] = timer[d]
      /\ timer'[c] = (IF pending[who[c]] = c THEN "lapsed" ELSE "stopped")
      /\ pending' = (IF pending[who[c]] = c THEN [pending EXCEPT ![who[c]] = None] ELSE pending)
  BY <1>1 DEF ExpireEntry, TypeOK
<1>4. pending'[who[c]] # c /\ \A r \in Ids \ {who[c]} : pending'[r] = pending[r]
  BY <1>1, <1>3 DEF TypeOK
<1>5. SlotIsHeld' /\ TimerIsLast' /\ ActiveIsLive'
  BY <1>1, <1>3 DEF SlotInv, SlotIsHeld, TimerIsLast, ActiveIsLive
<1>6. EntryIsHeld'
  <2> SUFFICES ASSUME NEW r \in Ids, pending'[r] # None
               PROVE  /\ r \in participants /\ pc[pending'[r]] \in EntrySteps
                      /\ pc[pending'[r]] = "done" => timer'[pending'[r]] \in {"armed", "fired"}
    BY <1>1 DEF EntryIsHeld
  <2>1. pending'[r] = pending[r] /\ pending[r] # c
    BY <1>1, <1>3 DEF TypeOK, SessionInv, TablesNameLatest
  <2>2. pending[r] \in Conns \ {c}
    BY <2>1 DEF TypeOK
  <2>3. QED
    BY <2>1, <2>2, <1>3 DEF SlotInv, EntryIsHeld
<1>7. PartingIsLast'
  <2> SUFFICES ASSUME NEW d \in Conns, Parting(d)'
               PROVE  active[who[d]] = None /\ pending'[who[d]] = None /\ Latest(d)
    BY <1>1, <1>2 DEF PartingIsLast
  <2>1. CASE d = c
    <3>1. pending[who[c]] = c
      BY <2>1, <1>1, <1>3 DEF Parting
    <3>2. active[who[c]] = None /\ Latest(c)
      BY <3>1, <1>1 DEF SessionInv, TablesNameLatest, TypeOK
    <3>3. pending'[who[c]] = None
      BY <3>1, <1>1, <1>3 DEF TypeOK
    <3>4. QED
      BY <2>1, <3>2, <3>3
  <2>2. CASE d # c
    <3>1. Parting(d) /\ who[d] \in Ids
      BY <2>2, <1>1, <1>3 DEF Parting, SlotInv, TimerIsLast, TypeOK
    <3>2. active[who[d]] = None /\ pending[who[d]] = None /\ Latest(d)
      BY <3>1 DEF SlotInv, PartingIsLast
    <3>3. QED
      BY <3>1, <3>2, <1>1, <1>3 DEF TypeOK
  <2>3. QED
    BY <2>1, <2>2
<1>8. EvictedIsLast'
  BY <1>1, <1>2, <1>3 DEF SlotInv, EvictedIsLast, TypeOK
<1>9. LosersAreFollowed'
  <2>1. ASSUME NEW d \in Conns, pc[d] \in {"tellLeft", "arm"}, pending'[who[d]] # d,
               who[d] \in participants
        PROVE  Followed(d) \/ who[d] \in evicting
    <3>1. d # c /\ who[d] \in Ids
      BY <2>1, <1>1 DEF TypeOK
    <3>2. pending[who[d]] # d
      <4> SUFFICES ASSUME pending[who[d]] = d
                   PROVE  FALSE
        OBVIOUS
      <4>1. pending[who[c]] = c /\ who[d] = who[c]
        BY <2>1, <1>3, <3>1 DEF TypeOK
      <4>2. QED
        BY <4>1, <3>1
    <3>3. QED
      BY <2>1, <3>2 DEF SlotInv, LosersAreFollowed
  <2>2. QED
    BY <2>1, <1>1, <1>2 DEF SlotInv, LosersAreFollowed
<1>10. SlotHasOwner'
  <2> SUFFICES ASSUME NEW r \in participants
               PROVE  \/ \E d \in Conns : who[d] = r /\ pc[d] # "done"
                      \/ /\ pending'[r] # None
                         /\ timer'[pending'[r]] \in {"armed", "fired"}
                      \/ \E d \in Conns : who[d] = r /\ timer'[d] \in {"lapsed", "leaving"}
                      \/ r \in evicting
    BY <1>1 DEF SlotHasOwner
  <2>1. r \in Ids /\ (pending[r] # None => pending[r] \in Conns /\ who[pending[r]] = r)
    BY DEF TypeOK, SessionInv, TablesNameLatest
  <2>2. CASE pending[r] = c
    BY <2>1, <2>2, <1>1, <1>3
  <2>3. CASE pending[r] # c
    <3>1. pending'[r] = pending[r]
      BY <2>1, <2>3, <1>1, <1>3 DEF TypeOK
    <3>2. QED
      BY <2>1, <2>3, <3>1, <1>1, <1>3 DEF SlotInv, SlotHasOwner
  <2>4. QED
    BY <2>2, <2>3
<1>11. QED
  BY <1>5, <1>6, <1>7, <1>8, <1>9, <1>10 DEF SlotInv

\* The callback of a lapsed timer tears the media down before it frees the slot.
LEMMA ExpireMediaSlots ==
  ASSUME TypeOK, SessionInv, SlotInv, NEW c \in Conns, ExpireMedia(c)
  PROVE  SlotInv'
<1> USE SessionAssumptions
<1>1. /\ timer[c] = "lapsed" /\ who[c] # None
      /\ UNCHANGED <<pc, who, turn, active, pending, evicting, created, participants>>
      /\ timer'[c] = "leaving" /\ \A d \in Conns \ {c} : timer'[d] = timer[d]
  BY DEF ExpireMedia, connVars, SlotInv, TimerIsLast, TypeOK
<1>2. \A d \in Conns : (Latest(d)' <=> Latest(d)) /\ (Followed(d)' <=> Followed(d))
  BY <1>1, SameTurns
<1>3. \A p \in Ids : pending[p] # c
  BY <1>1 DEF SlotInv, PartingIsLast, Parting, SessionInv, TablesNameLatest, TypeOK
<1>4. EntryIsHeld'
  BY <1>1, <1>3 DEF SlotInv, EntryIsHeld, TypeOK
<1>5. PartingIsLast'
  BY <1>1, <1>2 DEF SlotInv, PartingIsLast, Parting
<1>6. SlotHasOwner'
  BY <1>1, <1>3, SMTT(30) DEF SlotInv, SlotHasOwner, TypeOK
<1>7. QED
  BY <1>1, <1>2, <1>4, <1>5, <1>6
     DEF SlotInv, SlotIsHeld, ActiveIsLive, EvictedIsLast, TimerIsLast, LosersAreFollowed

\* The shutdown takes every entry, and the slots with them.
LEMMA CloseHubSlots ==
  ASSUME TypeOK, SessionInv, SlotInv, evicting = {}, CloseHub
  PROVE  SlotInv'
<1> USE SessionAssumptions
<1>1. /\ UNCHANGED <<pc, who, turn, active, created, participants>>
      /\ evicting' = InGrace /\ \A p \in Ids : pending'[p] = None
      /\ \A c \in Conns : \/ timer'[c] = timer[c]
                          \/ timer[c] = "armed" /\ timer'[c] = "stopped"
  BY DEF CloseHub, connVars, slotVars, TypeOK
<1>2. \A d \in Conns : (Latest(d)' <=> Latest(d)) /\ (Followed(d)' <=> Followed(d))
  BY <1>1, SameTurns
<1>3. \A p \in Ids : pending[p] # None =>
        /\ p \in InGrace /\ active[p] = None
        /\ pending[p] \in Conns /\ who[pending[p]] = p /\ Latest(pending[p])
        /\ pc[pending[p]] \in EntrySteps
  BY DEF SessionInv, TablesNameLatest, TypeOK, InGrace, SlotInv, EntryIsHeld
<1>4. SlotIsHeld' /\ EntryIsHeld' /\ ActiveIsLive' /\ TimerIsLast'
  BY <1>1 DEF SlotInv, SlotIsHeld, EntryIsHeld, ActiveIsLive, TimerIsLast
<1>5. PartingIsLast'
  <2> SUFFICES ASSUME NEW d \in Conns, Parting(d)'
               PROVE  active[who[d]] = None /\ pending'[who[d]] = None /\ Latest(d)
    BY <1>1, <1>2 DEF PartingIsLast
  <2>1. Parting(d) /\ who[d] \in Ids
    BY <1>1 DEF Parting, SlotInv, TimerIsLast, TypeOK
  <2>2. QED
    BY <2>1, <1>1 DEF SlotInv, PartingIsLast
<1>6. EvictedIsLast'
  <2> SUFFICES ASSUME NEW p \in InGrace
               PROVE  /\ active[p] = None /\ pending'[p] = None
                      /\ \E d \in Conns : who[d] = p /\ Latest(d) /\ pc[d] \in EntrySteps
    BY <1>1, <1>2 DEF EvictedIsLast
  <2>1. p \in Ids /\ pending[p] # None
    BY DEF InGrace
  <2>2. QED
    BY <2>1, <1>1, <1>3
<1>7. LosersAreFollowed'
  <2>1. ASSUME NEW d \in Conns, pc[d] \in {"tellLeft", "arm"}, who[d] \in participants
        PROVE  Followed(d) \/ who[d] \in InGrace
    <3>1. who[d] \in Ids /\ d # None
      BY <2>1 DEF TypeOK
    <3>2. QED
      BY <2>1, <3>1, <1>3 DEF SlotInv, LosersAreFollowed
  <2>2. QED
    BY <2>1, <1>1, <1>2 DEF SlotInv, LosersAreFollowed
<1>8. SlotHasOwner'
  <2> SUFFICES ASSUME NEW p \in participants
               PROVE  \/ \E d \in Conns : who[d] = p /\ pc[d] # "done"
                      \/ \E d \in Conns : who[d] = p /\ timer'[d] \in {"lapsed", "leaving"}
                      \/ p \in InGrace
    BY <1>1 DEF SlotHasOwner
  <2>1. p \in Ids
    BY DEF TypeOK
  <2>2. CASE pending[p] # None
    BY <2>1, <2>2, <1>3
  <2>3. CASE pending[p] = None
    BY <2>3, <1>1 DEF SlotInv, SlotHasOwner
  <2>4. QED
    BY <2>2, <2>3
<1>9. QED
  BY <1>4, <1>5, <1>6, <1>7, <1>8 DEF SlotInv

----------------------------------------------------------------------------
(* The theorems about slots.                                               *)

\* Nothing is being evicted before the hub is closed.
LEMMA EvictsWhenClosed == Spec => [](~closed => evicting = {})
<1>1. Init => (~closed => evicting = {})
  BY DEF Init
<1>2. (~closed => evicting = {}) /\ [Next]_vars => (~closed => evicting = {})'
  <2> SUFFICES ASSUME ~closed => evicting = {}, [Next]_vars
               PROVE  (~closed => evicting = {})'
    OBVIOUS
  <2> USE DEF connVars, hubVars, slotVars, viewVars
  <2>1. ASSUME NEW c \in Conns, JoinPath(c)
        PROVE  UNCHANGED <<closed, evicting>>
    BY <2>1 DEF JoinPath, Connect, LoopExit, LeaveMessage, JoinFresh, ReclaimPending,
       ReclaimActive, BindToken, ClosePrevious, AwaitPrevious, RegisterPeer, PeerSetupFails,
       ExpireAdmission, Admit, AdmitFails, Announce
  <2>2. ASSUME NEW c \in Conns, CleanupPath(c)
        PROVE  UNCHANGED <<closed, evicting>>
    BY <2>2 DEF CleanupPath, Cleanup, Drop, Retire, Teardown, OpenGrace, TellLeft, ArmTimer,
       Remove, TellGone
  <2>3. ASSUME NEW c \in Conns, TimerPath(c)
        PROVE  UNCHANGED <<closed, evicting>>
    BY <2>3 DEF TimerPath, TimerFires, ExpireEntry, ExpireMedia, ExpireSlot
  <2>4. ASSUME ClosePath
        PROVE  closed' = TRUE \/ (closed' = closed /\ evicting' \subseteq evicting)
    BY <2>4 DEF ClosePath, CloseHub, CloseFreesSlot, CloseSockets
  <2>5. QED
    BY <2>1, <2>2, <2>3, <2>4 DEF Next, Idle, vars
<1>3. QED
  BY <1>1, <1>2, PTL DEF Spec

\* The invariant about slots holds in every reachable state.
LEMMA SlotInvariant == Spec => []SlotInv
<1>1. Init => SlotInv
  BY SessionAssumptions
     DEF Init, SlotInv, SlotIsHeld, EntryIsHeld, ActiveIsLive, PartingIsLast, Parting,
         EvictedIsLast, TimerIsLast, LosersAreFollowed, SlotHasOwner, HeldSteps, ActiveSteps
<1>2. TypeOK /\ SessionInv /\ (~closed => evicting = {}) /\ SlotInv /\ [Next]_vars => SlotInv'
  <2> SUFFICES ASSUME TypeOK, SessionInv, ~closed => evicting = {}, SlotInv, [Next]_vars
               PROVE  SlotInv'
    OBVIOUS
  <2> USE SessionAssumptions
  <2>1. ASSUME NEW c \in Conns, Connect(c)
        PROVE  Calm
    BY <2>1
       DEF Calm, TypeOK, SessionInv, NamesAreCreated, Connect, Goto, connVars, hubVars, slotVars,
           JoinSteps, RoomSteps, HeldSteps, ActiveSteps, EntrySteps
  <2>2. ASSUME NEW c \in Conns, LoopExit(c)
        PROVE  Calm
    BY <2>2
       DEF Calm, TypeOK, SessionInv, NamesAreCreated, LoopExit, Goto, connVars, hubVars, slotVars,
           JoinSteps, RoomSteps, HeldSteps, ActiveSteps, EntrySteps
  <2>3. ASSUME NEW c \in Conns, LeaveMessage(c)
        PROVE  Calm
    BY <2>3
       DEF Calm, TypeOK, SessionInv, NamesAreCreated, LeaveMessage, Goto, connVars, hubVars, slotVars,
           JoinSteps, RoomSteps, HeldSteps, ActiveSteps, EntrySteps
  <2>4. ASSUME NEW c \in Conns, ClosePrevious(c)
        PROVE  Calm
    BY <2>4
       DEF Calm, TypeOK, SessionInv, NamesAreCreated, ClosePrevious, Goto, connVars, hubVars, slotVars,
           JoinSteps, RoomSteps, HeldSteps, ActiveSteps, EntrySteps
  <2>5. ASSUME NEW c \in Conns, AwaitPrevious(c)
        PROVE  Calm
    BY <2>5
       DEF Calm, TypeOK, SessionInv, NamesAreCreated, AwaitPrevious, Goto, connVars, hubVars, slotVars,
           JoinSteps, RoomSteps, HeldSteps, ActiveSteps, EntrySteps
  <2>6. ASSUME NEW c \in Conns, RegisterPeer(c)
        PROVE  Calm
    BY <2>6
       DEF Calm, TypeOK, SessionInv, NamesAreCreated, RegisterPeer, Goto, connVars, hubVars, slotVars,
           JoinSteps, RoomSteps, HeldSteps, ActiveSteps, EntrySteps
  <2>7. ASSUME NEW c \in Conns, PeerSetupFails(c)
        PROVE  Calm
    BY <2>7
       DEF Calm, TypeOK, SessionInv, NamesAreCreated, PeerSetupFails, Goto, connVars, hubVars, slotVars,
           JoinSteps, RoomSteps, HeldSteps, ActiveSteps, EntrySteps
  <2>8. ASSUME NEW c \in Conns, ExpireAdmission(c)
        PROVE  Calm
    BY <2>8
       DEF Calm, TypeOK, SessionInv, NamesAreCreated, ExpireAdmission, Goto, connVars, hubVars, slotVars,
           JoinSteps, RoomSteps, HeldSteps, ActiveSteps, EntrySteps
  <2>9. ASSUME NEW c \in Conns, Admit(c)
        PROVE  Calm
    BY <2>9
       DEF Calm, TypeOK, SessionInv, NamesAreCreated, Admit, Goto, connVars, hubVars, slotVars,
           JoinSteps, RoomSteps, HeldSteps, ActiveSteps, EntrySteps
  <2>10. ASSUME NEW c \in Conns, AdmitFails(c)
        PROVE  Calm
    BY <2>10
       DEF Calm, TypeOK, SessionInv, NamesAreCreated, AdmitFails, Goto, connVars, hubVars, slotVars,
           JoinSteps, RoomSteps, HeldSteps, ActiveSteps, EntrySteps
  <2>11. ASSUME NEW c \in Conns, Announce(c)
        PROVE  Calm
    BY <2>11
       DEF Calm, TypeOK, SessionInv, NamesAreCreated, Announce, Goto, connVars, hubVars, slotVars,
           JoinSteps, RoomSteps, HeldSteps, ActiveSteps, EntrySteps
  <2>12. ASSUME NEW c \in Conns, Cleanup(c)
        PROVE  Calm
    BY <2>12
       DEF Calm, TypeOK, SessionInv, NamesAreCreated, Cleanup, Goto, connVars, hubVars, slotVars,
           JoinSteps, RoomSteps, HeldSteps, ActiveSteps, EntrySteps
  <2>13. ASSUME NEW c \in Conns, Retire(c)
        PROVE  Calm
    BY <2>13
       DEF Calm, TypeOK, SessionInv, NamesAreCreated, Retire, Goto, connVars, hubVars, slotVars,
           JoinSteps, RoomSteps, HeldSteps, ActiveSteps, EntrySteps
  <2>14. ASSUME NEW c \in Conns, Teardown(c)
        PROVE  Calm
    BY <2>14
       DEF Calm, TypeOK, SessionInv, NamesAreCreated, Teardown, Goto, connVars, hubVars, slotVars,
           JoinSteps, RoomSteps, HeldSteps, ActiveSteps, EntrySteps
  <2>15. ASSUME NEW c \in Conns, TellLeft(c)
        PROVE  Calm
    BY <2>15
       DEF Calm, TypeOK, SessionInv, NamesAreCreated, TellLeft, Goto, connVars, hubVars, slotVars,
           JoinSteps, RoomSteps, HeldSteps, ActiveSteps, EntrySteps
  <2>16. ASSUME NEW c \in Conns, TellGone(c)
        PROVE  Calm
    BY <2>16
       DEF Calm, TypeOK, SessionInv, NamesAreCreated, TellGone, Goto, connVars, hubVars, slotVars,
           JoinSteps, RoomSteps, HeldSteps, ActiveSteps, EntrySteps
  <2>17. ASSUME NEW c \in Conns, TimerFires(c)
        PROVE  Calm
    BY <2>17
       DEF Calm, TypeOK, SessionInv, NamesAreCreated, TimerFires, Goto, connVars, hubVars, slotVars,
           JoinSteps, RoomSteps, HeldSteps, ActiveSteps, EntrySteps
  <2>18. ASSUME NEW c \in Conns, BindToken(c)
        PROVE  SlotInv'
    BY <2>18, BindTokenSlots
  <2>19. ASSUME NEW c \in Conns, Drop(c)
        PROVE  SlotInv'
    BY <2>19, DropSlots
  <2>20. ASSUME NEW c \in Conns, OpenGrace(c)
        PROVE  SlotInv'
    BY <2>20, OpenGraceSlots
  <2>21. ASSUME NEW c \in Conns, ArmTimer(c)
        PROVE  SlotInv'
    BY <2>21, ArmTimerSlots
  <2>22. ASSUME NEW c \in Conns, ExpireEntry(c)
        PROVE  SlotInv'
    BY <2>22, ExpireEntrySlots
  <2>23. ASSUME NEW c \in Conns, ExpireMedia(c)
        PROVE  SlotInv'
    BY <2>23, ExpireMediaSlots
  <2>24. ASSUME NEW c \in Conns, Remove(c)
        PROVE  SlotInv'
    <3>1. /\ pc[c] = "remove" /\ who[c] \in Ids
          /\ participants' = participants \ {who[c]}
          /\ UNCHANGED <<who, turn, active, pending, created, evicting, timer>>
      BY <2>24 DEF Remove, TypeOK, hubVars
    <3>2. pc'[c] \in {"tellGone", "done"} /\ \A d \in Conns \ {c} : pc'[d] = pc[d]
      BY <2>24 DEF Remove, Goto, TypeOK
    <3>3. active[who[c]] = None /\ pending[who[c]] = None /\ Latest(c)
      BY <3>1 DEF SlotInv, PartingIsLast, Parting
    <3>4. QED
      BY <3>1, <3>2, <3>3, FreeSlot
  <2>25. ASSUME NEW c \in Conns, ExpireSlot(c)
        PROVE  SlotInv'
    <3>1. /\ timer[c] = "leaving" /\ pc[c] = "done" /\ who[c] \in Ids
          /\ participants' = participants \ {who[c]}
          /\ UNCHANGED <<pc, who, turn, active, pending, created, evicting>>
      BY <2>25 DEF ExpireSlot, TypeOK, connVars, SlotInv, TimerIsLast
    <3>2. timer'[c] = "stopped" /\ \A d \in Conns \ {c} : timer'[d] = timer[d]
      BY <2>25 DEF ExpireSlot, TypeOK
    <3>3. active[who[c]] = None /\ pending[who[c]] = None /\ Latest(c)
      BY <3>1 DEF SlotInv, PartingIsLast, Parting
    <3>4. QED
      BY <3>1, <3>2, <3>3, FreeSlot DEF HeldSteps
  <2>26. ASSUME NEW c \in Conns, NEW p \in Ids, JoinFresh(c, p)
        PROVE  SlotInv'
    BY <2>26, JoinFreshSlots
  <2>27. ASSUME NEW c \in Conns, NEW p \in Ids, ReclaimPending(c, p)
        PROVE  SlotInv'
    <3>1. /\ pending[p] \in Conns /\ TakeSession(c, p, pending[p])
          /\ pending' = [pending EXCEPT ![p] = None]
          /\ UNCHANGED <<participants, created, evicting>>
      BY <2>27 DEF ReclaimPending, TypeOK, slotVars
    <3>2. \A d \in Conns : timer'[d] = timer[d]
            \/ (d = pending[p] /\ timer[d] = "armed" /\ timer'[d] = "stopped")
      BY <2>27 DEF ReclaimPending, StopTimer, TypeOK
    <3>3. QED
      BY <3>1, <3>2, TakeSessionSlots
  <2>28. ASSUME NEW c \in Conns, NEW p \in Ids, ReclaimActive(c, p)
        PROVE  SlotInv'
    <3>1. /\ active[p] \in Conns /\ pending[p] = None /\ TakeSession(c, p, active[p])
          /\ UNCHANGED <<participants, created, evicting, timer>>
      BY <2>28 DEF ReclaimActive, TypeOK, slotVars
    <3>2. pending' = [pending EXCEPT ![p] = None]
      BY <2>28 DEF ReclaimActive, TypeOK
    <3>3. QED
      BY <3>1, <3>2, TakeSessionSlots
  <2>29. ASSUME CloseHub
        PROVE  SlotInv'
    BY <2>29, CloseHubSlots DEF CloseHub
  <2>30. ASSUME NEW p \in Ids, CloseFreesSlot(p)
        PROVE  SlotInv'
    <3>1. /\ p \in evicting /\ evicting' = evicting \ {p}
          /\ participants' = participants \ {p}
          /\ UNCHANGED <<pc, who, turn, active, pending, created, timer>>
      BY <2>30 DEF CloseFreesSlot, connVars
    <3>2. active[p] = None /\ pending[p] = None
      BY <3>1 DEF SlotInv, EvictedIsLast
    <3>3. PICK c \in Conns : who[c] = p /\ Latest(c) /\ pc[c] \in EntrySteps
      BY <3>1 DEF SlotInv, EvictedIsLast
    <3>4. pc[c] \notin HeldSteps /\ pc[c] # "waiting"
      BY <3>3 DEF EntrySteps, HeldSteps
    <3>5. QED
      BY <3>1, <3>2, <3>3, <3>4, FreeSlot
  <2>31. ASSUME CloseSockets
        PROVE  Calm
    BY <2>31 DEF Calm, CloseSockets, connVars, slotVars, EntrySteps
  <2>32. CASE UNCHANGED vars
    <3>1. Calm
      BY <2>32 DEF Calm, vars, connVars, hubVars, slotVars, EntrySteps
    <3>2. QED
      BY <3>1, CalmStep
  <2>33. ASSUME NEW c \in Conns, JoinPath(c)
        PROVE  SlotInv'
    BY <2>33, <2>1, <2>2, <2>3, <2>26, <2>27, <2>28, <2>18, <2>4, <2>5, <2>6,
       <2>7, <2>8, <2>9, <2>10, <2>11, CalmStep
       DEF JoinPath
  <2>34. ASSUME NEW c \in Conns, CleanupPath(c)
        PROVE  SlotInv'
    BY <2>34, <2>12, <2>19, <2>13, <2>14, <2>20, <2>15, <2>21, <2>24, <2>16,
       CalmStep
       DEF CleanupPath
  <2>35. ASSUME NEW c \in Conns, TimerPath(c)
        PROVE  SlotInv'
    BY <2>35, <2>17, <2>22, <2>23, <2>25, CalmStep
       DEF TimerPath
  <2>36. QED
    BY <2>33, <2>34, <2>35, <2>29, <2>30, <2>31, <2>32, CalmStep
       DEF Next, ClosePath, Idle
<1>3. QED
  BY <1>1, <1>2, SessionsTypeOK, SessionInvariant, EvictsWhenClosed, PTL DEF Spec


\* Only the connection that goes through the media router's registration, or the last
\* one of a participant that goes, touches the participant's peer.
PeersAlone ==
  /\ UNCHANGED peers
  /\ \A c \in Conns : pc'[c] \in RegisteredSteps => pc[c] \in RegisteredSteps /\ who'[c] = who[c]

\* The peer of a live connection is registered and stays so: what unregisters it is the
\* cleanup of a connection that acts alone, or the timer of one that came last.
LEMMA RegisteredInvariant == Spec => []LiveSessionIsRegistered
<1> USE SessionAssumptions
<1>1. Init => LiveSessionIsRegistered
  BY DEF Init, LiveSessionIsRegistered, RoomSteps
<1>2. TypeOK /\ SessionInv /\ SlotInv /\ LiveSessionIsRegistered /\ [Next]_vars
        => LiveSessionIsRegistered'
  <2> SUFFICES ASSUME TypeOK, SessionInv, SlotInv, LiveSessionIsRegistered, [Next]_vars
               PROVE  LiveSessionIsRegistered'
    OBVIOUS
  <2>0. PeersAlone => LiveSessionIsRegistered'
    BY DEF PeersAlone, LiveSessionIsRegistered, RegisteredSteps, RoomSteps
  <2>1. ASSUME NEW c \in Conns, Connect(c)
        PROVE  PeersAlone
    BY <2>1 DEF PeersAlone, TypeOK, Connect, Goto, connVars, hubVars, slotVars, RegisteredSteps
  <2>2. ASSUME NEW c \in Conns, LoopExit(c)
        PROVE  PeersAlone
    BY <2>2 DEF PeersAlone, TypeOK, LoopExit, Goto, connVars, hubVars, slotVars, RegisteredSteps
  <2>3. ASSUME NEW c \in Conns, LeaveMessage(c)
        PROVE  PeersAlone
    BY <2>3 DEF PeersAlone, TypeOK, LeaveMessage, Goto, connVars, hubVars, slotVars, RegisteredSteps
  <2>4. ASSUME NEW c \in Conns, BindToken(c)
        PROVE  PeersAlone
    BY <2>4 DEF PeersAlone, TypeOK, BindToken, Goto, connVars, hubVars, slotVars, RegisteredSteps
  <2>5. ASSUME NEW c \in Conns, ClosePrevious(c)
        PROVE  PeersAlone
    BY <2>5 DEF PeersAlone, TypeOK, ClosePrevious, Goto, connVars, hubVars, slotVars, RegisteredSteps
  <2>6. ASSUME NEW c \in Conns, AwaitPrevious(c)
        PROVE  PeersAlone
    BY <2>6 DEF PeersAlone, TypeOK, AwaitPrevious, Goto, connVars, hubVars, slotVars, RegisteredSteps
  <2>7. ASSUME NEW c \in Conns, PeerSetupFails(c)
        PROVE  PeersAlone
    BY <2>7 DEF PeersAlone, TypeOK, PeerSetupFails, Goto, connVars, hubVars, slotVars, RegisteredSteps
  <2>8. ASSUME NEW c \in Conns, ExpireAdmission(c)
        PROVE  PeersAlone
    BY <2>8 DEF PeersAlone, TypeOK, ExpireAdmission, Goto, connVars, hubVars, slotVars, RegisteredSteps
  <2>9. ASSUME NEW c \in Conns, Admit(c)
        PROVE  PeersAlone
    BY <2>9 DEF PeersAlone, TypeOK, Admit, Goto, connVars, hubVars, slotVars, RegisteredSteps
  <2>10. ASSUME NEW c \in Conns, AdmitFails(c)
        PROVE  PeersAlone
    BY <2>10 DEF PeersAlone, TypeOK, AdmitFails, Goto, connVars, hubVars, slotVars, RegisteredSteps
  <2>11. ASSUME NEW c \in Conns, Announce(c)
        PROVE  PeersAlone
    BY <2>11 DEF PeersAlone, TypeOK, Announce, Goto, connVars, hubVars, slotVars, RegisteredSteps
  <2>12. ASSUME NEW c \in Conns, Cleanup(c)
        PROVE  PeersAlone
    BY <2>12 DEF PeersAlone, TypeOK, Cleanup, Goto, connVars, hubVars, slotVars, RegisteredSteps
  <2>13. ASSUME NEW c \in Conns, Drop(c)
        PROVE  PeersAlone
    BY <2>13 DEF PeersAlone, TypeOK, Drop, Goto, connVars, hubVars, slotVars, RegisteredSteps
  <2>14. ASSUME NEW c \in Conns, OpenGrace(c)
        PROVE  PeersAlone
    BY <2>14 DEF PeersAlone, TypeOK, OpenGrace, Goto, connVars, hubVars, slotVars, RegisteredSteps
  <2>15. ASSUME NEW c \in Conns, TellLeft(c)
        PROVE  PeersAlone
    BY <2>15 DEF PeersAlone, TypeOK, TellLeft, Goto, connVars, hubVars, slotVars, RegisteredSteps
  <2>16. ASSUME NEW c \in Conns, ArmTimer(c)
        PROVE  PeersAlone
    BY <2>16 DEF PeersAlone, TypeOK, ArmTimer, Goto, connVars, hubVars, slotVars, RegisteredSteps
  <2>17. ASSUME NEW c \in Conns, Remove(c)
        PROVE  PeersAlone
    BY <2>17 DEF PeersAlone, TypeOK, Remove, Goto, connVars, hubVars, slotVars, RegisteredSteps
  <2>18. ASSUME NEW c \in Conns, TellGone(c)
        PROVE  PeersAlone
    BY <2>18 DEF PeersAlone, TypeOK, TellGone, Goto, connVars, hubVars, slotVars, RegisteredSteps
  <2>19. ASSUME NEW c \in Conns, TimerFires(c)
        PROVE  PeersAlone
    BY <2>19 DEF PeersAlone, TypeOK, TimerFires, Goto, connVars, hubVars, slotVars, RegisteredSteps
  <2>20. ASSUME NEW c \in Conns, ExpireEntry(c)
        PROVE  PeersAlone
    BY <2>20 DEF PeersAlone, TypeOK, ExpireEntry, Goto, connVars, hubVars, slotVars, RegisteredSteps
  <2>21. ASSUME NEW c \in Conns, ExpireSlot(c)
        PROVE  PeersAlone
    BY <2>21 DEF PeersAlone, TypeOK, ExpireSlot, Goto, connVars, hubVars, slotVars, RegisteredSteps
  <2>22. ASSUME NEW c \in Conns, RegisterPeer(c)
        PROVE  LiveSessionIsRegistered'
    <3>1. /\ pc[c] = "setup" /\ who[c] \in Ids /\ who[c] # None /\ UNCHANGED who
          /\ peers'[who[c]] = c /\ \A p \in Ids \ {who[c]} : peers'[p] = peers[p]
          /\ \A d \in Conns \ {c} : pc'[d] = pc[d]
      BY <2>22 DEF RegisterPeer, Goto, TypeOK
    <3>2. \A d \in Conns \ {c} : who[d] = who[c] => pc[d] \in {"waiting", "done"}
      BY <3>1, ActorIsAlone
    <3>3. QED
      BY <3>1, <3>2 DEF LiveSessionIsRegistered, RoomSteps, TypeOK
  <2>23. ASSUME NEW c \in Conns, Retire(c)
        PROVE  LiveSessionIsRegistered'
    <3>1. /\ pc[c] = "retire" /\ who[c] \in Ids /\ who[c] # None /\ UNCHANGED who
          /\ \A p \in Ids \ {who[c]} : peers'[p] = peers[p]
          /\ pc'[c] \in {"done", "remove"} /\ \A d \in Conns \ {c} : pc'[d] = pc[d]
      BY <2>23 DEF Retire, Goto, Unregister, TypeOK
    <3>2. \A d \in Conns \ {c} : who[d] = who[c] => pc[d] \in {"waiting", "done"}
      BY <3>1, ActorIsAlone
    <3>3. QED
      BY <3>1, <3>2 DEF LiveSessionIsRegistered, RoomSteps, TypeOK
  <2>24. ASSUME NEW c \in Conns, Teardown(c)
        PROVE  LiveSessionIsRegistered'
    <3>1. /\ pc[c] = "teardown" /\ who[c] \in Ids /\ who[c] # None /\ UNCHANGED who
          /\ \A p \in Ids \ {who[c]} : peers'[p] = peers[p]
          /\ pc'[c] \in {"done", "remove"} /\ \A d \in Conns \ {c} : pc'[d] = pc[d]
      BY <2>24 DEF Teardown, Goto, Unregister, TypeOK
    <3>2. \A d \in Conns \ {c} : who[d] = who[c] => pc[d] \in {"waiting", "done"}
      BY <3>1, ActorIsAlone
    <3>3. QED
      BY <3>1, <3>2 DEF LiveSessionIsRegistered, RoomSteps, TypeOK
  <2>25. ASSUME NEW c \in Conns, ExpireMedia(c)
        PROVE  LiveSessionIsRegistered'
    <3>1. /\ timer[c] = "lapsed" /\ pc[c] = "done" /\ who[c] \in Ids /\ who[c] # None
          /\ UNCHANGED <<who, pc>>
          /\ \A p \in Ids \ {who[c]} : peers'[p] = peers[p]
      BY <2>25 DEF ExpireMedia, Unregister, connVars, TypeOK, SlotInv, TimerIsLast
    <3>2. Latest(c)
      BY <3>1 DEF SlotInv, PartingIsLast, Parting
    <3>3. \A d \in Conns : who[d] = who[c] => pc[d] = "done"
      BY <3>1, <3>2, LastIsAlone
    <3>4. QED
      BY <3>1, <3>3 DEF LiveSessionIsRegistered, RoomSteps, TypeOK
  <2>26. ASSUME NEW c \in Conns, NEW p \in Ids, JoinFresh(c, p)
        PROVE  PeersAlone
    BY <2>26 DEF PeersAlone, TypeOK, JoinFresh, TakeSession, Goto, slotVars, RegisteredSteps
  <2>27. ASSUME NEW c \in Conns, NEW p \in Ids, ReclaimPending(c, p)
        PROVE  PeersAlone
    BY <2>27 DEF PeersAlone, TypeOK, ReclaimPending, TakeSession, Goto, slotVars, RegisteredSteps
  <2>28. ASSUME NEW c \in Conns, NEW p \in Ids, ReclaimActive(c, p)
        PROVE  PeersAlone
    BY <2>28 DEF PeersAlone, TypeOK, ReclaimActive, TakeSession, Goto, slotVars, RegisteredSteps
  <2>29. ASSUME CloseHub
        PROVE  PeersAlone
    BY <2>29 DEF PeersAlone, CloseHub, connVars, slotVars
  <2>30. ASSUME CloseSockets
        PROVE  PeersAlone
    BY <2>30 DEF PeersAlone, CloseSockets, connVars, slotVars
  <2>31. ASSUME NEW p \in Ids, CloseFreesSlot(p)
        PROVE  PeersAlone
    BY <2>31 DEF PeersAlone, CloseFreesSlot, connVars
  <2>32. CASE UNCHANGED vars
    BY <2>0, <2>32 DEF PeersAlone, vars, connVars, slotVars
  <2>33. ASSUME NEW c \in Conns, JoinPath(c)
        PROVE  LiveSessionIsRegistered'
    BY <2>33, <2>0, <2>1, <2>2, <2>3, <2>26, <2>27, <2>28, <2>4, <2>5, <2>6,
       <2>22, <2>7, <2>8, <2>9, <2>10, <2>11
       DEF JoinPath
  <2>34. ASSUME NEW c \in Conns, CleanupPath(c)
        PROVE  LiveSessionIsRegistered'
    BY <2>34, <2>0, <2>12, <2>13, <2>23, <2>24, <2>14, <2>15, <2>16, <2>17,
       <2>18
       DEF CleanupPath
  <2>35. ASSUME NEW c \in Conns, TimerPath(c)
        PROVE  LiveSessionIsRegistered'
    BY <2>35, <2>0, <2>19, <2>20, <2>25, <2>21
       DEF TimerPath
  <2>36. QED
    BY <2>33, <2>34, <2>35, <2>0, <2>29, <2>31, <2>30, <2>32
       DEF Next, ClosePath, Idle
<1>3. QED
  BY <1>1, <1>2, SessionsTypeOK, SessionInvariant, SlotInvariant, PTL DEF Spec

\* Every slot has an owner that will free or resume it, and no stale timer, superseded
\* cleanup or shutdown frees the slot or unregisters the peer of a live session
\* (hub.go, disconnect, the grace timer and Close).
THEOREM SlotsAreKept == Spec => []SessionsInv
<1>1. SlotInv => SlotHasOwner
  BY DEF SlotInv
<1>2. TypeOK /\ SlotInv => LiveSessionKeepsSlot
  BY SessionAssumptions DEF TypeOK, SlotInv, SlotIsHeld, LiveSessionKeepsSlot, RoomSteps, HeldSteps
<1>3. QED
  BY <1>1, <1>2, SessionsTypeOK, SlotInvariant, RegisteredInvariant, PTL DEF SessionsInv


----------------------------------------------------------------------------
(* The hub implements the contract of module Tenancy.                      *)

\* Steps at which a connection occupies its participant's slot.
TenantSteps == {"named", "setup", "admit", "announce", "room"}

\* The tenant of a slot that somebody occupies is unique.
LEMMA TenantIs ==
  ASSUME TypeOK, SessionInv, NEW p \in Ids
  PROVE  /\ \A c \in Conns : Occupies(c, p) => Tenant[p] = c
         /\ (\A c \in Conns : ~Occupies(c, p)) => Tenant[p] = None
         /\ Tenant \in [Ids -> Conns \union {None}]
<1> USE SessionAssumptions
<1>1. ASSUME NEW c \in Conns, NEW d \in Conns, Occupies(c, p), Occupies(d, p)
      PROVE  c = d
  <2>1. who[c] = p /\ who[d] = p /\ p # None
        /\ pc[c] \notin {"waiting", "done"} /\ pc[d] \notin {"waiting", "done"}
    BY <1>1 DEF Occupies, RoomSteps, TypeOK
  <2>2. QED
    BY <2>1, ActorIsAlone
<1>2. Tenant \in [Ids -> Conns \union {None}]
  BY DEF Tenant
<1>3. QED
  BY <1>1, <1>2 DEF Tenant

\* A step that changes nobody's occupation changes no tenant.
LEMMA SameTenants ==
  ASSUME \A c \in Conns, p \in Ids : Occupies(c, p)' <=> Occupies(c, p)
  PROVE  Tenant' = Tenant
BY DEF Tenant

\* A connection that stops occupying the slot of p leaves it empty, and one that begins
\* to occupies it alone; the other slots keep their tenants.
LEMMA OneTenantChanges ==
  ASSUME TypeOK, SessionInv, TypeOK', SessionInv', NEW p \in Ids, NEW c \in Conns,
         \A d \in Conns, r \in Ids : r # p => (Occupies(d, r)' <=> Occupies(d, r))
  PROVE  /\ Occupies(c, p)' => Tenant' = [Tenant EXCEPT ![p] = c]
         /\ (\A d \in Conns : ~Occupies(d, p)') => Tenant' = [Tenant EXCEPT ![p] = None]
<1>1. \A r \in Ids \ {p} : Tenant'[r] = Tenant[r]
  BY DEF Tenant
<1>2. Tenant \in [Ids -> Conns \union {None}] /\ Tenant' \in [Ids -> Conns \union {None}]
  BY DEF Tenant
<1>3. Occupies(c, p)' => Tenant'[p] = c
  <2>1. SUFFICES ASSUME Occupies(c, p)'
                 PROVE  Tenant'[p] = c
    OBVIOUS
  <2>2. ASSUME NEW d \in Conns, Occupies(d, p)', d # c
        PROVE  FALSE
    <3>1. /\ who'[c] = p /\ who'[d] = p /\ p # None
          /\ pc'[c] \notin {"waiting", "done"} /\ pc'[d] \notin {"waiting", "done"}
      BY <2>1, <2>2, SessionAssumptions DEF Occupies, RoomSteps
    <3>2. turn'[c] \in Nat /\ turn'[d] \in Nat /\ turn'[c] # turn'[d]
      BY <3>1, <2>2, SessionAssumptions DEF TypeOK, SessionInv, TurnsDiffer
    <3>3. turn'[c] < turn'[d] \/ turn'[d] < turn'[c]
      BY <3>2
    <3>4. QED
      BY <3>1, <3>3, SessionAssumptions DEF SessionInv, LaterOnesWait
  <2>3. QED
    BY <2>1, <2>2 DEF Tenant
<1>4. (\A d \in Conns : ~Occupies(d, p)') => Tenant'[p] = None
  BY DEF Tenant
<1>5. QED
  BY <1>1, <1>2, <1>3, <1>4

\* Only c moves, and begins to occupy a slot only after it has waited.
Moves(c) ==
  /\ UNCHANGED <<who, participants, created>>
  /\ \A d \in Conns \ {c} : pc'[d] = pc[d]
  /\ pc'[c] \in TenantSteps => pc[c] \in TenantSteps \union {"waiting"}

\* A step that keeps the slots is one of the contract or invisible to it.
LEMMA MoveStep ==
  ASSUME TypeOK, SessionInv, SlotInv, TypeOK', SessionInv', NEW c \in Conns, Moves(c)
  PROVE  [Contract!Next]_(Contract!vars)
<1> USE SessionAssumptions DEF Moves
<1>1. \A d \in Conns, p \in Ids : Occupies(d, p) <=> who[d] = p /\ pc[d] \in TenantSteps
  BY DEF Occupies, TenantSteps, RoomSteps
<1>2. \A d \in Conns, p \in Ids : Occupies(d, p)' <=> who[d] = p /\ pc'[d] \in TenantSteps
  BY DEF Occupies, TenantSteps, RoomSteps
<1>3. CASE who[c] = None \/ (pc'[c] \in TenantSteps <=> pc[c] \in TenantSteps)
  <2>1. \A d \in Conns, p \in Ids : Occupies(d, p)' <=> Occupies(d, p)
    BY <1>1, <1>2, <1>3
  <2>2. Tenant' = Tenant
    BY <2>1, SameTenants
  <2>3. QED
    BY <2>2 DEF Contract!vars
<1>4. CASE who[c] # None /\ pc[c] \in TenantSteps /\ pc'[c] \notin TenantSteps
  <2>1. who[c] \in Ids /\ Occupies(c, who[c])
    BY <1>1, <1>4 DEF TypeOK
  <2>2. \A d \in Conns : ~Occupies(d, who[c])'
    <3>1. \A d \in Conns \ {c} : who[d] = who[c] => pc[d] \notin TenantSteps
      BY <1>4, ActorIsAlone DEF TenantSteps
    <3>2. QED
      BY <2>1, <3>1, <1>2, <1>4
  <2>3. Tenant' = [Tenant EXCEPT ![who[c]] = None]
    <3>1. \A d \in Conns, r \in Ids : r # who[c] => (Occupies(d, r)' <=> Occupies(d, r))
      BY <1>1, <1>2
    <3>2. QED
      BY <2>1, <2>2, <3>1, OneTenantChanges
  <2>4. Tenant[who[c]] = c /\ c # None
    BY <2>1, TenantIs
  <2>5. Contract!MoveOut(who[c])
    BY <2>3, <2>4 DEF Contract!MoveOut
  <2>6. QED
    BY <2>1, <2>5 DEF Contract!Next
<1>5. CASE who[c] # None /\ pc[c] = "waiting" /\ pc'[c] \in TenantSteps
  <2>1. who[c] \in Ids /\ Occupies(c, who[c])' /\ who[c] \in participants
    <3>1. who[c] \in Ids
      BY <1>5 DEF TypeOK
    <3>2. who[c] \in participants
      BY <1>5 DEF SlotInv, SlotIsHeld, HeldSteps
    <3>3. Occupies(c, who[c])'
      BY <1>5 DEF Occupies, TenantSteps, RoomSteps
    <3>4. QED
      BY <3>1, <3>2, <3>3
  <2>2. \A d \in Conns : ~Occupies(d, who[c])
    <3> SUFFICES ASSUME NEW d \in Conns, who[d] = who[c], pc[d] \in TenantSteps
                 PROVE  FALSE
      BY <1>1, <2>1
    <3>1. d # c /\ pc'[d] = pc[d] /\ pc'[d] \notin {"waiting", "done"}
          /\ pc'[c] \notin {"waiting", "done"}
      BY <1>5 DEF TenantSteps
    <3>2. turn'[c] \in Nat /\ turn'[d] \in Nat /\ turn'[c] # turn'[d]
      BY <3>1, <1>5 DEF TypeOK, SessionInv, TurnsDiffer
    <3>3. turn'[c] < turn'[d] \/ turn'[d] < turn'[c]
      BY <3>2
    <3>4. QED
      BY <3>1, <3>3, <1>5 DEF SessionInv, LaterOnesWait
  <2>3. Tenant[who[c]] = None
    BY <2>1, <2>2, TenantIs
  <2>4. Tenant' = [Tenant EXCEPT ![who[c]] = c]
    <3>1. \A d \in Conns, r \in Ids : r # who[c] => (Occupies(d, r)' <=> Occupies(d, r))
      BY <1>1, <1>2
    <3>2. QED
      BY <2>1, <3>1, OneTenantChanges
  <2>5. \A q \in Ids : Tenant[q] # c
    <3>1. \A q \in Ids : ~Occupies(c, q)
      BY <1>1, <1>5 DEF TenantSteps
    <3>2. QED
      BY <3>1 DEF Tenant
  <2>6. Contract!MoveIn(who[c], c)
    BY <2>1, <2>3, <2>4, <2>5 DEF Contract!MoveIn
  <2>7. QED
    BY <2>1, <2>6 DEF Contract!Next
<1>6. QED
  BY <1>3, <1>4, <1>5 DEF TenantSteps

\* A slot that is freed is empty: the contract's GiveUp, or nothing if it was free.
LEMMA FreeStep ==
  ASSUME TypeOK, SessionInv, SlotInv, NEW p \in Ids, NEW c \in Conns,
         who[c] = p, Latest(c), pc[c] \notin TenantSteps \union {"waiting"},
         participants' = participants \ {p},
         UNCHANGED <<who, created>>,
         \A d \in Conns \ {c} : pc'[d] = pc[d],
         pc'[c] \notin TenantSteps
  PROVE  [Contract!Next]_(Contract!vars)
<1> USE SessionAssumptions
<1>1. \A d \in Conns, r \in Ids : Occupies(d, r) <=> who[d] = r /\ pc[d] \in TenantSteps
  BY DEF Occupies, TenantSteps, RoomSteps
<1>2. \A d \in Conns, r \in Ids : Occupies(d, r)' <=> who[d] = r /\ pc'[d] \in TenantSteps
  BY DEF Occupies, TenantSteps, RoomSteps
<1>3. Tenant' = Tenant
  <2>1. \A d \in Conns, r \in Ids : Occupies(d, r)' <=> Occupies(d, r)
    BY <1>1, <1>2
  <2>2. QED
    BY <2>1, SameTenants
<1>4. Tenant[p] = None
  <2>1. p # None /\ \A d \in Conns \ {c} : who[d] = p => pc[d] = "done"
    BY LastIsAlone DEF TypeOK
  <2>2. \A d \in Conns : ~Occupies(d, p)
    BY <1>1, <2>1 DEF TenantSteps
  <2>3. QED
    BY <2>2, TenantIs
<1>5. CASE p \in participants
  <2>1. (created \ participants)' = (created \ participants) \union {p}
    BY <1>5 DEF SlotInv, SlotIsHeld
  <2>2. Contract!GiveUp(p)
    BY <1>3, <1>4, <1>5, <2>1 DEF Contract!GiveUp
  <2>3. QED
    BY <2>2 DEF Contract!Next
<1>6. CASE p \notin participants
  BY <1>3, <1>6 DEF Contract!vars
<1>7. QED
  BY <1>5, <1>6


\* The hub keeps the contract of Tenancy: joins, resumptions, cleanups, grace timers and
\* the shutdown (hub.go) are its actions or invisible to it.
THEOREM HubImplementsTenancy == Spec => ImplementsTenancy
<1> USE SessionAssumptions
<1>1. Init => Contract!Init
  <2> SUFFICES ASSUME Init
               PROVE  Contract!Init
    OBVIOUS
  <2>1. \A c \in Conns, p \in Ids : ~Occupies(c, p)
    BY DEF Init, Occupies
  <2>2. Tenant = [p \in Ids |-> None]
    BY <2>1 DEF Tenant
  <2>3. participants = {} /\ created \ participants = {}
    BY DEF Init
  <2>4. QED
    BY <2>2, <2>3 DEF Contract!Init
<1>2. TypeOK /\ SessionInv /\ SlotInv /\ TypeOK' /\ SessionInv' /\ [Next]_vars
        => [Contract!Next]_(Contract!vars)
  <2> SUFFICES ASSUME TypeOK, SessionInv, SlotInv, TypeOK', SessionInv', [Next]_vars
               PROVE  [Contract!Next]_(Contract!vars)
    OBVIOUS
  <2>0. ASSUME UNCHANGED <<pc, who, participants, created>>
        PROVE  UNCHANGED Contract!vars
    <3>1. Tenant' = Tenant
      BY <2>0 DEF Tenant, Occupies
    <3>2. QED
      BY <2>0, <3>1 DEF Contract!vars
  <2>1. ASSUME NEW c \in Conns, Connect(c)
        PROVE  Moves(c)
    BY <2>1 DEF Moves, TypeOK, Connect, Goto, connVars, slotVars, TenantSteps
  <2>2. ASSUME NEW c \in Conns, LoopExit(c)
        PROVE  Moves(c)
    BY <2>2 DEF Moves, TypeOK, LoopExit, Goto, connVars, slotVars, TenantSteps
  <2>3. ASSUME NEW c \in Conns, LeaveMessage(c)
        PROVE  Moves(c)
    BY <2>3 DEF Moves, TypeOK, LeaveMessage, Goto, connVars, slotVars, TenantSteps
  <2>4. ASSUME NEW c \in Conns, BindToken(c)
        PROVE  Moves(c)
    BY <2>4 DEF Moves, TypeOK, BindToken, Goto, connVars, slotVars, TenantSteps
  <2>5. ASSUME NEW c \in Conns, ClosePrevious(c)
        PROVE  Moves(c)
    BY <2>5 DEF Moves, TypeOK, ClosePrevious, Goto, connVars, slotVars, TenantSteps
  <2>6. ASSUME NEW c \in Conns, AwaitPrevious(c)
        PROVE  Moves(c)
    BY <2>6 DEF Moves, TypeOK, AwaitPrevious, Goto, connVars, slotVars, TenantSteps
  <2>7. ASSUME NEW c \in Conns, RegisterPeer(c)
        PROVE  Moves(c)
    BY <2>7 DEF Moves, TypeOK, RegisterPeer, Goto, connVars, slotVars, TenantSteps
  <2>8. ASSUME NEW c \in Conns, PeerSetupFails(c)
        PROVE  Moves(c)
    BY <2>8 DEF Moves, TypeOK, PeerSetupFails, Goto, connVars, slotVars, TenantSteps
  <2>9. ASSUME NEW c \in Conns, ExpireAdmission(c)
        PROVE  Moves(c)
    BY <2>9 DEF Moves, TypeOK, ExpireAdmission, Goto, connVars, slotVars, TenantSteps
  <2>10. ASSUME NEW c \in Conns, Admit(c)
        PROVE  Moves(c)
    BY <2>10 DEF Moves, TypeOK, Admit, Goto, connVars, slotVars, TenantSteps
  <2>11. ASSUME NEW c \in Conns, AdmitFails(c)
        PROVE  Moves(c)
    BY <2>11 DEF Moves, TypeOK, AdmitFails, Goto, connVars, slotVars, TenantSteps
  <2>12. ASSUME NEW c \in Conns, Announce(c)
        PROVE  Moves(c)
    BY <2>12 DEF Moves, TypeOK, Announce, Goto, connVars, slotVars, TenantSteps
  <2>13. ASSUME NEW c \in Conns, Cleanup(c)
        PROVE  Moves(c)
    BY <2>13 DEF Moves, TypeOK, Cleanup, Goto, connVars, slotVars, TenantSteps
  <2>14. ASSUME NEW c \in Conns, Drop(c)
        PROVE  Moves(c)
    BY <2>14 DEF Moves, TypeOK, Drop, Goto, connVars, slotVars, TenantSteps
  <2>15. ASSUME NEW c \in Conns, Retire(c)
        PROVE  Moves(c)
    BY <2>15 DEF Moves, TypeOK, Retire, Goto, connVars, slotVars, TenantSteps
  <2>16. ASSUME NEW c \in Conns, Teardown(c)
        PROVE  Moves(c)
    BY <2>16 DEF Moves, TypeOK, Teardown, Goto, connVars, slotVars, TenantSteps
  <2>17. ASSUME NEW c \in Conns, OpenGrace(c)
        PROVE  Moves(c)
    BY <2>17 DEF Moves, TypeOK, OpenGrace, Goto, connVars, slotVars, TenantSteps
  <2>18. ASSUME NEW c \in Conns, TellLeft(c)
        PROVE  Moves(c)
    BY <2>18 DEF Moves, TypeOK, TellLeft, Goto, connVars, slotVars, TenantSteps
  <2>19. ASSUME NEW c \in Conns, ArmTimer(c)
        PROVE  Moves(c)
    BY <2>19 DEF Moves, TypeOK, ArmTimer, Goto, connVars, slotVars, TenantSteps
  <2>20. ASSUME NEW c \in Conns, TellGone(c)
        PROVE  Moves(c)
    BY <2>20 DEF Moves, TypeOK, TellGone, Goto, connVars, slotVars, TenantSteps
  <2>21. ASSUME NEW c \in Conns, TimerFires(c)
        PROVE  Moves(c)
    BY <2>21 DEF Moves, TypeOK, TimerFires, Goto, connVars, slotVars, TenantSteps
  <2>22. ASSUME NEW c \in Conns, ExpireEntry(c)
        PROVE  Moves(c)
    BY <2>22 DEF Moves, TypeOK, ExpireEntry, Goto, connVars, slotVars, TenantSteps
  <2>23. ASSUME NEW c \in Conns, ExpireMedia(c)
        PROVE  Moves(c)
    BY <2>23 DEF Moves, TypeOK, ExpireMedia, Goto, connVars, slotVars, TenantSteps
  <2>24. ASSUME NEW c \in Conns, Remove(c)
        PROVE  [Contract!Next]_(Contract!vars)
    <3>1. /\ pc[c] = "remove" /\ who[c] \in Ids /\ UNCHANGED <<who, created>>
          /\ participants' = participants \ {who[c]}
      BY <2>24 DEF Remove, TypeOK
    <3>2. pc'[c] \in {"tellGone", "done"} /\ \A d \in Conns \ {c} : pc'[d] = pc[d]
      BY <2>24 DEF Remove, Goto, TypeOK
    <3>3. Latest(c)
      BY <3>1 DEF SlotInv, PartingIsLast, Parting
    <3>4. QED
      BY <3>1, <3>2, <3>3, FreeStep DEF TenantSteps
  <2>25. ASSUME NEW c \in Conns, ExpireSlot(c)
        PROVE  [Contract!Next]_(Contract!vars)
    <3>1. /\ timer[c] = "leaving" /\ pc[c] = "done" /\ who[c] \in Ids
          /\ UNCHANGED <<pc, who, created>> /\ participants' = participants \ {who[c]}
      BY <2>25 DEF ExpireSlot, TypeOK, connVars, SlotInv, TimerIsLast
    <3>2. Latest(c)
      BY <3>1 DEF SlotInv, PartingIsLast, Parting
    <3>3. QED
      BY <3>1, <3>2, FreeStep DEF TenantSteps
  <2>26. ASSUME NEW c \in Conns, NEW p \in Ids, JoinFresh(c, p)
        PROVE  [Contract!Next]_(Contract!vars)
    <3>1. /\ pc[c] = "open" /\ who[c] = None /\ p \notin created
          /\ Cardinality(participants) < MaxParticipants
          /\ participants' = participants \union {p} /\ created' = created \union {p}
          /\ who' = [who EXCEPT ![c] = p] /\ pc' = [pc EXCEPT ![c] = "named"]
      BY <2>26 DEF JoinFresh, Goto, SessionInv, NamesAreCreated
    <3>2. /\ who'[c] = p /\ pc'[c] = "named"
          /\ \A d \in Conns \ {c} : who'[d] = who[d] /\ pc'[d] = pc[d]
      BY <3>1 DEF TypeOK
    <3>3. p \notin participants /\ (created \ participants)' = created \ participants
      BY <3>1 DEF SlotInv, SlotIsHeld
    <3>4. Tenant' = [Tenant EXCEPT ![p] = c]
      <4>1. \A d \in Conns, r \in Ids : r # p => (Occupies(d, r)' <=> Occupies(d, r))
        BY <3>1, <3>2 DEF Occupies, RoomSteps
      <4>2. Occupies(c, p)'
        BY <3>2 DEF Occupies
      <4>3. QED
        BY <4>1, <4>2, OneTenantChanges
    <3>5. Contract!Reserve(p)
      <4>1. p \notin participants \union (created \ participants)
        BY <3>1, <3>3
      <4>2. \E d \in Conns : Tenant' = [Tenant EXCEPT ![p] = d]
        BY <3>4
      <4>3. Contract!Cardinality(participants) = Cardinality(participants)
        BY DEF Contract!Cardinality, Cardinality
      <4>4. QED
        BY <3>1, <3>3, <4>1, <4>2, <4>3, Zenon DEF Contract!Reserve
    <3>6. QED
      BY <3>5 DEF Contract!Next
  <2>27. ASSUME NEW c \in Conns, NEW p \in Ids, ReclaimPending(c, p)
        PROVE  UNCHANGED Contract!vars
    <3>1. /\ pc[c] = "open" /\ UNCHANGED <<participants, created>>
          /\ who' = [who EXCEPT ![c] = p] /\ pc' = [pc EXCEPT ![c] = "waiting"]
      BY <2>27 DEF ReclaimPending, TakeSession, Goto, slotVars
    <3>2. /\ pc'[c] = "waiting"
          /\ \A d \in Conns \ {c} : who'[d] = who[d] /\ pc'[d] = pc[d]
      BY <3>1 DEF TypeOK
    <3>3. \A d \in Conns, r \in Ids : Occupies(d, r)' <=> Occupies(d, r)
      BY <3>1, <3>2 DEF Occupies, RoomSteps
    <3>4. QED
      BY <3>1, <3>3, SameTenants DEF Contract!vars
  <2>28. ASSUME NEW c \in Conns, NEW p \in Ids, ReclaimActive(c, p)
        PROVE  UNCHANGED Contract!vars
    <3>1. /\ pc[c] = "open" /\ UNCHANGED <<participants, created>>
          /\ who' = [who EXCEPT ![c] = p] /\ pc' = [pc EXCEPT ![c] = "waiting"]
      BY <2>28 DEF ReclaimActive, TakeSession, Goto, slotVars
    <3>2. /\ pc'[c] = "waiting"
          /\ \A d \in Conns \ {c} : who'[d] = who[d] /\ pc'[d] = pc[d]
      BY <3>1 DEF TypeOK
    <3>3. \A d \in Conns, r \in Ids : Occupies(d, r)' <=> Occupies(d, r)
      BY <3>1, <3>2 DEF Occupies, RoomSteps
    <3>4. QED
      BY <3>1, <3>3, SameTenants DEF Contract!vars
  <2>29. ASSUME NEW p \in Ids, CloseFreesSlot(p)
        PROVE  [Contract!Next]_(Contract!vars)
    <3>1. /\ p \in evicting /\ participants' = participants \ {p}
          /\ UNCHANGED <<pc, who, created>>
      BY <2>29 DEF CloseFreesSlot, connVars
    <3>2. PICK c \in Conns : who[c] = p /\ Latest(c) /\ pc[c] \in EntrySteps
      BY <3>1 DEF SlotInv, EvictedIsLast
    <3>3. pc[c] \notin TenantSteps \union {"waiting"}
      BY <3>2 DEF EntrySteps, TenantSteps
    <3>4. QED
      BY <3>1, <3>2, <3>3, FreeStep
  <2>30. ASSUME CloseHub \/ CloseSockets \/ UNCHANGED vars
        PROVE  UNCHANGED <<pc, who, participants, created>>
    BY <2>30 DEF CloseHub, CloseSockets, connVars, slotVars, vars
  <2>31. ASSUME NEW c \in Conns, JoinPath(c)
        PROVE  [Contract!Next]_(Contract!vars)
    BY <2>31, <2>1, <2>2, <2>3, <2>26, <2>27, <2>28, <2>4, <2>5, <2>6, <2>7,
       <2>8, <2>9, <2>10, <2>11, <2>12, MoveStep
       DEF JoinPath
  <2>32. ASSUME NEW c \in Conns, CleanupPath(c)
        PROVE  [Contract!Next]_(Contract!vars)
    BY <2>32, <2>13, <2>14, <2>15, <2>16, <2>17, <2>18, <2>19, <2>24, <2>20,
       MoveStep
       DEF CleanupPath
  <2>33. ASSUME NEW c \in Conns, TimerPath(c)
        PROVE  [Contract!Next]_(Contract!vars)
    BY <2>33, <2>21, <2>22, <2>23, <2>25, MoveStep
       DEF TimerPath
  <2>34. QED
    BY <2>31, <2>32, <2>33, <2>0, <2>29, <2>30 DEF Next, ClosePath, Idle
<1>3. QED
  BY <1>1, <1>2, SessionsTypeOK, SessionInvariant, SlotInvariant, PTL
     DEF Spec, ImplementsTenancy, Contract!Spec


----------------------------------------------------------------------------
(* The members of the room see each other.                                 *)

\* The room holds the connections that were admitted and not yet cleaned up.
RoomIsCurrent ==
  /\ \A c \in Conns : pc[c] \in RoomSteps => c \in room
  /\ \A c \in room : pc[c] \in {"announce", "room", "cleanup"}

\* A session that is taken over still had its token; nobody takes over before the
\* token is bound.
TakenOver ==
  \A c \in Conns :
    /\ takeover[c] => pc[c] \notin {"none", "open", "named"}
    /\ takeover[c] /\ pc[c] = "waiting" => pc[prev[c]] \in ActiveSteps \union {"retire", "done"}

\* A connection is joined from its announcement on.
JoinedLate == \A c \in Conns : joined[c] => pc[c] \in {"room", "done"} \union CleanupSteps

PathInv == RoomIsCurrent /\ TakenOver /\ JoinedLate

\* The invariant about the join path holds in every reachable state.
LEMMA PathInvariant == Spec => []PathInv
<1> USE SessionAssumptions
<1>1. Init => PathInv
  BY DEF Init, PathInv, RoomIsCurrent, TakenOver, JoinedLate, RoomSteps
<1>2. TypeOK /\ SessionInv /\ SlotInv /\ PathInv /\ [Next]_vars => PathInv'
  <2> SUFFICES ASSUME TypeOK, SessionInv, SlotInv, PathInv, [Next]_vars
               PROVE  PathInv'
    OBVIOUS
  <2> USE DEF PathInv, RoomIsCurrent, TakenOver, JoinedLate, RoomSteps, CleanupSteps, ActiveSteps
  <2>0. \A c \in Conns : pc[c] = "waiting" => prev[c] \in Conns /\ who[prev[c]] # None
    BY DEF TypeOK, SessionInv, WaitsForPredecessor
  <2>1. ASSUME NEW c \in Conns, Connect(c)
        PROVE  PathInv'
    BY <2>0, <2>1 DEF TypeOK, Connect, Goto, connVars, hubVars, slotVars, JoinSteps
  <2>2. ASSUME NEW c \in Conns, LoopExit(c)
        PROVE  PathInv'
    BY <2>0, <2>2 DEF TypeOK, LoopExit, Goto, connVars, hubVars, slotVars, JoinSteps
  <2>3. ASSUME NEW c \in Conns, LeaveMessage(c)
        PROVE  PathInv'
    BY <2>0, <2>3 DEF TypeOK, LeaveMessage, Goto, connVars, hubVars, slotVars, JoinSteps
  <2>4. ASSUME NEW c \in Conns, BindToken(c)
        PROVE  PathInv'
    BY <2>0, <2>4 DEF TypeOK, BindToken, Goto, connVars, hubVars, slotVars, JoinSteps
  <2>5. ASSUME NEW c \in Conns, ClosePrevious(c)
        PROVE  PathInv'
    BY <2>0, <2>5 DEF TypeOK, ClosePrevious, Goto, connVars, hubVars, slotVars, JoinSteps
  <2>6. ASSUME NEW c \in Conns, AwaitPrevious(c)
        PROVE  PathInv'
    BY <2>0, <2>6 DEF TypeOK, AwaitPrevious, Goto, connVars, hubVars, slotVars, JoinSteps
  <2>7. ASSUME NEW c \in Conns, RegisterPeer(c)
        PROVE  PathInv'
    BY <2>0, <2>7 DEF TypeOK, RegisterPeer, Goto, connVars, hubVars, slotVars, JoinSteps
  <2>8. ASSUME NEW c \in Conns, PeerSetupFails(c)
        PROVE  PathInv'
    BY <2>0, <2>8 DEF TypeOK, PeerSetupFails, Goto, connVars, hubVars, slotVars, JoinSteps
  <2>9. ASSUME NEW c \in Conns, ExpireAdmission(c)
        PROVE  PathInv'
    BY <2>0, <2>9 DEF TypeOK, ExpireAdmission, Goto, connVars, hubVars, slotVars, JoinSteps
  <2>10. ASSUME NEW c \in Conns, Admit(c)
        PROVE  PathInv'
    BY <2>0, <2>10 DEF TypeOK, Admit, Goto, connVars, hubVars, slotVars, JoinSteps
  <2>11. ASSUME NEW c \in Conns, AdmitFails(c)
        PROVE  PathInv'
    BY <2>0, <2>11 DEF TypeOK, AdmitFails, Goto, connVars, hubVars, slotVars, JoinSteps
  <2>12. ASSUME NEW c \in Conns, Announce(c)
        PROVE  PathInv'
    BY <2>0, <2>12 DEF TypeOK, Announce, Goto, connVars, hubVars, slotVars, JoinSteps
  <2>13. ASSUME NEW c \in Conns, Cleanup(c)
        PROVE  PathInv'
    BY <2>0, <2>13 DEF TypeOK, Cleanup, Goto, connVars, hubVars, slotVars, JoinSteps
  <2>14. ASSUME NEW c \in Conns, Retire(c)
        PROVE  PathInv'
    BY <2>0, <2>14 DEF TypeOK, Retire, Goto, connVars, hubVars, slotVars, JoinSteps
  <2>15. ASSUME NEW c \in Conns, Teardown(c)
        PROVE  PathInv'
    BY <2>0, <2>15 DEF TypeOK, Teardown, Goto, connVars, hubVars, slotVars, JoinSteps
  <2>16. ASSUME NEW c \in Conns, OpenGrace(c)
        PROVE  PathInv'
    <3>1. /\ pc[c] = "grace" /\ pc'[c] \in {"remove", "tellLeft"}
          /\ \A d \in Conns \ {c} : pc'[d] = pc[d]
          /\ UNCHANGED <<who, prev, room, takeover, joined>>
      BY <2>16 DEF OpenGrace, Goto, TypeOK
    <3>2. TakenOver'
      BY <2>0, <3>1
    <3>3. RoomIsCurrent' /\ JoinedLate'
      BY <3>1 DEF TypeOK
    <3>4. QED
      BY <3>2, <3>3
  <2>17. ASSUME NEW c \in Conns, TellLeft(c)
        PROVE  PathInv'
    BY <2>0, <2>17 DEF TypeOK, TellLeft, Goto, connVars, hubVars, slotVars, JoinSteps
  <2>18. ASSUME NEW c \in Conns, ArmTimer(c)
        PROVE  PathInv'
    BY <2>0, <2>18 DEF TypeOK, ArmTimer, Goto, connVars, hubVars, slotVars, JoinSteps
  <2>19. ASSUME NEW c \in Conns, Remove(c)
        PROVE  PathInv'
    BY <2>0, <2>19 DEF TypeOK, Remove, Goto, connVars, hubVars, slotVars, JoinSteps
  <2>20. ASSUME NEW c \in Conns, TellGone(c)
        PROVE  PathInv'
    BY <2>0, <2>20 DEF TypeOK, TellGone, Goto, connVars, hubVars, slotVars, JoinSteps
  <2>21. ASSUME NEW c \in Conns, TimerFires(c)
        PROVE  PathInv'
    BY <2>0, <2>21 DEF TypeOK, TimerFires, Goto, connVars, hubVars, slotVars, JoinSteps
  <2>22. ASSUME NEW c \in Conns, ExpireEntry(c)
        PROVE  PathInv'
    BY <2>0, <2>22 DEF TypeOK, ExpireEntry, Goto, connVars, hubVars, slotVars, JoinSteps
  <2>23. ASSUME NEW c \in Conns, ExpireMedia(c)
        PROVE  PathInv'
    BY <2>0, <2>23 DEF TypeOK, ExpireMedia, Goto, connVars, hubVars, slotVars, JoinSteps
  <2>24. ASSUME NEW c \in Conns, ExpireSlot(c)
        PROVE  PathInv'
    BY <2>0, <2>24 DEF TypeOK, ExpireSlot, Goto, connVars, hubVars, slotVars, JoinSteps
  <2>25. ASSUME NEW c \in Conns, Drop(c)
        PROVE  PathInv'
    <3>1. /\ pc[c] = "drop" /\ pc'[c] \in {"retire", "grace", "teardown"}
          /\ \A d \in Conns \ {c} : pc'[d] = pc[d]
          /\ UNCHANGED <<who, prev, room, takeover, joined>>
      BY <2>25 DEF Drop, Goto, TypeOK
    <3>2. ASSUME NEW d \in Conns, pc[d] = "waiting", prev[d] = c
          PROVE  pc'[c] = "retire"
      <4>1. who[c] \in Ids /\ who[c] = who[d] /\ ~(turn[d] <= turn[c])
        BY <3>1, <3>2 DEF TypeOK, SessionInv, WaitsForPredecessor
      <4>2. active[who[c]] # c
        BY <4>1 DEF SessionInv, TablesNameLatest, Latest
      <4>3. QED
        BY <2>25, <4>2 DEF Drop, Goto, TypeOK
    <3>3. TakenOver'
      BY <2>0, <3>1, <3>2
    <3>4. RoomIsCurrent' /\ JoinedLate'
      BY <3>1 DEF TypeOK
    <3>5. QED
      BY <3>3, <3>4
  <2>26. ASSUME NEW c \in Conns, NEW p \in Ids, JoinFresh(c, p)
        PROVE  PathInv'
    BY <2>0, <2>26 DEF TypeOK, JoinFresh, Goto, hubVars
  <2>27. ASSUME NEW c \in Conns, NEW p \in Ids, ReclaimPending(c, p)
        PROVE  PathInv'
    <3>1. /\ pc[c] = "open" /\ pc' = [pc EXCEPT ![c] = "waiting"]
          /\ prev' = [prev EXCEPT ![c] = pending[p]]
          /\ UNCHANGED <<room, takeover, joined>>
      BY <2>27 DEF ReclaimPending, TakeSession, Goto
    <3>2. QED
      BY <2>0, <3>1 DEF TypeOK
  <2>28. ASSUME NEW c \in Conns, NEW p \in Ids, ReclaimActive(c, p)
        PROVE  PathInv'
    <3>1. /\ pc[c] = "open" /\ pc' = [pc EXCEPT ![c] = "waiting"]
          /\ prev' = [prev EXCEPT ![c] = active[p]]
          /\ takeover' = [takeover EXCEPT ![c] = TRUE]
          /\ UNCHANGED <<room, joined>>
      BY <2>28 DEF ReclaimActive, TakeSession, Goto
    <3>2. active[p] \in Conns /\ pc[active[p]] \in ActiveSteps /\ active[p] # c
      BY <2>28, <3>1 DEF ReclaimActive, TypeOK, SlotInv, ActiveIsLive
    <3>3. QED
      BY <2>0, <3>1, <3>2 DEF TypeOK
  <2>29. ASSUME CloseHub
        PROVE  PathInv'
    BY <2>29 DEF CloseHub, connVars
  <2>30. ASSUME CloseSockets
        PROVE  PathInv'
    BY <2>30 DEF CloseSockets, connVars
  <2>31. ASSUME NEW p \in Ids, CloseFreesSlot(p)
        PROVE  PathInv'
    BY <2>31 DEF CloseFreesSlot, connVars
  <2>32. CASE UNCHANGED vars
    BY <2>32 DEF vars, connVars, hubVars
  <2>33. ASSUME NEW c \in Conns, JoinPath(c)
        PROVE  PathInv'
    BY <2>33, <2>1, <2>2, <2>3, <2>26, <2>27, <2>28, <2>4, <2>5, <2>6, <2>7,
       <2>8, <2>9, <2>10, <2>11, <2>12
       DEF JoinPath
  <2>34. ASSUME NEW c \in Conns, CleanupPath(c)
        PROVE  PathInv'
    BY <2>34, <2>13, <2>25, <2>14, <2>15, <2>16, <2>17, <2>18, <2>19, <2>20
       DEF CleanupPath
  <2>35. ASSUME NEW c \in Conns, TimerPath(c)
        PROVE  PathInv'
    BY <2>35, <2>21, <2>22, <2>23, <2>24
       DEF TimerPath
  <2>36. QED
    BY <2>33, <2>34, <2>35, <2>29, <2>31, <2>30, <2>32
       DEF Next, ClosePath, Idle
<1>3. QED
  BY <1>1, <1>2, SessionsTypeOK, SessionInvariant, SlotInvariant, PTL DEF Spec


\* Every other member of the room has been told that p is present.
Visible(p) == \A c \in room : who[c] # p => p \in view[c]

\* Who is in the room, or was and is being taken over, is visible.
SeenSteps == {"room", "cleanup", "drop", "retire"}
SuccessorSteps == {"setup", "admit", "announce"}
Seen ==
  \A c \in Conns :
    /\ pc[c] \in SeenSteps /\ who[c] # None => Visible(who[c])
    /\ takeover[c] /\ pc[c] \in SuccessorSteps => Visible(who[c])
    /\ takeover[c] /\ pc[c] = "waiting" /\ pc[prev[c]] = "done" => Visible(who[c])

\* An admission that has failed stays so.
Stays ==
  \A c \in Conns :
    /\ expired[c] => expired'[c]
    /\ pc[c] \in CleanupSteps \union {"done"} =>
         pc'[c] \in CleanupSteps \union {"done"} /\ who'[c] = who[c] /\ joined'[c] = joined[c]

\* What a step may do without hiding anybody who is to be visible.
SeenQuiet ==
  /\ UNCHANGED <<who, turn, prev, takeover>>
  /\ room' \subseteq room
  /\ \A c \in room' : view[c] \subseteq view'[c]
  /\ \A c \in Conns :
       /\ who[c] # None /\ pc'[c] \in SeenSteps =>
            pc[c] \in SeenSteps \/ (pc'[c] = "cleanup" /\ ~joined'[c])
       /\ takeover[c] /\ pc'[c] \in SuccessorSteps => pc[c] \in SuccessorSteps
       /\ pc'[c] = "waiting" => pc[c] = "waiting"
       /\ who[c] # None /\ pc'[c] = "done" =>
            pc[c] \in {"done", "arm", "remove", "tellGone", "retire"}

\* While no admission fails, a quiet step hides nobody.
LEMMA SeenQuietStep ==
  ASSUME TypeOK, SessionInv, PathInv, Seen, NoFailedAdmission', SeenQuiet
  PROVE  Seen'
<1> USE SessionAssumptions
<1>1. \A c \in Conns : who[c] # None => (Visible(who[c]) => Visible(who[c])')
  <2> SUFFICES ASSUME NEW c \in Conns, who[c] # None, Visible(who[c])
               PROVE  Visible(who[c])'
    OBVIOUS
  <2>1. room' \subseteq room /\ who' = who /\ \A d \in room' : view[d] \subseteq view'[d]
    BY DEF SeenQuiet
  <2>2. QED
    BY <2>1 DEF Visible
<1>2. ASSUME NEW c \in Conns, pc'[c] \in SeenSteps, who'[c] # None
      PROVE  Visible(who[c])'
  <2>1. who[c] # None /\ who'[c] = who[c]
    BY <1>2 DEF SeenQuiet
  <2>2. pc[c] \in SeenSteps
    BY <1>2, <2>1 DEF SeenQuiet, NoFailedAdmission, CleanupSteps
  <2>3. QED
    BY <1>1, <2>1, <2>2 DEF Seen
<1>3. ASSUME NEW c \in Conns, takeover'[c], pc'[c] \in SuccessorSteps
      PROVE  Visible(who[c])'
  <2>1. takeover[c] /\ pc[c] \in SuccessorSteps
    BY <1>3 DEF SeenQuiet
  <2>2. who[c] # None
    BY <2>1 DEF TypeOK, SuccessorSteps
  <2>3. QED
    BY <1>1, <2>1, <2>2 DEF Seen
<1>4. ASSUME NEW c \in Conns, takeover'[c], pc'[c] = "waiting", pc'[prev'[c]] = "done"
      PROVE  Visible(who[c])'
  <2>1. takeover[c] /\ pc[c] = "waiting" /\ prev'[c] = prev[c]
    BY <1>4 DEF SeenQuiet
  <2>2. prev[c] \in Conns /\ who[prev[c]] = who[c] /\ who[c] # None
    BY <2>1 DEF TypeOK, SessionInv, WaitsForPredecessor
  <2>3. pc[prev[c]] \in {"done", "arm", "remove", "tellGone", "retire"}
    BY <1>4, <2>1, <2>2 DEF SeenQuiet
  <2>4. pc[prev[c]] \in {"done", "retire"}
    BY <2>1, <2>3 DEF PathInv, TakenOver, ActiveSteps
  <2>5. Visible(who[c])
    BY <2>1, <2>2, <2>4 DEF Seen, SeenSteps
  <2>6. QED
    BY <1>1, <2>2, <2>5
<1>5. QED
  BY <1>2, <1>3, <1>4 DEF Seen

\* Nobody who acts beside a connection that is to be visible hides it.
LEMMA HidesNobody ==
  ASSUME TypeOK, SessionInv, NEW c \in Conns, NEW d \in Conns,
         pc[c] \in {"tellLeft", "tellGone"}, who[d] = who[c],
         \/ pc[d] \in SeenSteps \union SuccessorSteps
         \/ pc[d] = "waiting" /\ pc[prev[d]] = "done"
  PROVE  FALSE
<1> USE SessionAssumptions
<1>1. who[c] # None /\ c # d
  BY DEF TypeOK, SeenSteps, SuccessorSteps
<1>2. pc[d] \in {"waiting", "done"}
  BY <1>1, ActorIsAlone
<1>3. pc[d] = "waiting" /\ pc[prev[d]] = "done"
  BY <1>2 DEF SeenSteps, SuccessorSteps
<1>4. /\ prev[d] \in Conns /\ prev[d] # c /\ who[prev[d]] = who[c]
      /\ turn[d] = turn[prev[d]] + 1
  BY <1>3 DEF TypeOK, SessionInv, WaitsForPredecessor
<1>5. /\ turn[c] \in Nat /\ turn[d] \in Nat /\ turn[prev[d]] \in Nat
      /\ turn[c] # turn[d] /\ turn[c] # turn[prev[d]]
  BY <1>1, <1>4 DEF TypeOK, SessionInv, TurnsDiffer
<1>6. turn[c] < turn[prev[d]] \/ turn[d] < turn[c]
  BY <1>4, <1>5
<1>7. QED
  BY <1>1, <1>3, <1>4, <1>6 DEF SessionInv, LaterOnesWait

\* Whoever is to be visible holds a slot outside any grace window.
LEMMA VisibleIsPresent ==
  ASSUME TypeOK, SessionInv, SlotInv, NEW c \in Conns, who[c] # None,
         pc[c] \in SeenSteps \union SuccessorSteps \union {"waiting"}
  PROVE  who[c] \in participants \ InGrace
<1> USE SessionAssumptions
<1>1. who[c] \in participants
  BY DEF SlotInv, SlotIsHeld, HeldSteps, SeenSteps, SuccessorSteps
<1>2. ASSUME who[c] \in InGrace
      PROVE  FALSE
  <2>1. who[c] \in Ids /\ pending[who[c]] # None
    BY <1>2 DEF InGrace
  <2>2. PICK d \in Conns : d = pending[who[c]]
    BY <2>1 DEF TypeOK
  <2>3. who[d] = who[c] /\ Latest(d) /\ pc[d] \in EntrySteps
    BY <2>1, <2>2 DEF SessionInv, TablesNameLatest, SlotInv, EntryIsHeld
  <2>4. d # c /\ pc[d] # "waiting"
    BY <2>3 DEF EntrySteps, SeenSteps, SuccessorSteps
  <2>5. pc[c] = "done"
    BY <2>3, <2>4, LastIsAlone
  <2>6. QED
    BY <2>5 DEF SeenSteps, SuccessorSteps
<1>3. QED
  BY <1>1, <1>2


\* A connection that waits has a predecessor of the same participant.
LEMMA WaitsForOne ==
  ASSUME TypeOK, SessionInv, NEW d \in Conns, pc[d] = "waiting"
  PROVE  /\ prev[d] \in Conns
         /\ who[d] # None
         /\ who[prev[d]] = who[d]
BY SessionAssumptions DEF TypeOK, SessionInv, WaitsForPredecessor

\* While no admission fails, who is in the room is visible in every reachable state.
LEMMA SeenInvariant == Spec => [](NoFailedAdmission => Seen)
<1> USE SessionAssumptions
<1>1. Init => Seen
  BY DEF Init, Seen, SeenSteps, SuccessorSteps
<1>2. /\ TypeOK /\ SessionInv /\ SlotInv /\ PathInv /\ (NoFailedAdmission => Seen)
      /\ TypeOK' /\ [Next]_vars
      => (NoFailedAdmission => Seen)'
  <2> SUFFICES ASSUME TypeOK, SessionInv, SlotInv, PathInv, NoFailedAdmission => Seen,
                      TypeOK', [Next]_vars, NoFailedAdmission'
               PROVE  Seen'
    OBVIOUS
  <2> USE DEF RoomSteps, CleanupSteps, JoinSteps, SeenSteps, SuccessorSteps
  <2>0. Stays => Seen
    <3>1. Stays => NoFailedAdmission
      BY DEF Stays, NoFailedAdmission, TypeOK
    <3>2. QED
      BY <3>1
  <2>1. ASSUME NEW c \in Conns, Connect(c)
        PROVE  Stays /\ SeenQuiet
    BY <2>1
       DEF Stays, SeenQuiet, TypeOK, Connect, Goto, connVars, hubVars, slotVars, viewVars
  <2>2. ASSUME NEW c \in Conns, LoopExit(c)
        PROVE  Stays /\ SeenQuiet
    BY <2>2
       DEF Stays, SeenQuiet, TypeOK, LoopExit, Goto, connVars, hubVars, slotVars, viewVars, SessionInv, NamesAreCreated
  <2>3. ASSUME NEW c \in Conns, LeaveMessage(c)
        PROVE  Stays /\ SeenQuiet
    BY <2>3
       DEF Stays, SeenQuiet, TypeOK, LeaveMessage, Goto, connVars, hubVars, slotVars, viewVars
  <2>4. ASSUME NEW c \in Conns, BindToken(c)
        PROVE  Stays /\ SeenQuiet
    BY <2>4
       DEF Stays, SeenQuiet, TypeOK, BindToken, Goto, connVars, hubVars, slotVars, viewVars, PathInv, JoinedLate, TakenOver
  <2>5. ASSUME NEW c \in Conns, ClosePrevious(c)
        PROVE  Stays /\ SeenQuiet
    BY <2>5
       DEF Stays, SeenQuiet, TypeOK, ClosePrevious, Goto, connVars, hubVars, slotVars, viewVars
  <2>6. ASSUME NEW c \in Conns, RegisterPeer(c)
        PROVE  Stays /\ SeenQuiet
    BY <2>6
       DEF Stays, SeenQuiet, TypeOK, RegisterPeer, Goto, connVars, hubVars, slotVars, viewVars
  <2>7. ASSUME NEW c \in Conns, PeerSetupFails(c)
        PROVE  Stays /\ SeenQuiet
    BY <2>7
       DEF Stays, SeenQuiet, TypeOK, PeerSetupFails, Goto, connVars, hubVars, slotVars, viewVars, PathInv, JoinedLate, TakenOver
  <2>8. ASSUME NEW c \in Conns, ExpireAdmission(c)
        PROVE  Stays /\ SeenQuiet
    BY <2>8
       DEF Stays, SeenQuiet, TypeOK, ExpireAdmission, Goto, connVars, hubVars, slotVars, viewVars
  <2>9. ASSUME NEW c \in Conns, AdmitFails(c)
        PROVE  Stays /\ SeenQuiet
    BY <2>9
       DEF Stays, SeenQuiet, TypeOK, AdmitFails, Goto, connVars, hubVars, slotVars, viewVars, PathInv, JoinedLate, TakenOver
  <2>10. ASSUME NEW c \in Conns, Cleanup(c)
        PROVE  Stays /\ SeenQuiet
    BY <2>10
       DEF Stays, SeenQuiet, TypeOK, Cleanup, Goto, connVars, hubVars, slotVars, viewVars
  <2>11. ASSUME NEW c \in Conns, Drop(c)
        PROVE  Stays /\ SeenQuiet
    BY <2>11
       DEF Stays, SeenQuiet, TypeOK, Drop, Goto, connVars, hubVars, slotVars, viewVars
  <2>12. ASSUME NEW c \in Conns, Retire(c)
        PROVE  Stays /\ SeenQuiet
    BY <2>12
       DEF Stays, SeenQuiet, TypeOK, Retire, Goto, connVars, hubVars, slotVars, viewVars
  <2>13. ASSUME NEW c \in Conns, Teardown(c)
        PROVE  Stays /\ SeenQuiet
    BY <2>13
       DEF Stays, SeenQuiet, TypeOK, Teardown, Goto, connVars, hubVars, slotVars, viewVars
  <2>14. ASSUME NEW c \in Conns, OpenGrace(c)
        PROVE  Stays /\ SeenQuiet
    BY <2>14
       DEF Stays, SeenQuiet, TypeOK, OpenGrace, Goto, connVars, hubVars, slotVars, viewVars
  <2>15. ASSUME NEW c \in Conns, ArmTimer(c)
        PROVE  Stays /\ SeenQuiet
    BY <2>15
       DEF Stays, SeenQuiet, TypeOK, ArmTimer, Goto, connVars, hubVars, slotVars, viewVars
  <2>16. ASSUME NEW c \in Conns, Remove(c)
        PROVE  Stays /\ SeenQuiet
    BY <2>16
       DEF Stays, SeenQuiet, TypeOK, Remove, Goto, connVars, hubVars, slotVars, viewVars
  <2>17. ASSUME NEW c \in Conns, TimerFires(c)
        PROVE  Stays /\ SeenQuiet
    BY <2>17
       DEF Stays, SeenQuiet, TypeOK, TimerFires, Goto, connVars, hubVars, slotVars, viewVars
  <2>18. ASSUME NEW c \in Conns, ExpireEntry(c)
        PROVE  Stays /\ SeenQuiet
    BY <2>18
       DEF Stays, SeenQuiet, TypeOK, ExpireEntry, Goto, connVars, hubVars, slotVars, viewVars
  <2>19. ASSUME NEW c \in Conns, ExpireMedia(c)
        PROVE  Stays /\ SeenQuiet
    BY <2>19
       DEF Stays, SeenQuiet, TypeOK, ExpireMedia, Goto, connVars, hubVars, slotVars, viewVars
  <2>20. ASSUME NEW c \in Conns, ExpireSlot(c)
        PROVE  Stays /\ SeenQuiet
    BY <2>20
       DEF Stays, SeenQuiet, TypeOK, ExpireSlot, Goto, connVars, hubVars, slotVars, viewVars
  <2>21. ASSUME NEW c \in Conns, NEW p \in Ids, JoinFresh(c, p)
        PROVE  Seen'
    <3>1. /\ pc[c] = "open" /\ who[c] = None /\ who' = [who EXCEPT ![c] = p]
          /\ pc' = [pc EXCEPT ![c] = "named"] /\ UNCHANGED <<prev, takeover, expired, joined, room, view>>
      BY <2>21 DEF JoinFresh, Goto, hubVars, viewVars, SessionInv, NamesAreCreated
    <3>2. Seen
      BY <2>0, <3>1 DEF Stays, TypeOK
    <3>3. /\ pc'[c] = "named" /\ c \notin room
          /\ \A d \in Conns \ {c} : who'[d] = who[d] /\ pc'[d] = pc[d]
      BY <3>1, SMTT(30) DEF TypeOK, PathInv, RoomIsCurrent
    <3>4. \A d \in Conns \ {c} : Visible(who[d]) => Visible(who[d])'
      BY <3>1, <3>3 DEF Visible, TypeOK
    <3>5. ASSUME NEW d \in Conns, pc'[d] = "waiting"
          PROVE  d # c /\ pc[d] = "waiting" /\ prev[d] \in Conns /\ prev[d] # c
      <4>1. d # c /\ pc[d] = "waiting"
        BY <3>3, <3>5
      <4>2. QED
        BY <3>1, <4>1, WaitsForOne
    <3>6. QED
      BY <3>1, <3>2, <3>3, <3>4, <3>5 DEF Seen
  <2>22. ASSUME NEW c \in Conns, NEW p \in Ids, ReclaimPending(c, p)
        PROVE  Seen'
    <3>1. /\ pc[c] = "open" /\ who[c] = None /\ who' = [who EXCEPT ![c] = p]
          /\ prev' = [prev EXCEPT ![c] = pending[p]]
          /\ pc' = [pc EXCEPT ![c] = "waiting"] /\ UNCHANGED <<takeover, expired, joined, room, view>>
      BY <2>22 DEF ReclaimPending, TakeSession, Goto, viewVars, SessionInv, NamesAreCreated
    <3>2. Seen
      BY <2>0, <3>1 DEF Stays, TypeOK
    <3>3. /\ pc'[c] = "waiting" /\ c \notin room
          /\ \A d \in Conns \ {c} : /\ who'[d] = who[d] /\ pc'[d] = pc[d]
                                    /\ prev'[d] = prev[d] /\ takeover'[d] = takeover[d]
      <4>1. c \notin room
        BY <3>1 DEF PathInv, RoomIsCurrent
      <4>2. QED
        BY <3>1, <4>1 DEF TypeOK
    <3>4. \A d \in Conns \ {c} : Visible(who[d]) => Visible(who[d])'
      BY <3>1, <3>3 DEF Visible, TypeOK
    <3>5. ASSUME NEW d \in Conns \ {c}, pc'[d] = "waiting"
          PROVE  pc[d] = "waiting" /\ prev[d] \in Conns /\ prev[d] # c
      <4>1. pc[d] = "waiting"
        BY <3>3, <3>5
      <4>2. QED
        BY <3>1, <4>1, WaitsForOne
    <3>6. ~takeover'[c]
      BY <3>1 DEF PathInv, TakenOver
    <3>7. QED
      BY <3>1, <3>2, <3>3, <3>4, <3>5, <3>6 DEF Seen
  <2>23. ASSUME NEW c \in Conns, NEW p \in Ids, ReclaimActive(c, p)
        PROVE  Seen'
    <3>1. /\ pc[c] = "open" /\ who[c] = None /\ who' = [who EXCEPT ![c] = p]
          /\ prev' = [prev EXCEPT ![c] = active[p]]
          /\ pc' = [pc EXCEPT ![c] = "waiting"] /\ UNCHANGED <<expired, joined, room, view>>
      BY <2>23 DEF ReclaimActive, TakeSession, Goto, viewVars, SessionInv, NamesAreCreated
    <3>2. Seen
      BY <2>0, <3>1 DEF Stays, TypeOK
    <3>3. /\ pc'[c] = "waiting" /\ c \notin room
          /\ \A d \in Conns \ {c} : /\ who'[d] = who[d] /\ pc'[d] = pc[d]
                                    /\ prev'[d] = prev[d] /\ takeover'[d] = takeover[d]
      BY <2>23, <3>1, SMTT(30) DEF ReclaimActive, TypeOK, PathInv, RoomIsCurrent
    <3>4. \A d \in Conns \ {c} : Visible(who[d]) => Visible(who[d])'
      BY <3>1, <3>3 DEF Visible, TypeOK
    <3>5. ASSUME NEW d \in Conns \ {c}, pc'[d] = "waiting"
          PROVE  pc[d] = "waiting" /\ prev[d] \in Conns /\ prev[d] # c
      <4>1. pc[d] = "waiting"
        BY <3>3, <3>5
      <4>2. QED
        BY <3>1, <4>1, WaitsForOne
    <3>6. pc'[prev'[c]] # "done"
      <4>1. active[p] \in Conns \ {c} /\ pc[active[p]] \in ActiveSteps
        BY <2>23, <3>1 DEF ReclaimActive, TypeOK, SlotInv, ActiveIsLive, ActiveSteps
      <4>2. QED
        BY <3>1, <3>3, <4>1 DEF ActiveSteps, TypeOK
    <3>7. QED
      BY <3>1, <3>2, <3>3, <3>4, <3>5, <3>6 DEF Seen
  <2>24. ASSUME NEW c \in Conns, AwaitPrevious(c)
        PROVE  Seen'
    <3>1. /\ pc[c] = "waiting" /\ pc[prev[c]] = "done" /\ prev[c] \in Conns
          /\ pc' = [pc EXCEPT ![c] = "setup"]
          /\ UNCHANGED <<who, prev, takeover, expired, joined, room, view>>
      BY <2>24 DEF AwaitPrevious, Goto, hubVars, viewVars, TypeOK
    <3>2. Seen
      BY <2>0, <3>1 DEF Stays, TypeOK
    <3>3. pc'[c] = "setup" /\ \A d \in Conns \ {c} : pc'[d] = pc[d]
      BY <3>1 DEF TypeOK
    <3>4. \A d \in Conns : Visible(who[d])' <=> Visible(who[d])
      BY <3>1 DEF Visible
    <3>5. \A d \in Conns : pc[d] = "waiting" => prev[d] \in Conns
      BY DEF TypeOK
    <3>6. QED
      BY <3>1, <3>2, <3>3, <3>4, <3>5 DEF Seen
  <2>25. ASSUME NEW c \in Conns, Admit(c)
        PROVE  Seen'
    <3>1. /\ pc[c] = "admit" /\ pc' = [pc EXCEPT ![c] = "announce"]
          /\ room' = room \union {c}
          /\ view' = [view EXCEPT ![c] = (participants \ {who[c]}) \ InGrace]
          /\ UNCHANGED <<who, prev, takeover, expired, joined>>
      BY <2>25 DEF Admit, Goto
    <3>2. Seen
      BY <2>0, <3>1 DEF Stays, TypeOK
    <3>3. pc'[c] = "announce" /\ \A d \in Conns \ {c} : pc'[d] = pc[d]
      BY <3>1 DEF TypeOK
    <3>4. ASSUME NEW d \in Conns, who[d] # None, Visible(who[d]),
                 pc[d] \in SeenSteps \union SuccessorSteps \union {"waiting"}
          PROVE  Visible(who[d])'
      <4>1. who[d] \in participants \ InGrace
        BY <3>4, VisibleIsPresent
      <4>2. \A e \in Conns \ {c} : view'[e] = view[e]
        BY <3>1 DEF TypeOK
      <4>3. view'[c] = (participants \ {who[c]}) \ InGrace
        BY <3>1 DEF TypeOK
      <4>4. QED
        BY <3>1, <3>4, <4>1, <4>2, <4>3 DEF Visible, TypeOK
    <3>5. \A d \in Conns : pc[d] = "waiting" => prev[d] \in Conns
      BY DEF TypeOK
    <3>6. ASSUME NEW d \in Conns, pc'[d] \in SeenSteps, who[d] # None
          PROVE  Visible(who[d])'
      BY <3>2, <3>3, <3>4, <3>6 DEF Seen
    <3>7. ASSUME NEW d \in Conns, takeover[d], pc'[d] \in SuccessorSteps
          PROVE  Visible(who[d])'
      <4>1. pc[d] \in SuccessorSteps
        BY <3>1, <3>3, <3>7
      <4>2. who[d] # None
        BY <4>1 DEF TypeOK
      <4>3. QED
        BY <3>2, <3>4, <3>7, <4>1, <4>2 DEF Seen
    <3>8. ASSUME NEW d \in Conns, takeover[d], pc'[d] = "waiting", pc'[prev[d]] = "done"
          PROVE  Visible(who[d])'
      <4>1. pc[d] = "waiting" /\ pc[prev[d]] = "done"
        BY <3>3, <3>5, <3>8
      <4>2. who[d] # None
        BY <4>1 DEF TypeOK
      <4>3. QED
        BY <3>2, <3>4, <3>8, <4>1, <4>2 DEF Seen
    <3>9. QED
      BY <3>1, <3>6, <3>7, <3>8 DEF Seen
  <2>26. ASSUME NEW c \in Conns, Announce(c)
        PROVE  Seen'
    <3>1. /\ pc[c] = "announce" /\ pc' = [pc EXCEPT ![c] = "room"]
          /\ joined' = [joined EXCEPT ![c] = TRUE]
          /\ UNCHANGED <<who, prev, takeover, expired, room>>
      BY <2>26 DEF Announce, Goto, hubVars
    <3>2. Seen
      BY <2>0, <3>1 DEF Stays, TypeOK
    <3>3. pc'[c] = "room" /\ \A d \in Conns \ {c} : pc'[d] = pc[d]
      BY <3>1 DEF TypeOK
    <3>4. \A d \in Conns : view[d] \subseteq view'[d]
      BY <2>26, SMTT(30) DEF Announce, TellJoined, TypeOK
    <3>5. \A d \in Conns : Visible(who[d]) => Visible(who[d])'
      BY <3>1, <3>4 DEF Visible, TypeOK
    <3>6. Visible(who[c])'
      <4>1. CASE takeover[c]
        BY <3>1, <3>2, <3>5, <4>1 DEF Seen
      <4>2. CASE ~takeover[c]
        BY <2>26, <3>1, <4>2, SMTT(30) DEF Announce, TellJoined, Visible, TypeOK
      <4>3. QED
        BY <4>1, <4>2
    <3>7. \A d \in Conns : pc[d] = "waiting" => prev[d] \in Conns
      BY DEF TypeOK
    <3>8. QED
      BY <3>1, <3>2, <3>3, <3>5, <3>6, <3>7 DEF Seen
  <2>27. ASSUME NEW c \in Conns, TellLeft(c)
        PROVE  Seen'
    <3>1. /\ pc[c] = "tellLeft" /\ pc' = [pc EXCEPT ![c] = "arm"]
          /\ UNCHANGED <<who, prev, takeover, expired, joined, room>>
      BY <2>27 DEF TellLeft, Goto, hubVars
    <3>2. Seen
      BY <2>0, <3>1 DEF Stays, TypeOK
    <3>3. pc'[c] = "arm" /\ \A d \in Conns \ {c} : pc'[d] = pc[d]
      BY <3>1 DEF TypeOK
    <3>4. \A d \in Conns : view[d] \ {who[c]} \subseteq view'[d]
      BY <2>27 DEF TellLeft, TellGoneTo, TypeOK
    <3>5. \A d \in Conns : who[d] # who[c] => (Visible(who[d]) => Visible(who[d])')
      BY <3>1, <3>4 DEF Visible, TypeOK
    <3>6. ASSUME NEW d \in Conns, pc[d] = "waiting", pc'[prev[d]] = "done"
          PROVE  pc[prev[d]] = "done" \/ ~takeover[d]
      BY <3>1, <3>3, <3>6 DEF TypeOK, PathInv, TakenOver, ActiveSteps
    <3>7. QED
      BY <3>1, <3>2, <3>3, <3>5, <3>6, HidesNobody DEF Seen
  <2>28. ASSUME NEW c \in Conns, TellGone(c)
        PROVE  Seen'
    <3>1. /\ pc[c] = "tellGone" /\ pc' = [pc EXCEPT ![c] = "done"]
          /\ UNCHANGED <<who, prev, takeover, expired, joined, room>>
      BY <2>28 DEF TellGone, Goto, hubVars
    <3>2. Seen
      BY <2>0, <3>1 DEF Stays, TypeOK
    <3>3. pc'[c] = "done" /\ \A d \in Conns \ {c} : pc'[d] = pc[d]
      BY <3>1 DEF TypeOK
    <3>4. \A d \in Conns : view[d] \ {who[c]} \subseteq view'[d]
      BY <2>28 DEF TellGone, TellGoneTo, TypeOK
    <3>5. \A d \in Conns : who[d] # who[c] => (Visible(who[d]) => Visible(who[d])')
      BY <3>1, <3>4 DEF Visible, TypeOK
    <3>6. ASSUME NEW d \in Conns, pc[d] = "waiting", pc'[prev[d]] = "done"
          PROVE  pc[prev[d]] = "done" \/ ~takeover[d]
      <4>1. CASE prev[d] = c
        BY <3>1, <3>6, <4>1 DEF PathInv, TakenOver, ActiveSteps
      <4>2. CASE prev[d] # c
        BY <3>3, <3>6, <4>2, WaitsForOne
      <4>3. QED
        BY <4>1, <4>2
    <3>7. QED
      BY <3>1, <3>2, <3>3, <3>5, <3>6, HidesNobody DEF Seen
  <2>29. ASSUME CloseHub
        PROVE  Stays /\ SeenQuiet
    BY <2>29 DEF Stays, SeenQuiet, CloseHub, connVars, viewVars, TypeOK
  <2>30. ASSUME CloseSockets
        PROVE  Stays /\ SeenQuiet
    BY <2>30 DEF Stays, SeenQuiet, CloseSockets, connVars, viewVars, TypeOK
  <2>31. ASSUME NEW p \in Ids, CloseFreesSlot(p)
        PROVE  Stays /\ SeenQuiet
    BY <2>31 DEF Stays, SeenQuiet, CloseFreesSlot, connVars, viewVars, TypeOK
  <2>32. CASE UNCHANGED vars
    <3>1. Stays /\ SeenQuiet
      BY <2>32 DEF Stays, SeenQuiet, vars, connVars, hubVars, viewVars
    <3>2. QED
      BY <3>1, <2>0, SeenQuietStep
  <2>33. ASSUME NEW c \in Conns, JoinPath(c)
        PROVE  Seen'
    BY <2>33, <2>1, <2>2, <2>3, <2>21, <2>22, <2>23, <2>4, <2>5, <2>24, <2>6,
       <2>7, <2>8, <2>25, <2>9, <2>26, <2>0, SeenQuietStep
       DEF JoinPath
  <2>34. ASSUME NEW c \in Conns, CleanupPath(c)
        PROVE  Seen'
    BY <2>34, <2>10, <2>11, <2>12, <2>13, <2>14, <2>27, <2>15, <2>16, <2>28,
       <2>0, SeenQuietStep
       DEF CleanupPath
  <2>35. ASSUME NEW c \in Conns, TimerPath(c)
        PROVE  Seen'
    BY <2>35, <2>17, <2>18, <2>19, <2>20, <2>0, SeenQuietStep
       DEF TimerPath
  <2>36. QED
    BY <2>33, <2>34, <2>35, <2>29, <2>31, <2>30, <2>32, <2>0, SeenQuietStep
       DEF Next, ClosePath, Idle
<1>3. QED
  BY <1>1, <1>2, SessionsTypeOK, SessionInvariant, SlotInvariant, PathInvariant, PTL DEF Spec

\* Everyone in the room has been shown to everyone else in it, whatever order joins,
\* departures, resumptions and takeovers take (hub.go, admit and disconnect), as long as
\* no admission failed.
THEOREM MembersSeeEachOther == Spec => []EveryoneIsVisible
<1>1. TypeOK /\ SessionInv /\ PathInv /\ (NoFailedAdmission => Seen) => EveryoneIsVisible
  <2> SUFFICES ASSUME TypeOK, SessionInv, PathInv, Seen, NEW c \in Conns, NEW d \in Conns,
                      pc[c] = "room", pc[d] = "room", c # d
               PROVE  who[d] \in view[c]
    BY DEF EveryoneIsVisible
  <2>1. who[c] # None /\ who[d] # None /\ c \in room
    BY SessionAssumptions DEF TypeOK, PathInv, RoomIsCurrent, RoomSteps
  <2>2. who[c] # who[d]
    BY <2>1, ActorIsAlone
  <2>3. Visible(who[d])
    BY <2>1 DEF Seen, SeenSteps
  <2>4. QED
    BY <2>1, <2>2, <2>3 DEF Visible
<1>2. QED
  BY <1>1, SessionsTypeOK, SessionInvariant, PathInvariant, SeenInvariant, PTL
=============================================================================
