-------------------------- MODULE MeetingPageProofs --------------------------
(***************************************************************************)
(* Proofs about the meeting's screen, for every set of members, messages   *)
(* and participants, every limit of the history and every size of a page.  *)
(* The chat: no member of a room misses a retained message or sees one     *)
(* twice, and what the browser shows of it is what it was sent.  The       *)
(* stage: whatever joins, leaves, is pinned, hidden, shared or paged, a    *)
(* pin has its tile, an expanded tile is shown, and the cameras asked for  *)
(* are those that are shown.                                               *)
(***************************************************************************)
EXTENDS MeetingPage, FiniteSetTheorems, WellFoundedInduction, TLAPS

----------------------------------------------------------------------------
(* Sequences, and the elements of one that lie in a set.                   *)

\* A set of natural numbers has a least one.
LEMMA LeastNumber ==
  ASSUME NEW T, T \subseteq Nat, T # {}
  PROVE  \E x \in T : \A y \in T : x <= y
<1>1. PICK x \in T : \A y \in T : <<y, x>> \notin OpToRel(<, Nat)
  BY WFMin, NatLessThanWellFounded, Zenon
<1>2. \A y \in T : ~(y < x)
  BY <1>1, Zenon DEF OpToRel
<1>3. QED
  BY <1>2

\* Induction up to n, by the least number that is not in the set.
LEMMA UpTo ==
  ASSUME NEW n \in Nat, NEW T, 0 \in T, \A i \in 0 .. n - 1 : i \in T => i + 1 \in T
  PROVE  \A i \in 0 .. n : i \in T
<1> DEFINE B == (0 .. n) \ T
<1> SUFFICES ASSUME B # {} PROVE FALSE
  OBVIOUS
<1>1. B \subseteq Nat
  OBVIOUS
<1> HIDE DEF B
<1>2. PICK x \in B : \A y \in B : x <= y
  BY <1>1, LeastNumber
<1>3. x # 0
  BY DEF B
<1>4. x - 1 \in 0 .. n - 1 /\ x - 1 \notin B
  BY <1>2, <1>3 DEF B
<1>5. QED
  BY <1>4 DEF B

\* What Append adds to a sequence.
LEMMA AppendAdds ==
  ASSUME NEW E, NEW s \in Seq(E), NEW m \in E
  PROVE  /\ Append(s, m) \in Seq(E) /\ Append(s, m) # <<>>
         /\ Len(Append(s, m)) = Len(s) + 1
         /\ Append(s, m)[Len(s) + 1] = m
         /\ \A i \in 1 .. Len(s) : Append(s, m)[i] = s[i]
         /\ ToSet(Append(s, m)) = ToSet(s) \union {m}
         /\ IsInjective(s) /\ m \notin ToSet(s) => IsInjective(Append(s, m))
<1> DEFINE t == Append(s, m)
<1>1. /\ t \in Seq(E) /\ Len(s) \in Nat /\ Len(t) = Len(s) + 1
      /\ DOMAIN s = 1..Len(s) /\ DOMAIN t = 1..Len(s) + 1
      /\ \A i \in 1..Len(s) : t[i] = s[i]
      /\ t[Len(s) + 1] = m
  OBVIOUS
<1> HIDE DEF t
<1>2. \A i \in DOMAIN t : i \in DOMAIN s \/ i = Len(s) + 1
  BY <1>1
<1>3. DOMAIN s \subseteq DOMAIN t /\ Len(s) + 1 \in DOMAIN t
  BY <1>1
<1>4. ToSet(t) = ToSet(s) \union {m}
  BY <1>1, <1>2, <1>3 DEF ToSet
<1>5. ASSUME IsInjective(s), m \notin ToSet(s)
      PROVE  IsInjective(t)
  BY <1>1, <1>2, <1>5 DEF IsInjective, ToSet
<1>6. t # <<>>
  BY <1>1
<1>7. QED
  BY <1>1, <1>4, <1>5, <1>6 DEF t

\* f collects the elements of s that lie in S, up to the n-th.
KeptBy(f, s, S, n) ==
  f = [i \in 0 .. n |-> IF i = 0 THEN <<>>
                        ELSE IF s[i] \in S THEN Append(f[i - 1], s[i]) ELSE f[i - 1]]

\* Keep is the value of such a function.
LEMMA KeptExists ==
  ASSUME NEW s, NEW S, NEW n \in Nat
  PROVE  \E f : KeptBy(f, s, S, n)
<1> DEFINE T == {i \in 0 .. n : \E f : KeptBy(f, s, S, i)}
<1>1. 0 \in T
  <2> DEFINE g == [i \in 0 .. 0 |-> <<>>]
  <2>1. KeptBy(g, s, S, 0)
    BY DEF KeptBy
  <2>2. QED
    BY <2>1
<1>2. ASSUME NEW i \in 0 .. n - 1, i \in T
      PROVE  i + 1 \in T
  <2>1. PICK f : KeptBy(f, s, S, i)
    BY <1>2
  <2> DEFINE last == IF s[i + 1] \in S THEN Append(f[i], s[i + 1]) ELSE f[i]
             g == [j \in 0 .. i + 1 |-> IF j = i + 1 THEN last ELSE f[j]]
  <2>2. ASSUME NEW j \in 0 .. i + 1
        PROVE  g[j] = IF j = 0 THEN <<>>
                      ELSE IF s[j] \in S THEN Append(g[j - 1], s[j]) ELSE g[j - 1]
    <3>1. CASE j = i + 1
      BY <3>1
    <3>2. CASE j # i + 1
      <4>1. j \in 0 .. i /\ g[j] = f[j] /\ (j # 0 => g[j - 1] = f[j - 1])
        BY <3>2
      <4>2. f[j] = IF j = 0 THEN <<>>
                   ELSE IF s[j] \in S THEN Append(f[j - 1], s[j]) ELSE f[j - 1]
        BY <2>1, <4>1 DEF KeptBy
      <4>3. QED
        BY <4>1, <4>2
    <3>3. QED
      BY <3>1, <3>2
  <2>3. KeptBy(g, s, S, i + 1)
    BY <2>2 DEF KeptBy
  <2>4. QED
    BY <2>3
<1>3. \A i \in 0 .. n : i \in T
  <2> HIDE DEF T
  <2>1. QED
    BY <1>1, <1>2, UpTo
<1>4. QED
  BY <1>3

\* Whether the next element is collected.
LEMMA KeptLast ==
  ASSUME NEW s, NEW S, Len(s) \in Nat
  PROVE  \E f : KeptBy(f, s, S, Len(s)) /\ Keep(s, S) = f[Len(s)]
<1> DEFINE f == CHOOSE f : KeptBy(f, s, S, Len(s))
<1>1. KeptBy(f, s, S, Len(s))
  BY KeptExists
<1>2. Keep(s, S) = f[Len(s)]
  BY Zenon DEF Keep, KeptBy
<1>3. QED
  BY <1>1, <1>2

\* Keep selects: what it keeps was there, once, and all of it if all of it lies in S.
LEMMA KeepPart ==
  ASSUME NEW E, NEW s \in Seq(E), NEW S
  PROVE  /\ Keep(s, S) \in Seq(E)
         /\ Len(Keep(s, S)) <= Len(s)
         /\ ToSet(Keep(s, S)) = ToSet(s) \intersect S
         /\ IsInjective(s) => IsInjective(Keep(s, S))
         /\ ToSet(s) \subseteq S => Keep(s, S) = s
<1>1. PICK f : KeptBy(f, s, S, Len(s)) /\ Keep(s, S) = f[Len(s)]
  BY KeptLast
<1> DEFINE n == Len(s)
           Start(i) == {s[j] : j \in 1 .. i}
           Good(i) == /\ f[i] \in Seq(E)
                      /\ Len(f[i]) <= i
                      /\ ToSet(f[i]) = Start(i) \intersect S
                      /\ IsInjective(s) => IsInjective(f[i])
                      /\ ToSet(s) \subseteq S =>
                           Len(f[i]) = i /\ \A j \in 1 .. i : f[i][j] = s[j]
           T == {i \in 0 .. n : Good(i)}
<1>2. n \in Nat /\ DOMAIN s = 1 .. n /\ \A i \in 1 .. n : s[i] \in E
  OBVIOUS
<1>3. 0 \in T
  <2>1. f[0] = <<>>
    BY <1>1, <1>2 DEF KeptBy
  <2>2. f[0] \in Seq(E) /\ Len(f[0]) = 0 /\ DOMAIN f[0] = {} /\ Start(0) = {}
    BY <2>1
  <2>3. ToSet(f[0]) = {} /\ IsInjective(f[0])
    BY <2>2 DEF ToSet, IsInjective
  <2> HIDE DEF Start
  <2>4. QED
    BY <1>2, <2>2, <2>3
<1>4. ASSUME NEW i \in 0 .. n - 1, i \in T
      PROVE  i + 1 \in T
  <2>1. f[i + 1] = IF s[i + 1] \in S THEN Append(f[i], s[i + 1]) ELSE f[i]
    <3>1. i + 1 \in 0 .. Len(s) /\ i + 1 # 0 /\ (i + 1) - 1 = i
      OBVIOUS
    <3>2. QED
      BY <1>1, <3>1 DEF KeptBy
  <2>2. Good(i)
    BY <1>4
  <2>3. s[i + 1] \in E /\ s[i + 1] \in ToSet(s) /\ Start(i + 1) = Start(i) \union {s[i + 1]}
    <3>1. i + 1 \in 1 .. n /\ i \in Nat
      OBVIOUS
    <3>2. \A j : j \in 1 .. (i + 1) <=> j \in 1 .. i \/ j = i + 1
      OBVIOUS
    <3>3. QED
      BY <1>2, <3>1, <3>2 DEF ToSet
  <2>4. IsInjective(s) => s[i + 1] \notin Start(i)
    <3>1. \A j \in 1 .. i : j # i + 1 /\ j \in DOMAIN s /\ i + 1 \in DOMAIN s
      BY <1>2
    <3>2. QED
      BY <3>1 DEF IsInjective
  <2> HIDE DEF Start
  <2>5. CASE s[i + 1] \in S
    <3>1. f[i + 1] = Append(f[i], s[i + 1])
      BY <2>1, <2>5
    <3>2. /\ f[i + 1] \in Seq(E) /\ Len(f[i + 1]) = Len(f[i]) + 1
          /\ ToSet(f[i + 1]) = ToSet(f[i]) \union {s[i + 1]}
          /\ IsInjective(f[i]) /\ s[i + 1] \notin ToSet(f[i]) => IsInjective(f[i + 1])
          /\ f[i + 1][Len(f[i]) + 1] = s[i + 1]
          /\ \A j \in 1 .. Len(f[i]) : f[i + 1][j] = f[i][j]
      BY <2>2, <2>3, <3>1, AppendAdds
    <3>3. ToSet(s) \subseteq S =>
            Len(f[i + 1]) = i + 1 /\ \A j \in 1 .. i + 1 : f[i + 1][j] = s[j]
      <4>1. SUFFICES ASSUME ToSet(s) \subseteq S, NEW j \in 1 .. i + 1
                     PROVE  Len(f[i]) = i /\ f[i + 1][j] = s[j]
        BY <3>2
      <4>2. Len(f[i]) = i /\ \A k \in 1 .. i : f[i][k] = s[k]
        BY <2>2, <4>1
      <4>3. CASE j = i + 1
        BY <3>2, <4>2, <4>3
      <4>4. CASE j # i + 1
        <5>1. j \in 1 .. i
          BY <4>4
        <5>2. QED
          BY <3>2, <4>2, <5>1
      <4>5. QED
        BY <4>2, <4>3, <4>4
    <3>4. Len(f[i + 1]) <= i + 1
      BY <2>2, <3>2
    <3>5. QED
      BY <2>2, <2>3, <2>4, <2>5, <3>2, <3>3, <3>4
  <2>6. CASE s[i + 1] \notin S
    <3>1. f[i + 1] = f[i] /\ ~(ToSet(s) \subseteq S)
      BY <2>1, <2>3, <2>6
    <3>2. Len(f[i + 1]) <= i + 1
      BY <2>2, <3>1
    <3>3. QED
      BY <2>2, <2>3, <2>6, <3>1, <3>2
  <2>7. QED
    BY <2>5, <2>6
<1>5. Good(n)
  <2> HIDE DEF T
  <2>1. \A i \in 0 .. n : i \in T
    BY <1>2, <1>3, <1>4, UpTo
  <2>2. n \in T
    BY <1>2, <2>1
  <2>3. QED
    BY <2>2 DEF T
<1>6. Start(n) = ToSet(s)
  BY <1>2 DEF ToSet
<1>7. ToSet(s) \subseteq S => f[n] = s
  BY <1>2, <1>5
<1>8. QED
  BY <1>1, <1>5, <1>6, <1>7
----------------------------------------------------------------------------
\* The same of messages.
LEMMA AppendAddsOne ==
  ASSUME NEW s \in Seq(Messages), NEW m \in Messages
  PROVE  /\ Append(s, m) \in Seq(Messages)
         /\ Append(s, m) # <<>>
         /\ ToSet(Append(s, m)) = ToSet(s) \union {m}
         /\ IsInjective(s) /\ m \notin ToSet(s) => IsInjective(Append(s, m))
BY AppendAdds

\* What the cut to the newest Limit entries keeps.
LEMMA TrimmedKeepsPart ==
  ASSUME NEW s \in Seq(Messages)
  PROVE  /\ Trimmed(s) \in Seq(Messages)
         /\ Len(Trimmed(s)) <= Limit
         /\ s # <<>> => Trimmed(s) # <<>>
         /\ ToSet(Trimmed(s)) \subseteq ToSet(s)
         /\ IsInjective(s) => IsInjective(Trimmed(s))
<1> DEFINE cut == Len(s) - Limit
           t == SubSeq(s, cut + 1, Len(s))
<1>1. Limit \in Nat /\ Limit > 0 /\ Len(s) \in Nat /\ DOMAIN s = 1..Len(s)
  BY ChatAssumptions
<1>2. CASE Len(s) > Limit
  <2>1. /\ t \in Seq(Messages) /\ Len(t) = Limit /\ DOMAIN t = 1..Limit
        /\ \A i \in 1..Limit : t[i] = s[cut + i]
    BY <1>1, <1>2
  <2>2. \A i \in DOMAIN t : cut + i \in DOMAIN s /\ t[i] = s[cut + i]
    BY <1>1, <1>2, <2>1
  <2>3. Trimmed(s) = t
    BY <1>2 DEF Trimmed
  <2>4. cut \in Int /\ DOMAIN t \subseteq Int
    BY <1>1, <2>1
  <2> HIDE DEF t, cut
  <2>5. ToSet(t) \subseteq ToSet(s)
    BY <2>2 DEF ToSet
  <2>6. ASSUME IsInjective(s)
        PROVE  IsInjective(t)
    <3>1. ASSUME NEW i \in DOMAIN t, NEW j \in DOMAIN t, t[i] = t[j]
          PROVE  i = j
      <4>1. cut + i = cut + j
        BY <2>2, <2>6, <3>1 DEF IsInjective
      <4>2. QED
        BY <2>4, <4>1
    <3>2. QED
      BY <3>1 DEF IsInjective
  <2>7. t # <<>>
    BY <1>1, <2>1
  <2>8. QED
    BY <1>1, <2>1, <2>3, <2>5, <2>6, <2>7
<1>3. CASE ~(Len(s) > Limit)
  BY <1>1, <1>3 DEF Trimmed
<1>4. QED
  BY <1>2, <1>3

----------------------------------------------------------------------------
(* Types.                                                                  *)

\* Type invariant of the room chat.
THEOREM ChatHistoryTypeOK == Spec => []TypeOK
<1>1. Init => TypeOK
  BY ChatAssumptions DEF Init, TypeOK, Steps
<1>2. TypeOK /\ [Next]_vars => TypeOK'
  <2> SUFFICES ASSUME TypeOK, [Next]_vars
               PROVE  TypeOK'
    OBVIOUS
  <2> USE ChatAssumptions DEF TypeOK, Steps, chatVars, expiryVars, adminVars
  <2>1. ASSUME NEW p \in Members, TakeSlot(p)
        PROVE  TypeOK'
    BY <2>1 DEF TakeSlot, Goto
  <2>2. ASSUME NEW p \in Members, CancelExpiry(p)
        PROVE  TypeOK'
    BY <2>2 DEF CancelExpiry, Goto
  <2>3. ASSUME NEW p \in Members, Admit(p)
        PROVE  TypeOK'
    BY <2>3 DEF Admit, Goto
  <2>4. ASSUME NEW p \in Members, FailJoin(p)
        PROVE  TypeOK'
    BY <2>4 DEF FailJoin, Goto
  <2>5. ASSUME NEW p \in Members, NEW m \in Messages, Send(p, m)
        PROVE  TypeOK'
    BY <2>5 DEF Send, Goto
  <2>6. ASSUME NEW p \in Members, Record(p)
        PROVE  TypeOK'
    <3>1. message[p] \in Messages
      BY <2>6 DEF Record
    <3>2. history' \in Seq(Messages) /\ Len(history') <= Limit /\ (keep[p] => history' # <<>>)
      BY <2>6, <3>1, AppendAddsOne, TrimmedKeepsPart DEF Record
    <3>3. feed' \in [Members -> Seq(Messages)] /\ log' \in Seq(Messages)
      BY <2>6, <3>1 DEF Record
    <3>4. expiry' \in {"none", "armed", "fired"} /\ (expiry' # "none" => history' # <<>>)
      BY <2>6, <3>2 DEF Record
    <3>5. QED
      BY <2>6, <3>2, <3>3, <3>4 DEF Record, Done, Goto
  <2>7. ASSUME NEW p \in Members, Leave(p)
        PROVE  TypeOK'
    BY <2>7 DEF Leave, Goto
  <2>8. ASSUME NEW p \in Members, FreeSlot(p)
        PROVE  TypeOK'
    BY <2>8 DEF FreeSlot, Goto
  <2>9. ASSUME NEW p \in Members, CheckSchedule(p)
        PROVE  TypeOK'
    BY <2>9 DEF CheckSchedule, Goto
  <2>10. ASSUME NEW p \in Members, Arm(p)
        PROVE  TypeOK'
    BY <2>10 DEF Arm, Goto
  <2>11. ASSUME Fire
        PROVE  TypeOK'
    BY <2>11 DEF Fire
  <2>12. ASSUME CheckEmpty
        PROVE  TypeOK'
    BY <2>12 DEF CheckEmpty
  <2>13. ASSUME DeleteHistory
        PROVE  TypeOK'
    BY <2>13 DEF DeleteHistory
  <2>14. ASSUME NEW v \in BOOLEAN, Post(v)
        PROVE  TypeOK'
    BY <2>14 DEF Post
  <2>15. ASSUME Clear
        PROVE  TypeOK'
    BY <2>15 DEF Clear
  <2>16. CASE UNCHANGED vars
    BY <2>16 DEF vars
  <2>17. QED
    BY <2>1, <2>2, <2>3, <2>4, <2>5, <2>6, <2>7, <2>8, <2>9, <2>10, <2>11, <2>12, <2>13, <2>14,
       <2>15, <2>16
       DEF Next, MemberStep
<1>3. QED
  BY <1>1, <1>2, PTL DEF Spec

----------------------------------------------------------------------------
(* Replay and fan-out.                                                     *)

\* The sender's browser shows the message that is still to be recorded.
SenderHasOwn ==
  \A p \in Members : step[p] = "send" => message[p] \in ToSet(feed[p])

\* Nobody in the room misses a retained message: admit replays the history in
\* the critical section that adds the member to the fan-out, and
\* recordAndBroadcastChat records and fans out in one.
THEOREM RetainedMessagesArrive == Spec => []RetainedReachesAll
<1> DEFINE Reach == SenderHasOwn /\ RetainedReachesAll
<1>1. Init => Reach
  BY DEF Init, SenderHasOwn, RetainedReachesAll, Room
<1>2. TypeOK /\ Reach /\ [Next]_vars => Reach'
  <2> SUFFICES ASSUME TypeOK, Reach, [Next]_vars
               PROVE  Reach'
    OBVIOUS
  <2> USE ChatAssumptions DEF TypeOK, Steps, Room, SenderHasOwn, RetainedReachesAll,
                              chatVars, expiryVars, adminVars
  <2>1. ASSUME NEW p \in Members, TakeSlot(p)
        PROVE  Reach'
    BY <2>1 DEF TakeSlot, Goto
  <2>2. ASSUME NEW p \in Members, CancelExpiry(p)
        PROVE  Reach'
    BY <2>2 DEF CancelExpiry, Goto
  <2>3. ASSUME NEW p \in Members, Admit(p)
        PROVE  Reach'
    BY <2>3 DEF Admit, Goto
  <2>4. ASSUME NEW p \in Members, FailJoin(p)
        PROVE  Reach'
    BY <2>4 DEF FailJoin, Goto
  <2>5. ASSUME NEW p \in Members, NEW m \in Messages, Send(p, m)
        PROVE  Reach'
    <3>1. feed[p] \in Seq(Messages) /\ ToSet(feed'[p]) = ToSet(feed[p]) \union {m}
      BY <2>5, AppendAddsOne DEF Send
    <3>2. \A q \in Members : ToSet(feed[q]) \subseteq ToSet(feed'[q])
      BY <2>5, <3>1 DEF Send
    <3>3. QED
      BY <2>5, <3>1, <3>2 DEF Send, Goto
  <2>6. ASSUME NEW p \in Members, Record(p)
        PROVE  Reach'
    <3>1. message[p] \in Messages /\ step[p] = "send"
      BY <2>6 DEF Record
    <3>2. ToSet(history') \subseteq ToSet(history) \union {message[p]}
      <4>1. /\ history \in Seq(Messages)
            /\ Append(history, message[p]) \in Seq(Messages)
            /\ ToSet(Append(history, message[p])) = ToSet(history) \union {message[p]}
        BY <3>1, AppendAddsOne
      <4>2. ToSet(Trimmed(Append(history, message[p]))) \subseteq ToSet(history) \union {message[p]}
        BY <4>1, TrimmedKeepsPart
      <4>3. QED
        BY <2>6, <4>1, <4>2 DEF Record
    <3>3. ASSUME NEW q \in Room
          PROVE  ToSet(feed'[q]) = ToSet(feed[q]) \union {message[p]}
      <4>1. q \in Members /\ feed[q] \in Seq(Messages)
        OBVIOUS
      <4>2. CASE q = p
        BY <2>6, <3>1, <4>1, <4>2 DEF Record
      <4>3. CASE q # p
        BY <2>6, <3>1, <4>1, <4>3, AppendAddsOne DEF Record
      <4>4. QED
        BY <4>2, <4>3
    <3>4. Room' = Room /\ \A q \in Members : step'[q] = "send" => step[q] = "send"
          /\ message'[q] = message[q]
      BY <2>6 DEF Record, Done, Goto
    <3>5. QED
      BY <3>2, <3>3, <3>4
  <2>7. ASSUME NEW p \in Members, Leave(p)
        PROVE  Reach'
    BY <2>7 DEF Leave, Goto
  <2>8. ASSUME NEW p \in Members, FreeSlot(p)
        PROVE  Reach'
    BY <2>8 DEF FreeSlot, Goto
  <2>9. ASSUME NEW p \in Members, CheckSchedule(p)
        PROVE  Reach'
    BY <2>9 DEF CheckSchedule, Goto
  <2>10. ASSUME NEW p \in Members, Arm(p)
        PROVE  Reach'
    BY <2>10 DEF Arm, Goto
  <2>11. ASSUME Fire
        PROVE  Reach'
    BY <2>11 DEF Fire
  <2>12. ASSUME CheckEmpty
        PROVE  Reach'
    BY <2>12 DEF CheckEmpty
  <2>13. ASSUME DeleteHistory
        PROVE  Reach'
    BY <2>13 DEF DeleteHistory, ToSet
  <2>14. ASSUME NEW v \in BOOLEAN, Post(v)
        PROVE  Reach'
    BY <2>14 DEF Post
  <2>15. ASSUME Clear
        PROVE  Reach'
    BY <2>15 DEF Clear, ToSet
  <2>16. CASE UNCHANGED vars
    BY <2>16 DEF vars
  <2>17. QED
    BY <2>1, <2>2, <2>3, <2>4, <2>5, <2>6, <2>7, <2>8, <2>9, <2>10, <2>11, <2>12, <2>13, <2>14,
       <2>15, <2>16
       DEF Next, MemberStep
<1>3. QED
  BY <1>1, <1>2, ChatHistoryTypeOK, PTL DEF Spec

\* Histories and feeds hold no message twice...
EachOnce == IsInjective(history) /\ \A p \in Members : IsInjective(feed[p])

\* ... none that is still unsent...
UnsentIsNew ==
  /\ ToSet(history) \intersect unsent = {}
  /\ \A p \in Members : ToSet(feed[p]) \intersect unsent = {}

\* ... and none that is being handled, but for the sender's own feed.
HandledIsNew ==
  \A p \in Members : step[p] = "send" =>
    /\ message[p] \notin unsent \union ToSet(history)
    /\ \A q \in Members \ {p} : message[p] \notin ToSet(feed[q])
    /\ \A q \in Members \ {p} : message[q] # message[p]

\* Together they are inductive.
Once == EachOnce /\ UnsentIsNew /\ HandledIsNew

\* The three together are inductive.
LEMMA MessagesAreNew == Spec => []Once
<1>1. Init => Once
  BY DEF Init, Once, EachOnce, UnsentIsNew, HandledIsNew, ToSet, IsInjective
<1>2. TypeOK /\ Once /\ [Next]_vars => Once'
  <2> SUFFICES ASSUME TypeOK, Once, [Next]_vars
               PROVE  Once'
    OBVIOUS
  <2> USE ChatAssumptions DEF TypeOK, Steps, Once, EachOnce, UnsentIsNew, HandledIsNew,
                              chatVars, expiryVars, adminVars
  <2>1. ASSUME NEW p \in Members, TakeSlot(p)
        PROVE  Once'
    BY <2>1 DEF TakeSlot, Goto
  <2>2. ASSUME NEW p \in Members, CancelExpiry(p)
        PROVE  Once'
    BY <2>2 DEF CancelExpiry, Goto
  <2>3. ASSUME NEW p \in Members, Admit(p)
        PROVE  Once'
    BY <2>3 DEF Admit, Goto
  <2>4. ASSUME NEW p \in Members, FailJoin(p)
        PROVE  Once'
    BY <2>4 DEF FailJoin, Goto
  <2>5. ASSUME NEW p \in Members, NEW m \in Messages, Send(p, m)
        PROVE  Once'
    <3>1. feed[p] \in Seq(Messages)
      BY <2>5
    <3>2. IsInjective(feed'[p]) /\ ToSet(feed'[p]) = ToSet(feed[p]) \union {m}
      BY <2>5, <3>1, AppendAddsOne DEF Send
    <3>3. \A q \in Members : q # p => feed'[q] = feed[q] /\ step'[q] = step[q]
          /\ message'[q] = message[q]
      BY <2>5 DEF Send, Goto
    <3>4. history' = history /\ unsent' = unsent \ {m} /\ m \in unsent /\ message'[p] = m
      BY <2>5 DEF Send
    <3>5. EachOnce'
      BY <3>2, <3>3, <3>4
    <3>6. UnsentIsNew'
      BY <3>2, <3>3, <3>4
    <3>7. HandledIsNew'
      <4>1. ASSUME NEW r \in Members, step'[r] = "send"
            PROVE  /\ message'[r] \notin unsent' \union ToSet(history')
                   /\ \A q \in Members \ {r} : message'[r] \notin ToSet(feed'[q])
                   /\ \A q \in Members \ {r} : message'[q] # message'[r]
        <5>1. CASE r = p
          <6>1. ASSUME NEW q \in Members \ {p}
                PROVE  message[q] # m
            BY <3>4, <2>5 DEF Send
          <6>2. QED
            BY <3>3, <3>4, <5>1, <6>1
        <5>2. CASE r # p
          <6>1. step[r] = "send" /\ message'[r] = message[r] /\ message[r] # m
            BY <3>3, <3>4, <4>1, <5>2
          <6>2. message'[r] \notin unsent' \union ToSet(history')
            BY <3>4, <6>1
          <6>3. ASSUME NEW q \in Members \ {r}
                PROVE  message'[r] \notin ToSet(feed'[q]) /\ message'[q] # message'[r]
            <7>1. CASE q = p
              BY <3>2, <3>4, <6>1, <7>1
            <7>2. CASE q # p
              BY <3>3, <6>1, <7>2
            <7>3. QED
              BY <7>1, <7>2
          <6>4. QED
            BY <6>2, <6>3
        <5>3. QED
          BY <5>1, <5>2
      <4>2. QED
        BY <4>1
    <3>8. QED
      BY <3>5, <3>6, <3>7
  <2>6. ASSUME NEW p \in Members, Record(p)
        PROVE  Once'
    <3>1. message[p] \in Messages /\ step[p] = "send" /\ unsent' = unsent
      BY <2>6 DEF Record
    <3>2. /\ ToSet(history') \subseteq ToSet(history) \union {message[p]}
          /\ IsInjective(history')
      <4>1. /\ history \in Seq(Messages)
            /\ Append(history, message[p]) \in Seq(Messages)
            /\ ToSet(Append(history, message[p])) = ToSet(history) \union {message[p]}
            /\ IsInjective(Append(history, message[p]))
        BY <3>1, AppendAddsOne
      <4>2. ToSet(Trimmed(Append(history, message[p]))) \subseteq ToSet(history) \union {message[p]}
            /\ IsInjective(Trimmed(Append(history, message[p])))
        BY <4>1, TrimmedKeepsPart
      <4>3. QED
        BY <2>6, <4>1, <4>2 DEF Record
    <3>3. ASSUME NEW q \in Members
          PROVE  /\ ToSet(feed'[q]) \subseteq ToSet(feed[q]) \union {message[p]}
                 /\ IsInjective(feed'[q])
      <4>1. feed[q] \in Seq(Messages)
        OBVIOUS
      <4>2. CASE feed'[q] = feed[q]
        BY <4>2
      <4>3. CASE q # p /\ feed'[q] = Append(feed[q], message[p])
        BY <3>1, <4>1, <4>3, AppendAddsOne
      <4>4. QED
        BY <2>6, <4>2, <4>3 DEF Record
    <3>4. \A q \in Members : step'[q] = "send" => q # p /\ step[q] = "send"
          /\ message'[q] = message[q]
      BY <2>6 DEF Record, Done, Goto
    <3>5. \A q \in Members : message'[q] \in {message[q], NoMessage}
      BY <2>6 DEF Record, Done
    <3>6. EachOnce'
      BY <3>2, <3>3
    <3>7. UnsentIsNew'
      BY <3>1, <3>2, <3>3
    <3>8. HandledIsNew'
      <4>1. ASSUME NEW r \in Members, step'[r] = "send"
            PROVE  /\ message'[r] \notin unsent' \union ToSet(history')
                   /\ \A q \in Members \ {r} : message'[r] \notin ToSet(feed'[q])
                   /\ \A q \in Members \ {r} : message'[q] # message'[r]
        <5>1. r # p /\ step[r] = "send" /\ message'[r] = message[r] /\ message[r] # message[p]
          BY <3>1, <3>4, <4>1
        <5>2. message[r] # NoMessage
          BY <5>1
        <5>3. QED
          BY <3>1, <3>2, <3>3, <3>5, <5>1, <5>2
      <4>2. QED
        BY <4>1
    <3>9. QED
      BY <3>6, <3>7, <3>8
  <2>7. ASSUME NEW p \in Members, Leave(p)
        PROVE  Once'
    BY <2>7 DEF Leave, Goto, ToSet, IsInjective
  <2>8. ASSUME NEW p \in Members, FreeSlot(p)
        PROVE  Once'
    BY <2>8 DEF FreeSlot, Goto
  <2>9. ASSUME NEW p \in Members, CheckSchedule(p)
        PROVE  Once'
    BY <2>9 DEF CheckSchedule, Goto
  <2>10. ASSUME NEW p \in Members, Arm(p)
        PROVE  Once'
    BY <2>10 DEF Arm, Goto
  <2>11. ASSUME Fire
        PROVE  Once'
    BY <2>11 DEF Fire
  <2>12. ASSUME CheckEmpty
        PROVE  Once'
    BY <2>12 DEF CheckEmpty
  <2>13. ASSUME DeleteHistory
        PROVE  Once'
    BY <2>13 DEF DeleteHistory, ToSet, IsInjective
  <2>14. ASSUME NEW v \in BOOLEAN, Post(v)
        PROVE  Once'
    BY <2>14 DEF Post
  <2>15. ASSUME Clear
        PROVE  Once'
    BY <2>15 DEF Clear, ToSet, IsInjective
  <2>16. CASE UNCHANGED vars
    BY <2>16 DEF vars
  <2>17. QED
    BY <2>1, <2>2, <2>3, <2>4, <2>5, <2>6, <2>7, <2>8, <2>9, <2>10, <2>11, <2>12, <2>13, <2>14,
       <2>15, <2>16
       DEF Next, MemberStep
<1>3. QED
  BY <1>1, <1>2, ChatHistoryTypeOK, PTL DEF Spec

\* Nobody sees a message twice: it comes from the replay, or live, or is one's
\* own, which recordAndBroadcastChat does not send back.
THEOREM NoMessageTwice == Spec => []AtMostOnce
<1>1. Once => AtMostOnce
  BY DEF Once, EachOnce, AtMostOnce
<1>2. QED
  BY <1>1, MessagesAreNew, PTL

----------------------------------------------------------------------------
\* What it takes to be the end of a sequence.
LEMMA SuffixByElements ==
  ASSUME NEW s \in Seq(Messages), NEW t \in Seq(Messages)
  PROVE  IsSuffix(s, t) <=> /\ Len(s) <= Len(t)
                            /\ \A i \in 1 .. Len(s) : s[i] = t[Len(t) - Len(s) + i]
<1> DEFINE n == Len(s)
           m == Len(t)
           rs == Reverse(s)
           rt == Reverse(t)
<1>1. n \in Nat /\ m \in Nat
  OBVIOUS
<1>2. /\ rs \in Seq(Messages) /\ Len(rs) = n /\ \A i \in 1 .. n : rs[i] = s[n - i + 1]
      /\ rt \in Seq(Messages) /\ Len(rt) = m /\ \A i \in 1 .. m : rt[i] = t[m - i + 1]
  <2>1. \A i \in 1 .. n : n - i + 1 \in 1 .. n /\ s[n - i + 1] \in Messages
    BY <1>1
  <2>2. \A i \in 1 .. m : m - i + 1 \in 1 .. m /\ t[m - i + 1] \in Messages
    BY <1>1
  <2>3. QED
    BY <1>1, <2>1, <2>2 DEF Reverse
<1> HIDE DEF rs, rt
<1>3. ASSUME n <= m
      PROVE  SubSeq(rs, 1, n) = SubSeq(rt, 1, n) <=> \A i \in 1 .. n : rs[i] = rt[i]
  <2>1. /\ SubSeq(rs, 1, n) \in Seq(Messages) /\ Len(SubSeq(rs, 1, n)) = n
        /\ \A i \in 1 .. n : SubSeq(rs, 1, n)[i] = rs[i]
    BY <1>1, <1>2
  <2>2. /\ SubSeq(rt, 1, n) \in Seq(Messages) /\ Len(SubSeq(rt, 1, n)) = n
        /\ \A i \in 1 .. n : SubSeq(rt, 1, n)[i] = rt[i]
    BY <1>1, <1>2, <1>3
  <2>3. QED
    BY <2>1, <2>2
<1>4. ASSUME n <= m
      PROVE  (\A i \in 1 .. n : rs[i] = rt[i]) <=> \A i \in 1 .. n : s[i] = t[m - n + i]
  <2>1. ASSUME \A i \in 1 .. n : rs[i] = rt[i], NEW i \in 1 .. n
        PROVE  s[i] = t[m - n + i]
    <3>1. PICK k \in 1 .. n : k \in 1 .. m /\ n - k + 1 = i /\ m - k + 1 = m - n + i
      <4>1. /\ n - i + 1 \in 1 .. n /\ n - i + 1 \in 1 .. m
            /\ n - (n - i + 1) + 1 = i /\ m - (n - i + 1) + 1 = m - n + i
        BY <1>1, <1>4
      <4>2. QED
        BY <4>1
    <3>2. rs[k] = s[i] /\ rt[k] = t[m - n + i] /\ rs[k] = rt[k]
      BY <1>2, <2>1, <3>1
    <3>3. QED
      BY <3>2
  <2>2. ASSUME \A i \in 1 .. n : s[i] = t[m - n + i], NEW i \in 1 .. n
        PROVE  rs[i] = rt[i]
    <3>1. n - i + 1 \in 1 .. n /\ m - n + (n - i + 1) = m - i + 1 /\ i \in 1 .. m
      BY <1>1, <1>4
    <3>2. QED
      BY <1>2, <2>2, <3>1
  <2>3. QED
    BY <2>1, <2>2
<1>5. QED
  BY <1>1, <1>2, <1>3, <1>4 DEF IsSuffix, IsPrefix, rs, rt

\* The end of a conversation, after one more message.
LEMMA SuffixGrows ==
  ASSUME NEW s \in Seq(Messages), NEW t \in Seq(Messages), NEW m \in Messages, IsSuffix(s, t)
  PROVE  IsSuffix(Trimmed(Append(s, m)), Append(t, m))
<1> DEFINE a == Append(s, m)
           b == Append(t, m)
           c == Trimmed(a)
<1>1. /\ a \in Seq(Messages) /\ b \in Seq(Messages) /\ Len(s) \in Nat /\ Len(t) \in Nat
      /\ Len(a) = Len(s) + 1 /\ Len(b) = Len(t) + 1
      /\ \A i \in 1 .. Len(s) : a[i] = s[i]
      /\ \A i \in 1 .. Len(t) : b[i] = t[i]
      /\ a[Len(s) + 1] = m /\ b[Len(t) + 1] = m
  OBVIOUS
<1>2. Len(s) <= Len(t) /\ \A i \in 1 .. Len(s) : s[i] = t[Len(t) - Len(s) + i]
  BY SuffixByElements
<1> HIDE DEF a, b
<1>3. \A i \in 1 .. Len(a) : a[i] = b[Len(b) - Len(a) + i]
  <2> TAKE i \in 1 .. Len(a)
  <2>1. CASE i = Len(s) + 1
    BY <1>1, <2>1
  <2>2. CASE i # Len(s) + 1
    <3>1. i \in 1 .. Len(s) /\ Len(t) - Len(s) + i \in 1 .. Len(t)
          /\ Len(b) - Len(a) + i = Len(t) - Len(s) + i
      BY <1>1, <1>2, <2>2
    <3>2. QED
      BY <1>1, <1>2, <3>1
  <2>3. QED
    BY <2>1, <2>2
<1>4. \E cut \in Nat : /\ c \in Seq(Messages) /\ Len(c) = Len(a) - cut /\ cut <= Len(a)
                       /\ \A i \in 1 .. Len(c) : c[i] = a[cut + i]
  <2>1. Limit \in Nat /\ Limit > 0
    BY ChatAssumptions
  <2>2. CASE Len(a) > Limit
    <3>1. c = SubSeq(a, Len(a) - Limit + 1, Len(a))
      BY <2>2 DEF Trimmed
    <3> DEFINE k == Len(a) - Limit
    <3>2. k \in Nat /\ k <= Len(a) /\ Len(a) - k = Limit
      BY <1>1, <2>1, <2>2
    <3>3. /\ c \in Seq(Messages) /\ Len(c) = Limit
          /\ \A i \in 1 .. Limit : c[i] = a[k + i]
      BY <1>1, <2>1, <2>2, <3>1
    <3> HIDE DEF k
    <3>4. QED
      BY <3>2, <3>3
  <2>3. CASE ~(Len(a) > Limit)
    <3>1. c = a
      BY <2>3 DEF Trimmed
    <3>2. \A i \in 1 .. Len(a) : 0 + i = i
      BY <1>1
    <3>3. QED
      BY <1>1, <3>1, <3>2
  <2>4. QED
    BY <2>2, <2>3
<1>5. PICK cut \in Nat : /\ c \in Seq(Messages) /\ Len(c) = Len(a) - cut /\ cut <= Len(a)
                         /\ \A i \in 1 .. Len(c) : c[i] = a[cut + i]
  BY <1>4
<1> HIDE DEF c
<1>6. Len(c) <= Len(b)
  BY <1>1, <1>2, <1>5
<1>7. \A i \in 1 .. Len(c) : c[i] = b[Len(b) - Len(c) + i]
  <2> TAKE i \in 1 .. Len(c)
  <2>1. cut + i \in 1 .. Len(a) /\ Len(b) - Len(a) + (cut + i) = Len(b) - Len(c) + i
    BY <1>1, <1>5, SMTT(30)
  <2>2. QED
    BY <1>3, <1>5, <2>1
<1>8. QED
  BY <1>1, <1>5, <1>6, <1>7, SuffixByElements DEF a, b, c

\* Nothing is an end of every conversation.
LEMMA EmptySuffix ==
  ASSUME NEW t \in Seq(Messages)
  PROVE  IsSuffix(<<>>, t)
<1> DEFINE s == <<>>
<1>1. s \in Seq(Messages) /\ Len(s) = 0 /\ Len(t) \in Nat
  OBVIOUS
<1> HIDE DEF s
<1>2. IsSuffix(s, t) <=> /\ Len(s) <= Len(t)
                         /\ \A i \in 1 .. Len(s) : s[i] = t[Len(t) - Len(s) + i]
  BY <1>1, SuffixByElements
<1>3. Len(s) <= Len(t) /\ \A i \in 1 .. Len(s) : FALSE
  BY <1>1
<1>4. QED
  BY <1>2, <1>3 DEF s

\* The replay is the end of the conversation (HistoryIsTail): what the hub keeps
\* and sends to who joins are its latest messages, none left out (hub.go, replay).
THEOREM ReplayIsTheEnd == Spec => []HistoryIsTail
<1>1. Init => HistoryIsTail
  <2>1. <<>> \in Seq(Messages)
    OBVIOUS
  <2>2. QED
    BY <2>1, EmptySuffix DEF Init, HistoryIsTail
<1>2. TypeOK /\ HistoryIsTail /\ [Next]_vars => HistoryIsTail'
  <2> SUFFICES ASSUME TypeOK, HistoryIsTail, [Next]_vars
               PROVE  HistoryIsTail'
    OBVIOUS
  <2>1. ASSUME NEW p \in Members, Record(p)
        PROVE  HistoryIsTail'
    <3>1. message[p] \in Messages /\ history \in Seq(Messages) /\ log \in Seq(Messages)
      BY <2>1 DEF Record, TypeOK
    <3>2. QED
      BY <2>1, <3>1, SuffixGrows DEF Record, HistoryIsTail
  <2>2. ASSUME history' = <<>>, log' = log
        PROVE  HistoryIsTail'
    <3>1. log \in Seq(Messages)
      BY DEF TypeOK
    <3>2. QED
      BY <2>2, <3>1, EmptySuffix DEF HistoryIsTail
  <2>3. CASE DeleteHistory \/ Clear
    BY <2>2, <2>3 DEF DeleteHistory, Clear
  <2>4. CASE UNCHANGED <<history, log>>
    BY <2>4 DEF HistoryIsTail
  <2>5. QED
    BY <2>1, <2>3, <2>4
       DEF Next, MemberStep, TakeSlot, CancelExpiry, Admit, FailJoin, Send, Leave, FreeSlot,
           CheckSchedule, Arm, Fire, CheckEmpty, Post, vars, chatVars
<1>3. QED
  BY <1>1, <1>2, ChatHistoryTypeOK, PTL DEF Spec

----------------------------------------------------------------------------
(* The page.                                                               *)

\* Every step of the page is a step of the room, or none.
LEMMA PageStepIsRoomStep == NextPage => [Next]_vars
<1> USE PageAssumptions
<1>1. ASSUME Connect \/ Welcome \/ (\E m \in Messages : Say(m)) \/ Depart PROVE Next
  BY <1>1 DEF Connect, Welcome, Say, Depart, Next, MemberStep
<1>2. ASSUME NEW p \in Members, Hear(p) \/ Notice(p) PROVE Next
  BY <1>2 DEF Hear, Notice, Next, MemberStep
<1>3. ASSUME Unheard PROVE Next
  BY <1>3 DEF Unheard, Next, MemberStep
<1>4. ASSUME PageStep PROVE UNCHANGED vars
  BY <1>4 DEF PageStep, OpenChat, OpenSidebar, ClosePanel, OpenPopover, ClosePopover, Escape,
              HideRail, Scroll
<1>5. QED
  BY <1>1, <1>2, <1>3, <1>4 DEF NextPage

\* The page lives in the room of ChatHistory: it does what a member can do, and
\* the room goes on around it (chat-history.js, hub.go).
THEOREM PageIsInTheRoom == PageSpec => Spec
<1>1. InitPage => Init
  BY DEF InitPage
<1>2. [NextPage]_allVars => [Next]_vars
  BY PageStepIsRoomStep DEF allVars
<1>3. QED
  BY <1>1, <1>2, PTL DEF PageSpec, Spec

\* The elements of a sequence are finitely many members of its set.
LEMMA ElementsAreFinite ==
  ASSUME NEW E, NEW s \in Seq(E)
  PROVE  IsFiniteSet(ToSet(s)) /\ ToSet(s) \subseteq E
<1> DEFINE n == Len(s)
           Start(i) == {s[j] : j \in 1 .. i}
           T == {i \in 0 .. n : IsFiniteSet(Start(i))}
<1>1. n \in Nat /\ DOMAIN s = 1 .. n /\ \A i \in 1 .. n : s[i] \in E
  OBVIOUS
<1>2. 0 \in T
  <2>1. Start(0) = {}
    OBVIOUS
  <2>2. IsFiniteSet(Start(0))
    BY <2>1, FS_EmptySet
  <2> HIDE DEF Start
  <2>3. QED
    BY <1>1, <2>2
<1>3. ASSUME NEW i \in 0 .. n - 1, i \in T
      PROVE  i + 1 \in T
  <2>1. Start(i + 1) = Start(i) \union {s[i + 1]}
    <3>1. \A j : j \in 1 .. (i + 1) <=> j \in 1 .. i \/ j = i + 1
      OBVIOUS
    <3>2. QED
      BY <3>1
  <2> HIDE DEF Start
  <2>2. IsFiniteSet(Start(i) \union {s[i + 1]})
    BY <1>3, FS_AddElement
  <2>3. IsFiniteSet(Start(i + 1))
    BY <2>1, <2>2
  <2>4. QED
    BY <2>3
<1>4. IsFiniteSet(Start(n))
  <2> HIDE DEF T
  <2>1. \A i \in 0 .. n : i \in T
    BY <1>1, <1>2, <1>3, UpTo
  <2>2. n \in T
    BY <1>1, <2>1
  <2>3. QED
    BY <2>2 DEF T
<1>5. Start(n) = ToSet(s)
  BY <1>1 DEF ToSet
<1>6. QED
  BY <1>1, <1>4, <1>5 DEF ToSet

\* The inductive invariant of the chat page: its types, what is displayed, and
\* the count of the messages that were not noticed.
PageInv ==
  /\ PageTypeOK /\ OnePanelIsShown
  /\ panel = "chat" => unread = 0
  /\ hint => ~pinned
  /\ IsFiniteSet(fresh)
  /\ ~RetriesEarly =>
       /\ Connected => lines = feed[Me]
       /\ step[Me] \in {"slot", "join"} => lines = <<>> /\ applied = {} /\ fresh = {}
       /\ fresh \subseteq ToSet(lines)
       /\ unread = Cardinality(fresh \ unnoticed)

\* What addChatMessage does to the badge, if the lines it counts are new.
LEMMA MarkCounts ==
  ASSUME NEW counted \in SUBSET Messages, IsFiniteSet(counted),
         PageInv, Mark(counted), UNCHANGED views, lines' \in Seq(Messages)
  PROVE  /\ unread' \in Nat /\ pinned' \in BOOLEAN /\ hint' \in BOOLEAN
         /\ unnoticed' \subseteq fresh' /\ fresh' \subseteq Messages /\ IsFiniteSet(fresh')
         /\ panel' = "chat" => unread' = 0
         /\ hint' => ~pinned'
         /\ fresh' \subseteq fresh \union counted
         /\ unread = Cardinality(fresh \ unnoticed) /\ counted \intersect fresh = {}
              => unread' = Cardinality(fresh' \ unnoticed')
<1> USE DEF PageInv, PageTypeOK, OnePanelIsShown, Mark, views
<1>1. Cardinality(counted) \in Nat
  BY FS_CardinalityType
<1>2. /\ unread' \in Nat /\ pinned' \in BOOLEAN /\ hint' \in BOOLEAN
      /\ panel' = "chat" => unread' = 0
      /\ hint' => ~pinned'
  BY <1>1
<1>3. /\ unnoticed' \subseteq fresh' /\ fresh' \subseteq Messages
      /\ fresh' \subseteq fresh \union counted
  OBVIOUS
<1>4. IsFiniteSet(fresh')
  BY FS_Union
<1>5. ASSUME unread = Cardinality(fresh \ unnoticed), counted \intersect fresh = {}
      PROVE  unread' = Cardinality(fresh' \ unnoticed')
  <2>1. CASE rail = "hidden"
    <3>1. panel # "chat"
      BY <2>1
    <3> DEFINE old == fresh \ unnoticed
    <3>2. fresh' \ unnoticed' = old \union counted /\ old \intersect counted = {}
      BY <1>5, <2>1, <3>1
    <3>3. IsFiniteSet(old)
      BY FS_Difference
    <3> HIDE DEF old
    <3>4. Cardinality(old \union counted) = Cardinality(old) + Cardinality(counted)
      <4>1. Cardinality(old \union counted)
              = Cardinality(old) + Cardinality(counted) - Cardinality(old \intersect counted)
        BY <3>3, FS_Union
      <4>2. Cardinality(old) \in Nat
        BY <3>3, FS_CardinalityType
      <4>3. Cardinality(old \intersect counted) = 0
        BY <3>2, FS_EmptySet
      <4>4. QED
        BY <1>1, <4>1, <4>2, <4>3
    <3>5. QED
      BY <1>5, <2>1, <3>2, <3>4 DEF old
  <2>2. CASE rail = "closing"
    <3>1. fresh' \ unnoticed' = fresh \ unnoticed
      BY <2>2, <1>5
    <3>2. QED
      BY <1>5, <2>2, <3>1
  <2>3. CASE rail = "shown"
    BY <1>5, <2>3
  <2>4. QED
    BY <2>1, <2>2, <2>3
<1>6. QED
  BY <1>2, <1>3, <1>4, <1>5

\* Who is not in the room, or stays with the page as it is.
LEMMA QuietStep ==
  ASSUME PageInv, TypeOK', UNCHANGED pageVars, step[Me] \in Steps,
         Connected' => Connected /\ feed'[Me] = feed[Me],
         step'[Me] \in {"slot", "join"} => step[Me] \in {"slot", "join"}
  PROVE  PageInv'
BY DEF PageInv, PageTypeOK, OnePanelIsShown, pageVars, marks, views, Connected

\* Marking the messages as read: the badge is cleared.
LEMMA MarkStep ==
  ASSUME PageInv, TypeOK', NEW counted \in SUBSET Messages, IsFiniteSet(counted),
         Mark(counted), UNCHANGED views, page' \in BOOLEAN,
         lines' \in Seq(Messages), applied' \subseteq Messages, Connected',
         ~RetriesEarly => /\ lines' = feed'[Me]
                          /\ fresh \union counted \subseteq ToSet(lines')
                          /\ counted \intersect fresh = {}
  PROVE  PageInv'
<1>1. /\ unread' \in Nat /\ pinned' \in BOOLEAN /\ hint' \in BOOLEAN
      /\ unnoticed' \subseteq fresh' /\ fresh' \subseteq Messages /\ IsFiniteSet(fresh')
      /\ panel' = "chat" => unread' = 0
      /\ hint' => ~pinned'
      /\ fresh' \subseteq fresh \union counted
      /\ unread = Cardinality(fresh \ unnoticed) /\ counted \intersect fresh = {}
           => unread' = Cardinality(fresh' \ unnoticed')
  BY MarkCounts
<1>2. PageTypeOK' /\ OnePanelIsShown'
  BY <1>1 DEF PageInv, PageTypeOK, OnePanelIsShown, views
<1>3. step'[Me] \notin {"slot", "join"}
  BY DEF Connected
<1>4. QED
  BY <1>1, <1>2, <1>3 DEF PageInv

\* Every step of the chat page keeps its invariant.
LEMMA PageHolds ==
  ASSUME PageInv, Once, TypeOK', NextPage
  PROVE  PageInv'
<1> USE PageAssumptions
<1>0. TypeOK /\ step \in [Members -> Steps] /\ feed \in [Members -> Seq(Messages)]
  BY DEF PageInv, PageTypeOK, TypeOK
<1>1. CASE Connect
  <2>1. TakeSlot(Me) /\ step' = [step EXCEPT ![Me] = "slot"] /\ feed' = feed
    BY <1>1 DEF Connect, TakeSlot, Goto, chatVars
  <2>2. ~Connected'
    BY <1>0, <2>1 DEF Connected
  <2>3. CASE ClearRail
    <3>1. lines' = <<>> /\ applied' = {} /\ unread' = 0 /\ fresh' = {} /\ unnoticed' = {}
          /\ hint' = FALSE /\ pinned' = TRUE
      BY <2>3 DEF ClearRail, Cleared
    <3>2. fresh' \ unnoticed' = {} /\ IsFiniteSet({}) /\ Cardinality({}) = 0
      BY <3>1, FS_EmptySet
    <3>3. PageTypeOK' /\ OnePanelIsShown'
      <4>1. UNCHANGED <<panel, rail, sidebar, popover, page>>
        BY <2>3 DEF ClearRail, views
      <4>2. lines' \in Seq(Messages) /\ applied' \subseteq Messages
            /\ unnoticed' \subseteq fresh' /\ fresh' \subseteq Messages
        BY <3>1
      <4>3. unread' \in Nat /\ pinned' \in BOOLEAN /\ hint' \in BOOLEAN
        BY <3>1
      <4>4. QED
        BY <4>1, <4>2, <4>3 DEF PageInv, PageTypeOK, OnePanelIsShown
    <3>4. QED
      BY <2>2, <3>1, <3>2, <3>3 DEF PageInv
  <2>4. CASE /\ RetriesEarly /\ page /\ popover /\ popover' = FALSE
             /\ UNCHANGED <<lines, applied, page, marks, panel, rail, sidebar>>
    BY <2>4 DEF PageInv, PageTypeOK, OnePanelIsShown, marks
  <2>5. QED
    BY <1>1, <2>3, <2>4 DEF Connect
<1>2. CASE Welcome
  <2> DEFINE new == Unapplied(history)
  <2>1. /\ step[Me] = "join" /\ feed' = [feed EXCEPT ![Me] = history] /\ history' = history
        /\ step' = [step EXCEPT ![Me] = "in"]
    BY <1>2 DEF Welcome, Admit, Goto
  <2>2. Connected' /\ feed'[Me] = history
    BY <1>0, <2>1 DEF Connected
  <2>3. history \in Seq(Messages) /\ new \in Seq(Messages)
        /\ ToSet(history) \subseteq Messages /\ IsFiniteSet(ToSet(new))
        /\ ToSet(new) \subseteq Messages
    BY <1>0, KeepPart, ElementsAreFinite DEF TypeOK, Unapplied
  <2>4. lines \in Seq(Messages) /\ lines' = lines \o new /\ lines' \in Seq(Messages)
        /\ applied' = applied \union ToSet(history) /\ applied' \subseteq Messages
        /\ page' = TRUE /\ UNCHANGED views
    BY <1>2, <2>3 DEF Welcome, ShowHistory, PageInv, PageTypeOK
  <2>5. ASSUME ~RetriesEarly
        PROVE  lines' = feed'[Me] /\ fresh = {} /\ lines' = new
    <3>1. lines = <<>> /\ applied = {} /\ fresh = {}
      BY <2>1, <2>5 DEF PageInv
    <3>2. ToSet(history) \ applied = ToSet(history)
      BY <3>1
    <3>3. new = history
      BY <2>3, <3>2, KeepPart DEF Unapplied
    <3>4. lines' = new
      BY <2>3, <2>4, <3>1
    <3>5. QED
      BY <2>2, <3>1, <3>3, <3>4
  <2>6. CASE new = <<>>
    <3>1. UNCHANGED marks
      BY <1>2, <2>6 DEF Welcome, ShowHistory
    <3>2. PageTypeOK' /\ OnePanelIsShown'
      BY <2>4, <3>1 DEF PageInv, PageTypeOK, OnePanelIsShown, views, marks
    <3>3. step'[Me] \notin {"slot", "join"}
      BY <1>0, <2>1
    <3>4. QED
      BY <2>4, <2>5, <3>1, <3>2, <3>3 DEF PageInv, marks, views
  <2>7. CASE new # <<>>
    <3>1. Mark(ToSet(new))
      BY <1>2, <2>7 DEF Welcome, ShowHistory
    <3> HIDE DEF new
    <3>2. QED
      BY <2>2, <2>3, <2>4, <2>5, <3>1, MarkStep
  <2>8. QED
    BY <2>6, <2>7
<1>3. ASSUME NEW m \in Messages, ShowMessage(m), lines' \in Seq(Messages), Connected',
             ~RetriesEarly => /\ lines = feed[Me] /\ m \notin ToSet(feed[Me])
                              /\ feed'[Me] = Append(feed[Me], m)
      PROVE  PageInv'
  <2>1. lines \in Seq(Messages) /\ ToSet(Append(lines, m)) = ToSet(lines) \union {m}
    BY AppendAdds DEF PageInv, PageTypeOK
  <2>2. /\ Mark({m}) /\ lines' = Append(lines, m)
        /\ UNCHANGED views /\ page' \in BOOLEAN /\ applied' \subseteq Messages
    BY <1>3 DEF ShowMessage, PageInv, PageTypeOK
  <2>3. ~RetriesEarly => /\ lines' = feed'[Me]
                         /\ fresh \union {m} \subseteq ToSet(lines')
                         /\ {m} \intersect fresh = {}
    BY <1>3, <2>1, <2>2 DEF PageInv
  <2>4. {m} \in SUBSET Messages /\ IsFiniteSet({m})
    BY FS_Singleton
  <2>5. QED
    BY <1>3, <2>2, <2>3, <2>4, MarkStep
<1>4. ASSUME NEW m \in Messages, Say(m) PROVE PageInv'
  <2>1. /\ step[Me] = "in" /\ m \in unsent /\ step' = [step EXCEPT ![Me] = "send"]
        /\ feed' = [feed EXCEPT ![Me] = Append(@, m)] /\ ShowMessage(m)
    BY <1>4 DEF Say, Send, Goto
  <2>2. Connected /\ Connected' /\ feed'[Me] = Append(feed[Me], m)
    BY <1>0, <2>1 DEF Connected
  <2>3. m \notin ToSet(feed[Me])
    BY <2>1 DEF Once, UnsentIsNew
  <2>4. lines' \in Seq(Messages)
    BY <2>1 DEF ShowMessage, PageInv, PageTypeOK
  <2>5. QED
    BY <1>3, <2>1, <2>2, <2>3, <2>4 DEF PageInv
<1>5. CASE Depart
  <2>1. step' = [step EXCEPT ![Me] = "leave"]
    BY <1>5 DEF Depart, Leave, Goto
  <2>2. ~Connected' /\ step'[Me] \notin {"slot", "join"}
    BY <1>0, <2>1 DEF Connected
  <2>3. CASE Leaving
    <3>1. lines' = <<>> /\ applied' = {} /\ unread' = 0 /\ fresh' = {} /\ unnoticed' = {}
          /\ hint' = FALSE /\ pinned' = TRUE
      BY <2>3 DEF Leaving, Cleared
    <3>2. fresh' \ unnoticed' = {} /\ IsFiniteSet({}) /\ Cardinality({}) = 0
      BY <3>1, FS_EmptySet
    <3>3. PageTypeOK' /\ OnePanelIsShown'
      <4>1. /\ panel' = "none" /\ rail' \in {"hidden", "closing"} /\ sidebar' = FALSE
            /\ popover' = popover /\ page' = FALSE
        BY <2>3 DEF Leaving, ClosePanels, Closing
      <4>2. lines' \in Seq(Messages) /\ applied' \subseteq Messages
            /\ unnoticed' \subseteq fresh' /\ fresh' \subseteq Messages
        BY <3>1
      <4>3. unread' \in Nat /\ pinned' \in BOOLEAN /\ hint' \in BOOLEAN
        BY <3>1
      <4>4. QED
        BY <4>1, <4>2, <4>3 DEF PageInv, PageTypeOK, OnePanelIsShown
    <3>4. QED
      BY <2>2, <3>1, <3>2, <3>3 DEF PageInv
  <2>4. CASE UNCHANGED pageVars
    BY <1>0, <2>2, <2>4, QuietStep
  <2>5. QED
    BY <1>5, <2>3, <2>4 DEF Depart
<1>6. ASSUME NEW p \in Members, Hear(p) PROVE PageInv'
  <2>1. /\ p # Me /\ step[p] = "send" /\ message[p] \in Messages
        /\ step' = [step EXCEPT ![p] = "in"]
        /\ feed' = [q \in Members |-> IF q \in Room \ {p} THEN Append(feed[q], message[p])
                                                          ELSE feed[q]]
    BY <1>0, <1>6 DEF Hear, Record, Done, Goto, TypeOK
  <2>2. step'[Me] = step[Me]
    BY <1>0, <2>1
  <2>3. CASE Connected
    <3>1. Me \in Room \ {p} /\ Connected'
      BY <2>1, <2>2, <2>3 DEF Connected, Room
    <3>2. feed'[Me] = Append(feed[Me], message[p])
      BY <2>1, <3>1
    <3>3. message[p] \notin ToSet(feed[Me])
      BY <2>1 DEF Once, HandledIsNew
    <3>4. ShowMessage(message[p])
      BY <1>6, <2>3 DEF Hear
    <3>5. lines' \in Seq(Messages)
      BY <2>1, <3>4 DEF ShowMessage, PageInv, PageTypeOK
    <3>6. QED
      BY <1>3, <2>1, <2>3, <3>1, <3>2, <3>3, <3>4, <3>5 DEF PageInv
  <2>4. CASE ~Connected
    <3>1. ~Connected' /\ UNCHANGED pageVars
      BY <1>6, <2>2, <2>4 DEF Connected, Hear
    <3>2. QED
      BY <1>0, <2>2, <3>1, QuietStep
  <2>5. QED
    BY <2>3, <2>4
<1>7. ASSUME NEW p \in Members, Notice(p) PROVE PageInv'
  <2>1. p # Me /\ step'[Me] = step[Me] /\ feed'[Me] = feed[Me]
    BY <1>0, <1>7 DEF Notice, Admit, Leave, Goto
  <2>2. CASE Connected
    <3>1. ShowNotice /\ Connected'
      BY <1>7, <2>1, <2>2 DEF Notice, Connected
    <3>2. /\ Mark({}) /\ UNCHANGED views /\ page' \in BOOLEAN /\ lines' = lines
          /\ lines' \in Seq(Messages) /\ applied' \subseteq Messages
      BY <3>1 DEF ShowNotice, PageInv, PageTypeOK
    <3>3. ~RetriesEarly => lines' = feed'[Me] /\ fresh \union {} \subseteq ToSet(lines')
      BY <2>1, <2>2, <3>2 DEF PageInv
    <3>4. {} \in SUBSET Messages /\ IsFiniteSet({}) /\ {} \intersect fresh = {}
      BY FS_EmptySet
    <3>5. QED
      BY <3>1, <3>2, <3>3, <3>4, MarkStep
  <2>3. CASE ~Connected
    <3>1. ~Connected' /\ UNCHANGED pageVars
      BY <1>7, <2>1, <2>3 DEF Connected, Notice
    <3>2. QED
      BY <1>0, <2>1, <3>1, QuietStep
  <2>4. QED
    BY <2>2, <2>3
<1>8. CASE Unheard
  <2>1. UNCHANGED pageVars
    BY <1>8 DEF Unheard
  <2> DEFINE Calm == /\ Connected' => Connected /\ feed'[Me] = feed[Me]
                     /\ step'[Me] \in {"slot", "join"} => step[Me] \in {"slot", "join"}
  <2>2. Calm
    <3> USE <1>0 DEF Connected, Goto, chatVars
    <3>1. ASSUME NEW p \in Members \ {Me}, TakeSlot(p) \/ \E m \in Messages : Send(p, m)
          PROVE  step'[Me] = step[Me] /\ feed'[Me] = feed[Me]
      BY <3>1 DEF TakeSlot, Send
    <3>2. ASSUME NEW p \in Members, CancelExpiry(p) \/ FailJoin(p) \/ FreeSlot(p) \/ CheckSchedule(p)
                                    \/ Arm(p)
          PROVE  Calm
      <4>1. /\ feed' = feed
            /\ \E s \in {"join", "out", "schedule", "arm"} : step' = [step EXCEPT ![p] = s]
            /\ step[p] \in {"slot", "join", "leave", "schedule", "arm"}
            /\ step'[p] = "join" => step[p] = "slot"
        BY <3>2 DEF CancelExpiry, FailJoin, FreeSlot, CheckSchedule, Arm
      <4>2. QED
        BY <4>1
    <3>3. ASSUME Record(Me)
          PROVE  Calm
      BY <3>3 DEF Record, Done
    <3>4. ASSUME Fire \/ CheckEmpty \/ DeleteHistory \/ (\E v \in BOOLEAN : Post(v)) \/ Clear
          PROVE  step' = step /\ feed' = feed
      BY <3>4 DEF Fire, CheckEmpty, DeleteHistory, Post, Clear
    <3>5. QED
      BY <1>8, <3>1, <3>2, <3>3, <3>4 DEF Unheard
  <2>3. QED
    BY <1>0, <2>1, <2>2, QuietStep
<1>9. CASE PageStep
  <2>1. step' = step /\ feed' = feed
    BY <1>9 DEF PageStep, OpenChat, OpenSidebar, ClosePanel, OpenPopover, ClosePopover, Escape,
                HideRail, Scroll, vars, chatVars
  <2> USE DEF PageInv, PageTypeOK, OnePanelIsShown, Connected
  <2>2. CASE OpenChat
    <3>1. IsFiniteSet({}) /\ Cardinality({}) = 0
      BY FS_EmptySet
    <3>2. fresh' = {} /\ fresh' \ unnoticed' = {} /\ unread' = 0
      BY <2>2 DEF OpenChat
    <3>3. PageTypeOK' /\ OnePanelIsShown'
      BY <2>2 DEF OpenChat
    <3>4. QED
      BY <2>1, <2>2, <3>1, <3>2, <3>3 DEF OpenChat
  <2>3. ASSUME NEW p \in Panels, OpenSidebar(p) PROVE PageInv'
    BY <2>1, <2>3 DEF OpenSidebar, Closing, marks
  <2>4. ASSUME NEW clicked \in BOOLEAN, ClosePanel(clicked) PROVE PageInv'
    BY <2>1, <2>4 DEF ClosePanel, ClosePanels, Closing, marks
  <2>5. CASE OpenPopover
    BY <2>1, <2>5 DEF OpenPopover, ClosePanels, Closing, marks
  <2>6. CASE ClosePopover
    BY <2>1, <2>6 DEF ClosePopover, marks
  <2>7. CASE Escape
    BY <2>1, <2>7 DEF Escape, ClosePanels, Closing, marks
  <2>8. CASE HideRail
    BY <2>1, <2>8 DEF HideRail, marks
  <2>9. CASE Scroll
    BY <2>1, <2>9 DEF Scroll, views
  <2>10. QED
    BY <1>9, <2>2, <2>3, <2>4, <2>5, <2>6, <2>7, <2>8, <2>9 DEF PageStep
<1>10. QED
  BY <1>1, <1>2, <1>4, <1>5, <1>6, <1>7, <1>8, <1>9 DEF NextPage

\* The properties of ChatPage.
PageCorrect == PageTypeOK /\ OnePanelIsShown /\ RailShowsFeed /\ BadgeIsExact

\* What the browser shows of the chat is true: one panel at a time, the rail what
\* the hub sent, the badge the number of messages that came unnoticed, and the
\* replay the end of the conversation (chat-history.js, app.js).
THEOREM PageIsTrue == PageSpec => [](PageCorrect /\ HistoryIsTail)
<1>1. InitPage /\ TypeOK => PageInv
  <2> SUFFICES ASSUME InitPage, TypeOK
               PROVE  PageInv
    OBVIOUS
  <2> USE PageAssumptions
  <2>1. /\ lines = <<>> /\ applied = {} /\ panel = "none" /\ rail = "hidden" /\ sidebar = FALSE
        /\ popover = FALSE /\ unread = 0 /\ pinned = TRUE /\ hint = FALSE /\ page = FALSE
        /\ fresh = {} /\ unnoticed = {} /\ step[Me] = "out"
    BY DEF InitPage, Init
  <2>2. lines \in Seq(Messages) /\ applied \subseteq Messages /\ fresh \ unnoticed = {}
    BY <2>1
  <2>3. PageTypeOK /\ OnePanelIsShown
    BY <2>1, <2>2 DEF PageTypeOK, OnePanelIsShown
  <2>4. IsFiniteSet({}) /\ Cardinality({}) = 0
    BY FS_EmptySet
  <2>5. QED
    BY <2>1, <2>2, <2>3, <2>4 DEF PageInv, Connected
<1>2. PageInv /\ Once /\ TypeOK' /\ [NextPage]_allVars => PageInv'
  <2> SUFFICES ASSUME PageInv, Once, TypeOK', [NextPage]_allVars
               PROVE  PageInv'
    OBVIOUS
  <2>1. CASE UNCHANGED allVars
    <3>1. UNCHANGED <<lines, applied, page, unread, pinned, hint, fresh, unnoticed, panel, rail,
                      sidebar, popover, step, feed>>
      BY <2>1 DEF allVars, vars, pageVars, marks, views, chatVars
    <3>2. QED
      BY <3>1 DEF PageInv, PageTypeOK, OnePanelIsShown, Connected
  <2>2. QED
    BY <2>1, PageHolds
<1>3. PageInv => PageCorrect
  BY DEF PageInv, PageCorrect, RailShowsFeed, BadgeIsExact
<1>4. QED
  BY <1>1, <1>2, <1>3, PageIsInTheRoom, ChatHistoryTypeOK, MessagesAreNew, ReplayIsTheEnd, PTL
     DEF PageSpec

----------------------------------------------------------------------------
(* The stage: values of the view, and pages.                               *)

\* The containers of a tile.
Places == {"none", "grid", "main", "strip", "parked"}
\* A participant, or none.
Somebody == People \union {None}

\* The type of the view.
Views ==
  [order : Seq(People), known : BOOLEAN, open : BOOLEAN, pins : Seq(People), auto : Somebody,
   dismissed : SUBSET People, hidden : SUBSET (People \ {Self}), self : BOOLEAN,
   receive : BOOLEAN, layer : Layers, owner : Somebody, page : Nat, shown : SUBSET People,
   placed : [People -> Places], mode : {"grid", "pinned"}, focus : Somebody, menu : Somebody,
   orphan : BOOLEAN, sent : SUBSET Somebody]

\* Its fields.
Fields == {"order", "known", "open", "pins", "auto", "dismissed", "hidden", "self", "receive",
           "layer", "owner", "page", "shown", "placed", "mode", "focus", "menu", "orphan", "sent"}

\* w is v but for the fields of F.
Alters(w, v, F) == w \in Views /\ \A f \in Fields \ F : w[f] = v[f]

\* What the page and the tiles that are shown are computed from.
SameRoster(w, v) ==
  /\ w.order = v.order /\ w.known = v.known /\ w.hidden = v.hidden /\ w.self = v.self
  /\ w.pins = v.pins /\ w.owner = v.owner

\* The tiles that updateParticipantPagination shows on the current page.
Shown(v) ==
  {p \in Tiles(v) : IF IsSelf(v, p) THEN v.self
                    ELSE p \in OnPage(v, v.page) \/ (p \in ToSet(v.pins) \ v.hidden)}

\* The listed tiles, the pair, the page and the tiles shown depend on nothing else.
LEMMA RosterDecides ==
  ASSUME NEW v, NEW w, SameRoster(w, v)
  PROVE  /\ Tiles(w) = Tiles(v) /\ Listed(w) = Listed(v) /\ Pair(w) = Pair(v)
         /\ \A p : IsSelf(w, p) <=> IsSelf(v, p)
         /\ w.page = v.page => PageAfter(w) = PageAfter(v) /\ Shown(w) = Shown(v)
<1> USE DEF SameRoster
<1>1. Tiles(w) = Tiles(v) /\ Pair(w) = Pair(v)
  BY DEF Tiles, Pair
<1>2. \A p : IsSelf(w, p) <=> IsSelf(v, p)
  BY DEF IsSelf
<1>3. Listed(w) = Listed(v)
  <2>1. {p \in Tiles(w) \ w.hidden : ~IsSelf(w, p)} = {p \in Tiles(v) \ v.hidden : ~IsSelf(v, p)}
    BY <1>1, <1>2
  <2>2. QED
    BY <2>1 DEF Listed
<1>4. ASSUME w.page = v.page
      PROVE  PageAfter(w) = PageAfter(v) /\ Shown(w) = Shown(v)
  <2>1. PageAfter(w) = PageAfter(v)
    BY <1>3, <1>4 DEF PageAfter
  <2>2. OnPage(w, w.page) = OnPage(v, v.page)
    BY <1>3, <1>4 DEF OnPage
  <2>3. Shown(w) = Shown(v)
    BY <1>1, <1>2, <2>2 DEF Shown
  <2>4. QED
    BY <2>1, <2>3
<1>5. QED
  BY <1>1, <1>2, <1>3, <1>4

\* Division by the size of a page is monotone.
LEMMA DivisionGrows ==
  ASSUME NEW a \in Nat, NEW b \in Nat, a <= b, NEW d \in Nat \ {0}
  PROVE  a \div d \in Nat /\ b \div d \in Nat /\ a \div d <= b \div d
<1>1. PICK q \in Int : q = a \div d
  OBVIOUS
<1>2. PICK r \in Int : r = b \div d
  OBVIOUS
<1>3. d * q <= a /\ a < d * q + d
  BY <1>1, SMTT(30)
<1>4. d * r <= b /\ b < d * r + d
  BY <1>2, SMTT(30)
<1>5. q < r + 1
  BY <1>3, <1>4, SMTT(30)
<1>6. q >= 0
  BY <1>3, SMTT(30)
<1>7. QED
  BY <1>1, <1>2, <1>5, <1>6

\* There is a last page...
LEMMA LastPageIsNat ==
  ASSUME NEW s \in Seq(People)
  PROVE  LastPage(s) \in Nat
<1>1. CASE s = <<>>
  BY <1>1 DEF LastPage
<1>2. CASE s # <<>>
  <2>1. Len(s) - 1 \in Nat
    BY <1>2
  <2>2. QED
    BY <1>2, <2>1, StageAssumptions, DivisionGrows DEF LastPage
<1>3. QED
  BY <1>1, <1>2

\* ... and a tile is on one no later than that.
LEMMA PageOfIsPage ==
  ASSUME NEW s \in Seq(People), NEW p \in ToSet(s)
  PROVE  PageOf(s, p) \in 0 .. LastPage(s)
<1> DEFINE i == IndexIn(s, p)
<1>1. \E k \in 1 .. Len(s) : s[k] = p
  BY DEF ToSet
<1>2. i \in 1 .. Len(s)
  BY <1>1 DEF IndexIn
<1> HIDE DEF i
<1>3. i - 1 \in Nat /\ Len(s) - 1 \in Nat /\ i - 1 <= Len(s) - 1 /\ s # <<>>
  BY <1>2
<1>4. (i - 1) \div PageSize \in Nat /\ (Len(s) - 1) \div PageSize \in Nat
      /\ (i - 1) \div PageSize <= (Len(s) - 1) \div PageSize
  BY <1>3, StageAssumptions, DivisionGrows
<1>5. PageOf(s, p) = (i - 1) \div PageSize /\ LastPage(s) = (Len(s) - 1) \div PageSize
  BY <1>3 DEF PageOf, LastPage, i
<1>6. QED
  BY <1>4, <1>5

\* The listed tiles are the remote ones that are not hidden.
LEMMA ListedTiles ==
  ASSUME NEW v \in Views
  PROVE  /\ Listed(v) \in Seq(People)
         /\ ToSet(Listed(v)) = {p \in Tiles(v) \ v.hidden : ~IsSelf(v, p)}
         /\ Tiles(v) \subseteq People
<1>1. v.order \in Seq(People) /\ Tiles(v) \subseteq People
  BY ElementsAreFinite DEF Views, Tiles
<1> DEFINE S == {p \in Tiles(v) \ v.hidden : ~IsSelf(v, p)}
<1>2. Listed(v) = Keep(v.order, S)
  BY DEF Listed
<1>3. ToSet(v.order) \intersect S = S
  BY DEF Tiles
<1> HIDE DEF S
<1>4. Keep(v.order, S) \in Seq(People) /\ ToSet(Keep(v.order, S)) = ToSet(v.order) \intersect S
  BY <1>1, KeepPart
<1>5. QED
  BY <1>1, <1>2, <1>3, <1>4 DEF S

\* What PageAfter makes of a page.
LEMMA PageAfterSteps ==
  ASSUME NEW v \in Views
  PROVE  \E P \in Seq(People), A \in Nat, B \in Nat :
           LET s == Listed(v)
               many == Len(s) > PageSize
           IN  /\ ToSet(P) \subseteq ToSet(s) /\ P = Keep(v.pins, ToSet(s))
               /\ A = IF many /\ v.owner \in ToSet(s) THEN PageOf(s, v.owner) ELSE v.page
               /\ B = IF many /\ \E i \in 1 .. Len(P) : PageOf(s, P[i]) # A
                        THEN PageOf(s, P[1]) ELSE A
               /\ PageAfter(v) = IF B > LastPage(s) THEN LastPage(s) ELSE B
<1> DEFINE s == Listed(v)
           many == Len(s) > PageSize
           P == Keep(v.pins, ToSet(s))
           A == IF many /\ v.owner \in ToSet(s) THEN PageOf(s, v.owner) ELSE v.page
           B == IF many /\ \E i \in 1 .. Len(P) : PageOf(s, P[i]) # A
                  THEN PageOf(s, P[1]) ELSE A
<1>1. s \in Seq(People) /\ v.pins \in Seq(People) /\ v.page \in Nat
  BY ListedTiles DEF Views
<1>2. PageAfter(v) = IF B > LastPage(s) THEN LastPage(s) ELSE B
  BY DEF PageAfter
<1> HIDE DEF s
<1>3. P \in Seq(People) /\ ToSet(P) \subseteq ToSet(s)
  BY <1>1, KeepPart
<1>4. A \in Nat
  BY <1>1, PageOfIsPage, LastPageIsNat
<1> HIDE DEF P, A
<1>5. B \in Nat
  <2>1. ASSUME NEW i \in 1 .. Len(P)
        PROVE  P[1] \in ToSet(s)
    <3>1. 1 \in DOMAIN P
      BY <1>3, <2>1
    <3>2. QED
      BY <1>3, <3>1 DEF ToSet
  <2>2. QED
    BY <1>1, <1>4, <2>1, PageOfIsPage, LastPageIsNat
<1> HIDE DEF B
<1>6. /\ P = Keep(v.pins, ToSet(s))
      /\ A = IF many /\ v.owner \in ToSet(s) THEN PageOf(s, v.owner) ELSE v.page
      /\ B = IF many /\ \E i \in 1 .. Len(P) : PageOf(s, P[i]) # A
               THEN PageOf(s, P[1]) ELSE A
  BY DEF P, A, B
<1>7. QED
  BY <1>2, <1>3, <1>4, <1>5, <1>6 DEF s

\* The page that updateParticipantPagination turns to exists.
LEMMA PageAfterIsPage ==
  ASSUME NEW v \in Views
  PROVE  PageAfter(v) \in 0 .. LastPage(Listed(v))
<1>1. LastPage(Listed(v)) \in Nat
  BY ListedTiles, LastPageIsNat
<1>2. PICK B \in Nat : PageAfter(v) = IF B > LastPage(Listed(v)) THEN LastPage(Listed(v)) ELSE B
  BY PageAfterSteps
<1>3. QED
  BY <1>1, <1>2

\* Where it arrives it stays.
LEMMA PageAfterStays ==
  ASSUME NEW v \in Views, NEW w \in Views, SameRoster(w, v), w.page = PageAfter(v)
  PROVE  PageAfter(w) = w.page
<1> DEFINE s == Listed(v)
           L == LastPage(s)
           many == Len(s) > PageSize
<1>1. Listed(w) = s /\ w.pins = v.pins /\ w.owner = v.owner
  BY RosterDecides DEF SameRoster
<1>2. s \in Seq(People) /\ L \in Nat /\ \A p \in ToSet(s) : PageOf(s, p) \in 0 .. L
  BY ListedTiles, LastPageIsNat, PageOfIsPage
<1>3. PICK P \in Seq(People), A \in Nat, B \in Nat :
        /\ ToSet(P) \subseteq ToSet(s) /\ P = Keep(v.pins, ToSet(s))
        /\ A = IF many /\ v.owner \in ToSet(s) THEN PageOf(s, v.owner) ELSE v.page
        /\ B = IF many /\ \E i \in 1 .. Len(P) : PageOf(s, P[i]) # A THEN PageOf(s, P[1]) ELSE A
        /\ PageAfter(v) = IF B > L THEN L ELSE B
  BY PageAfterSteps
<1>4. PICK Q \in Seq(People), C \in Nat, D \in Nat :
        /\ Q = Keep(v.pins, ToSet(s))
        /\ C = IF many /\ v.owner \in ToSet(s) THEN PageOf(s, v.owner) ELSE w.page
        /\ D = IF many /\ \E i \in 1 .. Len(Q) : PageOf(s, Q[i]) # C THEN PageOf(s, Q[1]) ELSE C
        /\ PageAfter(w) = IF D > L THEN L ELSE D
  <2>1. \E Q \in Seq(People), C \in Nat, D \in Nat :
          LET t == Listed(w)
              more == Len(t) > PageSize
          IN  /\ ToSet(Q) \subseteq ToSet(t) /\ Q = Keep(w.pins, ToSet(t))
              /\ C = IF more /\ w.owner \in ToSet(t) THEN PageOf(t, w.owner) ELSE w.page
              /\ D = IF more /\ \E i \in 1 .. Len(Q) : PageOf(t, Q[i]) # C
                       THEN PageOf(t, Q[1]) ELSE C
              /\ PageAfter(w) = IF D > LastPage(t) THEN LastPage(t) ELSE D
    BY PageAfterSteps
  <2>2. QED
    BY <1>1, <2>1
<1>5. Q = P
  BY <1>3, <1>4
<1> HIDE DEF s, L, many
<1>6. \A i \in 1 .. Len(P) : PageOf(s, P[i]) \in 0 .. L /\ PageOf(s, P[1]) \in 0 .. L
  <2>1. DOMAIN P = 1 .. Len(P) /\ Len(P) \in Nat
    OBVIOUS
  <2>2. \A i \in DOMAIN P : P[i] \in ToSet(P)
    BY DEF ToSet
  <2>3. \A i \in 1 .. Len(P) : 1 \in DOMAIN P
    BY <2>1
  <2>4. QED
    BY <1>2, <1>3, <2>1, <2>2, <2>3
<1>7. CASE many /\ v.owner \in ToSet(s)
  BY <1>3, <1>4, <1>5, <1>7
<1>8. CASE ~(many /\ v.owner \in ToSet(s))
  <2>1. A = v.page /\ C = PageAfter(v)
    BY <1>3, <1>4, <1>8
  <2>2. CASE many /\ \E i \in 1 .. Len(P) : PageOf(s, P[i]) # A
    <3>1. PageAfter(v) = PageOf(s, P[1]) /\ PageOf(s, P[1]) \in 0 .. L
      BY <1>2, <1>3, <1>6, <2>2
    <3>2. D = PageOf(s, P[1])
      BY <1>4, <1>5, <2>1, <3>1
    <3>3. QED
      BY <1>2, <1>4, <3>1, <3>2
  <2>3. CASE ~(many /\ \E i \in 1 .. Len(P) : PageOf(s, P[i]) # A)
    <3>1. B = A
      BY <1>3, <2>3
    <3>2. CASE A <= L
      BY <1>2, <1>3, <1>4, <1>5, <2>1, <2>3, <3>1, <3>2
    <3>3. CASE A > L
      <4>1. ~many \/ \A i \in 1 .. Len(P) : FALSE
        BY <1>2, <1>6, <2>3, <3>3
      <4>2. C = L /\ D = C
        BY <1>2, <1>3, <1>4, <1>5, <2>1, <3>1, <3>3, <4>1
      <4>3. QED
        BY <1>2, <1>4, <2>1, <4>2
    <3>4. QED
      BY <1>2, <3>2, <3>3
  <2>4. QED
    BY <2>2, <2>3
<1>9. QED
  BY <1>7, <1>8

\* A hidden tile is not shown.
LEMMA ShownTiles ==
  ASSUME NEW v \in Views
  PROVE  Shown(v) \subseteq Tiles(v) /\ Tiles(v) \subseteq People
         /\ Shown(v) \intersect v.hidden = {}
<1>1. Self \notin v.hidden
  BY DEF Views
<1>2. \A p \in OnPage(v, v.page) : p \notin v.hidden
  BY ListedTiles DEF OnPage
<1>3. QED
  BY <1>1, <1>2, ListedTiles DEF Shown, IsSelf

----------------------------------------------------------------------------
(* The three refreshes.                                                    *)

\* What every refresh needs of a view, and keeps.
Kept(v) ==
  /\ v \in Views /\ IsInjective(v.order) /\ IsInjective(v.pins) /\ Len(v.pins) <= 2
  /\ ToSet(v.pins) \intersect v.hidden = {} /\ v.auto # Self
  /\ v.sent = {None} \/ v.sent \subseteq People \ {Self}

\* The own tile is pinned only while it is in view.
OwnPin(v) == Self \in ToSet(v.pins) => v.self

\* The page and what it shows are those of updateParticipantPagination.
Paged(v) ==
  /\ v.page = PageAfter(v) /\ v.shown = Shown(v)
  /\ v.menu # None /\ ~v.orphan => v.menu \in v.shown

\* The last subscription is the one that SubscriptionsMatch asks for.
Asked(v) ==
  LET shown == v.shown \ {Self}
      all == shown \union (v.hidden \intersect Tiles(v))
  IN  IF ~v.receive THEN v.sent = {}
      ELSE shown \subseteq v.sent /\ v.sent \subseteq all /\ (~Simulcast => v.sent = all)

\* Every tile has its container, and a pinned one is in the main area.
Drawn(v) ==
  /\ \A p \in People : v.placed[p] = "none" <=> p \notin Tiles(v)
  /\ \A p \in ToSet(v.pins) \intersect Tiles(v) : v.placed[p] = "main" /\ v.mode = "pinned"

\* An expanded tile is shown.
Focused(v) == v.focus # None => v.focus \in v.shown

\* The automatic pin is the only one, in a pair.
Paired(v) == v.auto # None => v.pins = <<v.auto>> /\ v.auto \in Tiles(v) /\ Len(v.order) = 2

\* A subscription changes nothing else.
LEMMA SubscribeKeeps ==
  ASSUME NEW v \in Views, NEW ids \in SUBSET People
  PROVE  /\ Alters(Subscribe(v, ids), v, {"sent"})
         /\ Subscribe(v, ids).sent = IF v.open /\ v.known THEN IF v.receive THEN ids ELSE {}
                                     ELSE v.sent
<1>1. CASE v.open /\ v.known
  <2> DEFINE x == IF v.receive THEN ids ELSE {}
             w == [v EXCEPT !.sent = x]
  <2>1. x \in SUBSET Somebody
    BY DEF Somebody
  <2> HIDE DEF x
  <2>2. w \in Views /\ w.sent = x
    BY <2>1 DEF Views
  <2>3. \A f \in Fields \ {"sent"} : w[f] = v[f]
    BY DEF Views, Fields
  <2>4. Subscribe(v, ids) = w
    BY <1>1 DEF Subscribe, x
  <2>5. QED
    BY <1>1, <2>2, <2>3, <2>4 DEF Alters, x
<1>2. CASE ~(v.open /\ v.known)
  BY <1>2 DEF Subscribe, Alters
<1>3. QED
  BY <1>1, <1>2

\* updateParticipantPagination.
LEMMA PaginateAlters ==
  ASSUME NEW v \in Views
  PROVE  LET w == Paginate(v) IN
         /\ Alters(w, v, {"page", "shown", "menu", "sent"})
         /\ w.page = PageAfter(v) /\ w.shown = Shown(w)
         /\ w.menu = IF ~v.orphan /\ v.menu # None /\ v.menu \notin w.shown THEN None ELSE v.menu
         /\ w.sent = IF v.open /\ v.known
                       THEN IF v.receive
                              THEN {p \in Tiles(v) : ~IsSelf(v, p) /\ (p \in w.shown \/ p \in v.hidden)}
                              ELSE {}
                       ELSE v.sent
<1> DEFINE turned == PageAfter(v)
           shown == {p \in Tiles(v) : IF IsSelf(v, p) THEN v.self
                                      ELSE p \in OnPage(v, turned) \/ (p \in ToSet(v.pins) \ v.hidden)}
           menu == IF ~v.orphan /\ v.menu # None /\ v.menu \notin shown THEN None ELSE v.menu
           next == [v EXCEPT !.page = turned, !.shown = shown, !.menu = menu]
           ids == {p \in Tiles(v) : ~IsSelf(v, p) /\ (p \in shown \/ p \in v.hidden)}
<1>1. Paginate(v) = Subscribe(next, ids)
  BY DEF Paginate
<1>2. turned \in Nat /\ shown \subseteq People /\ ids \subseteq People /\ menu \in Somebody
  <2>1. LastPage(Listed(v)) \in Nat /\ Tiles(v) \subseteq People
    BY ListedTiles, LastPageIsNat
  <2>2. turned \in Nat
    BY <2>1, PageAfterIsPage
  <2>3. menu \in Somebody
    BY DEF Views, Somebody
  <2>4. QED
    BY <2>1, <2>2, <2>3
<1>3. shown = {p \in Tiles(v) : IF IsSelf(v, p) THEN v.self
                                ELSE p \in OnPage(v, turned) \/ (p \in ToSet(v.pins) \ v.hidden)}
      /\ ids = {p \in Tiles(v) : ~IsSelf(v, p) /\ (p \in shown \/ p \in v.hidden)}
      /\ menu = IF ~v.orphan /\ v.menu # None /\ v.menu \notin shown THEN None ELSE v.menu
  OBVIOUS
<1> HIDE DEF turned, shown, menu, ids
<1>4. next \in Views /\ next.page = turned /\ next.shown = shown /\ next.menu = menu
  BY <1>2 DEF Views
<1>5. \A f \in Fields \ {"page", "shown", "menu"} : next[f] = v[f]
  BY DEF Views, Fields
<1> HIDE DEF next
<1> DEFINE w == Subscribe(next, ids)
<1>6. /\ Alters(w, next, {"sent"})
      /\ w.sent = IF next.open /\ next.known THEN IF next.receive THEN ids ELSE {} ELSE next.sent
  BY <1>2, <1>4, SubscribeKeeps
<1> HIDE DEF w
<1>7. Alters(w, v, {"page", "shown", "menu", "sent"})
  BY <1>5, <1>6 DEF Alters, Fields
<1>8. w.page = turned /\ w.shown = shown /\ w.menu = menu
  BY <1>4, <1>6 DEF Alters, Fields
<1>9. w.sent = IF v.open /\ v.known THEN IF v.receive THEN ids ELSE {} ELSE v.sent
  BY <1>5, <1>6 DEF Fields
<1>10. SameRoster(w, v)
  BY <1>7 DEF Alters, Fields, SameRoster
<1>11. shown = Shown(w)
  <2>1. Tiles(w) = Tiles(v) /\ Listed(w) = Listed(v) /\ \A p : IsSelf(w, p) <=> IsSelf(v, p)
    BY <1>10, RosterDecides
  <2>2. OnPage(w, turned) = OnPage(v, turned) /\ w.self = v.self /\ w.pins = v.pins
        /\ w.hidden = v.hidden
    BY <1>10, <2>1 DEF OnPage, SameRoster
  <2>3. QED
    BY <1>3, <1>8, <2>1, <2>2 DEF Shown
<1>12. QED
  BY <1>1, <1>3, <1>7, <1>8, <1>9, <1>11 DEF w, turned

\* After a pagination the page, the tiles shown and the subscription are right.
LEMMA PaginateKeeps ==
  ASSUME NEW v, Kept(v)
  PROVE  LET w == Paginate(v) IN
         /\ Kept(w) /\ Paged(w) /\ Alters(w, v, {"page", "shown", "menu", "sent"})
         /\ v.open /\ v.known => Asked(w)
         /\ w.menu \in {v.menu, None}
         /\ Paged(v) => w.shown = v.shown
         /\ Drawn(v) => Drawn(w)
         /\ Paired(v) => Paired(w)
<1> DEFINE w == Paginate(v)
<1>1. v \in Views
  BY DEF Kept
<1>2. /\ Alters(w, v, {"page", "shown", "menu", "sent"})
      /\ w.page = PageAfter(v) /\ w.shown = Shown(w)
      /\ w.menu = IF ~v.orphan /\ v.menu # None /\ v.menu \notin w.shown THEN None ELSE v.menu
      /\ w.sent = IF v.open /\ v.known
                    THEN IF v.receive
                           THEN {p \in Tiles(v) : ~IsSelf(v, p) /\ (p \in w.shown \/ p \in v.hidden)}
                           ELSE {}
                    ELSE v.sent
  BY <1>1, PaginateAlters
<1> HIDE DEF w
<1>3. /\ w \in Views /\ w.orphan = v.orphan /\ w.auto = v.auto /\ w.placed = v.placed
      /\ w.mode = v.mode /\ w.receive = v.receive /\ SameRoster(w, v)
  BY <1>2 DEF Alters, Fields, SameRoster
<1>4. Tiles(w) = Tiles(v) /\ w.pins = v.pins /\ w.hidden = v.hidden /\ w.order = v.order
      /\ w.known = v.known
  BY <1>3, RosterDecides DEF SameRoster
<1>5. Paged(w)
  BY <1>1, <1>2, <1>3, PageAfterStays DEF Paged
<1>6. w.sent = {None} \/ w.sent \subseteq People \ {Self}
  <2>1. v.known => {p \in Tiles(v) : ~IsSelf(v, p) /\ (p \in w.shown \/ p \in v.hidden)}
                     \subseteq People \ {Self}
    BY <1>1, ListedTiles DEF IsSelf
  <2>2. QED
    BY <1>2, <2>1 DEF Kept
<1>7. Kept(w)
  BY <1>3, <1>4, <1>6 DEF Kept
<1>8. ASSUME v.open, v.known
      PROVE  Asked(w)
  <2>1. w.shown \subseteq Tiles(w) /\ Tiles(w) \subseteq People /\ Self \notin w.hidden
    BY <1>2, <1>3, ShownTiles DEF Views
  <2>2. ASSUME v.receive
        PROVE  w.sent = (w.shown \ {Self}) \union (w.hidden \intersect Tiles(w))
    <3>1. w.sent = {p \in Tiles(w) : p # Self /\ (p \in w.shown \/ p \in w.hidden)}
      BY <1>2, <1>4, <1>8, <2>2 DEF IsSelf
    <3>2. QED
      BY <2>1, <3>1
  <2>3. ~v.receive => w.sent = {}
    BY <1>2, <1>8
  <2>4. QED
    BY <1>3, <2>2, <2>3 DEF Asked
<1>9. ASSUME Paged(v)
      PROVE  w.shown = v.shown
  BY <1>2, <1>3, <1>9, RosterDecides DEF Paged
<1>10. (Drawn(v) => Drawn(w)) /\ (Paired(v) => Paired(w))
  BY <1>3, <1>4 DEF Drawn, Paired
<1>11. QED
  BY <1>2, <1>5, <1>7, <1>8, <1>9, <1>10 DEF w

\* renderMeetingLayout.
LEMMA RenderKeeps ==
  ASSUME NEW v, Kept(v), OwnPin(v), Paged(v)
  PROVE  LET w == Render(v) IN
         /\ Kept(w) /\ Paged(w) /\ Drawn(w) /\ Focused(w)
         /\ Alters(w, v, {"mode", "placed", "focus"})
         /\ w.focus \in {v.focus, None}
         /\ Asked(v) => Asked(w)
         /\ Paired(v) => Paired(w)
<1> DEFINE visible == {p \in v.shown : p \notin v.hidden /\ (v.self \/ ~IsSelf(v, p))}
           mode == IF v.pins = <<>> THEN "grid" ELSE "pinned"
           place(p) == IF p \notin visible THEN "parked"
                       ELSE IF mode = "grid" THEN "grid"
                       ELSE IF p \in ToSet(v.pins) THEN "main" ELSE "strip"
           placed == [p \in People |-> IF p \in Tiles(v) THEN place(p) ELSE "none"]
           focus == IF v.focus \in v.shown THEN v.focus ELSE None
           w == Render(v)
<1>1. w = [v EXCEPT !.mode = mode, !.placed = placed, !.focus = focus]
  BY DEF Render
<1>2. v \in Views
  BY DEF Kept
<1>3. /\ mode \in {"grid", "pinned"} /\ placed \in [People -> Places] /\ focus \in Somebody
      /\ focus \in {v.focus, None} /\ (focus # None => focus \in v.shown)
  BY <1>2 DEF Views, Places, Somebody
<1>4. \A p \in People : placed[p] = "none" <=> p \notin Tiles(v)
  OBVIOUS
<1>5. \A p \in ToSet(v.pins) \intersect Tiles(v) : placed[p] = "main" /\ mode = "pinned"
  <2> TAKE p \in ToSet(v.pins) \intersect Tiles(v)
  <2>1. v.pins # <<>> /\ p \in People
    <3>1. v.pins \in Seq(People)
      BY <1>2 DEF Views
    <3>2. \E i \in DOMAIN v.pins : TRUE
      BY DEF ToSet
    <3>3. v.pins # <<>>
      BY <3>1, <3>2
    <3>4. QED
      BY <1>2, <3>3, ListedTiles
  <2>2. p \notin v.hidden /\ (p = Self => v.self)
    BY DEF Kept, OwnPin
  <2>3. p \in v.shown
    BY <2>2 DEF Paged, Shown, IsSelf
  <2>4. p \in visible /\ mode = "pinned"
    BY <2>1, <2>2, <2>3 DEF IsSelf
  <2>5. QED
    BY <2>1, <2>4
<1> HIDE DEF mode, placed, focus
<1>6. Alters(w, v, {"mode", "placed", "focus"}) /\ w.mode = mode /\ w.placed = placed
      /\ w.focus = focus
  <2>1. w \in Views /\ w.mode = mode /\ w.placed = placed /\ w.focus = focus
    BY <1>1, <1>2, <1>3 DEF Views
  <2>2. \A f \in Fields \ {"mode", "placed", "focus"} : w[f] = v[f]
    BY <1>1, <1>2 DEF Views, Fields
  <2>3. QED
    BY <2>1, <2>2 DEF Alters
<1> HIDE DEF w
<1>7. /\ w \in Views /\ SameRoster(w, v) /\ w.page = v.page /\ w.shown = v.shown
      /\ w.menu = v.menu
      /\ w.orphan = v.orphan /\ w.sent = v.sent /\ w.auto = v.auto /\ w.receive = v.receive
  BY <1>6 DEF Alters, Fields, SameRoster
<1>8. Tiles(w) = Tiles(v) /\ PageAfter(w) = PageAfter(v) /\ Shown(w) = Shown(v)
      /\ w.pins = v.pins /\ w.hidden = v.hidden /\ w.order = v.order
  BY <1>7, RosterDecides DEF SameRoster
<1>9. Kept(w) /\ Paged(w) /\ (Asked(v) => Asked(w)) /\ (Paired(v) => Paired(w))
  BY <1>7, <1>8 DEF Kept, Paged, Asked, Paired
<1>10. Drawn(w)
  BY <1>4, <1>5, <1>6, <1>8 DEF Drawn
<1>11. Focused(w)
  BY <1>3, <1>6, <1>7 DEF Focused
<1>12. QED
  BY <1>3, <1>6, <1>9, <1>10, <1>11 DEF w

\* What Paginate and Render may alter between them.
Refreshed == {"page", "shown", "menu", "sent", "mode", "placed", "focus"}

\* A pagination with a rendering.
LEMMA RefreshKeeps ==
  ASSUME NEW v, Kept(v), OwnPin(v)
  PROVE  LET w == Render(Paginate(v)) IN
         /\ Kept(w) /\ OwnPin(w) /\ Paged(w) /\ Drawn(w) /\ Focused(w)
         /\ Alters(w, v, Refreshed)
         /\ v.open /\ v.known => Asked(w)
         /\ w.menu \in {v.menu, None} /\ w.focus \in {v.focus, None}
         /\ Paired(v) => Paired(w)
<1> DEFINE u == Paginate(v)
           w == Render(u)
<1>1. /\ Kept(u) /\ Paged(u) /\ Alters(u, v, {"page", "shown", "menu", "sent"})
      /\ v.open /\ v.known => Asked(u)
      /\ u.menu \in {v.menu, None}
      /\ Paired(v) => Paired(u)
  BY PaginateKeeps
<1> HIDE DEF u
<1>2. OwnPin(u) /\ u.focus = v.focus
  BY <1>1 DEF OwnPin, Alters, Fields
<1>3. /\ Kept(w) /\ Paged(w) /\ Drawn(w) /\ Focused(w)
      /\ Alters(w, u, {"mode", "placed", "focus"})
      /\ w.focus \in {u.focus, None}
      /\ Asked(u) => Asked(w)
      /\ Paired(u) => Paired(w)
  BY <1>1, <1>2, RenderKeeps
<1> HIDE DEF w
<1>4. OwnPin(w) /\ w.menu = u.menu
  BY <1>2, <1>3 DEF OwnPin, Alters, Fields
<1>5. Alters(w, v, Refreshed)
  BY <1>1, <1>3 DEF Alters, Refreshed
<1>6. QED
  BY <1>1, <1>2, <1>3, <1>4, <1>5 DEF w, u

\* unpinParticipant.
LEMMA Remove1Drops ==
  ASSUME NEW s \in Seq(People), NEW p
  PROVE  /\ Remove1(s, p) \in Seq(People) /\ Len(Remove1(s, p)) <= Len(s)
         /\ ToSet(Remove1(s, p)) = ToSet(s) \ {p}
         /\ IsInjective(s) => IsInjective(Remove1(s, p))
         /\ p \notin ToSet(s) => Remove1(s, p) = s
<1> DEFINE S == ToSet(s) \ {p}
<1>1. ToSet(s) \intersect S = S /\ (p \notin ToSet(s) => ToSet(s) \subseteq S)
  OBVIOUS
<1>2. Remove1(s, p) = Keep(s, S)
  BY DEF Remove1
<1> HIDE DEF S
<1>3. /\ Keep(s, S) \in Seq(People) /\ Len(Keep(s, S)) <= Len(s)
      /\ ToSet(Keep(s, S)) = ToSet(s) \intersect S
      /\ IsInjective(s) => IsInjective(Keep(s, S))
      /\ ToSet(s) \subseteq S => Keep(s, S) = s
  BY KeepPart
<1>4. QED
  BY <1>1, <1>2, <1>3 DEF S

\* A single pin.
LEMMA OnePin ==
  ASSUME NEW p \in People
  PROVE  <<p>> \in Seq(People) /\ Len(<<p>>) = 1 /\ ToSet(<<p>>) = {p} /\ IsInjective(<<p>>)
<1> DEFINE s == <<p>>
<1>1. s \in Seq(People) /\ Len(s) = 1 /\ DOMAIN s = {1} /\ s[1] = p
  OBVIOUS
<1> HIDE DEF s
<1>2. ToSet(s) = {p} /\ IsInjective(s)
  BY <1>1 DEF ToSet, IsInjective
<1>3. QED
  BY <1>1, <1>2 DEF s

\* Other pins, and what follows for the automatic one.
LEMMA PinsKept ==
  ASSUME NEW v, NEW w, Kept(v), Alters(w, v, {"dismissed", "pins", "auto"}),
         IsInjective(w.pins), Len(w.pins) <= 2, ToSet(w.pins) \intersect v.hidden = {}, w.auto # Self
  PROVE  Kept(w) /\ Tiles(w) = Tiles(v)
BY DEF Kept, Alters, Fields, Tiles

\* reconcileAutomaticParticipantPin.
LEMMA ReconcileKeeps ==
  ASSUME NEW v, Kept(v), OwnPin(v), Pair(v) # {} /\ v.auto # None => v.pins = <<v.auto>>
  PROVE  LET w == Reconcile(v) IN
         /\ Kept(w) /\ OwnPin(w) /\ Paired(w)
         /\ Alters(w, v, {"dismissed", "pins", "auto"})
         /\ ToSet(w.pins) \subseteq ToSet(v.pins) \union Tiles(v)
<1> DEFINE pair == Pair(v)
           stays == pair # {} /\ v.auto \in Tiles(v) \ v.hidden
           pins == IF stays THEN v.pins ELSE Remove1(v.pins, v.auto)
           dismissed == IF v.dismissed = pair THEN pair ELSE {}
           other == pair \ ({Self} \union v.hidden)
           auto == IF stays THEN v.auto ELSE None
           next == [v EXCEPT !.dismissed = dismissed, !.pins = pins, !.auto = auto]
           new == dismissed = {} /\ ~stays /\ pins = <<>> /\ other # {}
           p == CHOOSE p \in other : TRUE
           w == Reconcile(v)
<1>1. w = IF new THEN [next EXCEPT !.pins = <<p>>, !.auto = p] ELSE next
  BY DEF Reconcile
<1>2. v \in Views /\ v.pins \in Seq(People) /\ v.auto \in Somebody /\ v.order \in Seq(People)
      /\ Tiles(v) \subseteq People
  BY ListedTiles DEF Kept, Views
<1>3. pair \subseteq Tiles(v) /\ (pair # {} => pair = Tiles(v) /\ Len(v.order) = 2)
  BY DEF Pair
<1>4. /\ pins \in Seq(People) /\ IsInjective(pins) /\ Len(pins) <= 2
      /\ ToSet(pins) \subseteq ToSet(v.pins)
      /\ dismissed \subseteq People /\ auto \in Somebody /\ auto # Self
  <2>1. /\ Remove1(v.pins, v.auto) \in Seq(People) /\ Len(Remove1(v.pins, v.auto)) <= Len(v.pins)
        /\ ToSet(Remove1(v.pins, v.auto)) \subseteq ToSet(v.pins)
        /\ IsInjective(Remove1(v.pins, v.auto))
    BY <1>2, Remove1Drops DEF Kept
  <2>2. Len(Remove1(v.pins, v.auto)) <= 2
    BY <1>2, <2>1 DEF Kept
  <2>3. auto \in Somebody /\ auto # Self
    BY <1>2, StageAssumptions DEF Kept, Somebody
  <2>4. QED
    BY <1>2, <1>3, <2>1, <2>2, <2>3 DEF Kept
<1>5. stays => pins = v.pins /\ auto = v.auto /\ auto \in Tiles(v) /\ Len(v.order) = 2
              /\ (auto # None => pins = <<auto>>)
  BY <1>3
<1>6. ~stays => auto = None
  OBVIOUS
<1>7. new => p \in other
  OBVIOUS
<1>8. new => /\ p \in People /\ p \in Tiles(v) /\ p # Self /\ p \notin v.hidden
             /\ Len(v.order) = 2
  BY <1>2, <1>3, <1>7
<1> HIDE DEF pins, dismissed, auto, p, stays, new, pair, other
<1>9. next \in Views /\ next.pins = pins /\ next.auto = auto
      /\ \A f \in Fields \ {"dismissed", "pins", "auto"} : next[f] = v[f]
  <2>1. next \in Views /\ next.pins = pins /\ next.auto = auto
    BY <1>2, <1>4 DEF Views
  <2>2. \A f \in Fields \ {"dismissed", "pins", "auto"} : next[f] = v[f]
    BY <1>2 DEF Views, Fields
  <2>3. QED
    BY <2>1, <2>2
<1> HIDE DEF next, w
<1>10. CASE new
  <2>1. <<p>> \in Seq(People) /\ Len(<<p>>) = 1 /\ ToSet(<<p>>) = {p} /\ IsInjective(<<p>>)
    BY <1>8, <1>10, OnePin
  <2> DEFINE q == <<p>>
  <2>2. w = [next EXCEPT !.pins = q, !.auto = p]
    BY <1>1, <1>10
  <2>3. q \in Seq(People) /\ p \in Somebody
    BY <1>8, <1>10, <2>1 DEF Somebody
  <2> HIDE DEF q
  <2>4. w \in Views /\ w.pins = q /\ w.auto = p
    BY <1>9, <2>2, <2>3 DEF Views
  <2>5. \A f \in Fields \ {"dismissed", "pins", "auto"} : w[f] = next[f]
    BY <1>9, <2>2 DEF Views, Fields
  <2>6. Alters(w, v, {"dismissed", "pins", "auto"})
    BY <1>9, <2>4, <2>5 DEF Alters
  <2>7. IsInjective(w.pins) /\ Len(w.pins) = 1 /\ ToSet(w.pins) = {p} /\ w.auto = p
        /\ w.pins = <<p>>
    BY <2>1, <2>4 DEF q
  <2>8. Kept(w) /\ Tiles(w) = Tiles(v)
    BY <1>8, <1>10, <2>6, <2>7, PinsKept, SMTT(30)
  <2>9. w.order = v.order
    BY <2>6 DEF Alters, Fields
  <2>10. OwnPin(w) /\ Paired(w)
    BY <1>8, <1>10, <2>7, <2>8, <2>9 DEF OwnPin, Paired
  <2>11. QED
    BY <1>8, <1>10, <2>6, <2>7, <2>8, <2>10 DEF w
<1>11. CASE ~new
  <2>1. w = next
    BY <1>1, <1>11
  <2>2. Alters(w, v, {"dismissed", "pins", "auto"}) /\ w.pins = pins /\ w.auto = auto
    BY <1>9, <2>1 DEF Alters
  <2>3. Kept(w) /\ Tiles(w) = Tiles(v)
    <3>1. ToSet(w.pins) \intersect v.hidden = {}
      BY <1>4, <2>2 DEF Kept
    <3>2. QED
      BY <1>4, <2>2, <3>1, PinsKept
  <2>4. w.order = v.order /\ w.self = v.self
    BY <2>2 DEF Alters, Fields
  <2>5. OwnPin(w) /\ Paired(w)
    BY <1>4, <1>5, <1>6, <2>2, <2>3, <2>4 DEF OwnPin, Paired
  <2>6. QED
    BY <1>4, <2>2, <2>3, <2>5 DEF w
<1>12. QED
  BY <1>10, <1>11

\* What updateParticipantCount may alter.
Counted == Refreshed \union {"dismissed", "pins", "auto"}

\* updateParticipantCount.
LEMMA CountKeeps ==
  ASSUME NEW v, Kept(v), OwnPin(v), Pair(v) # {} /\ v.auto # None => v.pins = <<v.auto>>
  PROVE  LET w == Count(v) IN
         /\ Kept(w) /\ OwnPin(w) /\ Paged(w) /\ Paired(w)
         /\ Alters(w, v, Counted)
         /\ ToSet(w.pins) \subseteq ToSet(v.pins) \union Tiles(v)
         /\ v.open /\ v.known => Asked(w)
         /\ Drawn(v) => Drawn(w)
         /\ Paged(v) /\ Focused(v) => Focused(w)
         /\ w.menu \in {v.menu, None} /\ w.focus \in {v.focus, None}
<1> DEFINE u == Reconcile(v)
           w == Count(v)
<1>1. /\ Kept(u) /\ OwnPin(u) /\ Paired(u)
      /\ Alters(u, v, {"dismissed", "pins", "auto"})
      /\ ToSet(u.pins) \subseteq ToSet(v.pins) \union Tiles(v)
  BY ReconcileKeeps
<1>2. w = IF u.pins = v.pins THEN Paginate(u) ELSE Render(Paginate(u))
  BY DEF Count
<1> HIDE DEF u
<1>3. /\ u.open = v.open /\ u.known = v.known /\ u.menu = v.menu /\ u.focus = v.focus
      /\ u.page = v.page /\ u.shown = v.shown /\ u.orphan = v.orphan /\ u.order = v.order
      /\ u.placed = v.placed /\ u.mode = v.mode /\ u.hidden = v.hidden /\ u.self = v.self
      /\ u.owner = v.owner
  BY <1>1 DEF Alters, Fields
<1>4. CASE u.pins = v.pins
  <2>1. w = Paginate(u)
    BY <1>2, <1>4
  <2> HIDE DEF w
  <2>2. SameRoster(u, v) /\ Tiles(u) = Tiles(v)
    BY <1>3, <1>4, RosterDecides DEF SameRoster
  <2>3. Paged(v) => Paged(u)
    BY <1>3, <2>2, RosterDecides DEF Paged
  <2>4. Drawn(v) => Drawn(u)
    BY <1>3, <1>4, <2>2 DEF Drawn
  <2>5. /\ Kept(w) /\ Paged(w) /\ Alters(w, u, {"page", "shown", "menu", "sent"})
        /\ u.open /\ u.known => Asked(w)
        /\ w.menu \in {u.menu, None}
        /\ Paged(u) => w.shown = u.shown
        /\ Drawn(u) => Drawn(w)
        /\ Paired(u) => Paired(w)
    BY <1>1, <2>1, PaginateKeeps
  <2>6. w.focus = u.focus /\ w.pins = u.pins /\ OwnPin(w)
    BY <1>1, <2>5 DEF Alters, Fields, OwnPin
  <2>7. Paged(v) /\ Focused(v) => Focused(w)
    BY <1>3, <2>3, <2>5, <2>6 DEF Focused
  <2>8. Alters(w, v, Counted)
    BY <1>1, <2>5 DEF Alters, Counted, Refreshed
  <2>9. QED
    BY <1>1, <1>3, <2>4, <2>5, <2>6, <2>7, <2>8 DEF w
<1>5. CASE u.pins # v.pins
  <2>1. w = Render(Paginate(u))
    BY <1>2, <1>5
  <2> HIDE DEF w
  <2>2. /\ Kept(w) /\ OwnPin(w) /\ Paged(w) /\ Drawn(w) /\ Focused(w)
        /\ Alters(w, u, Refreshed)
        /\ u.open /\ u.known => Asked(w)
        /\ w.menu \in {u.menu, None} /\ w.focus \in {u.focus, None}
        /\ Paired(u) => Paired(w)
    BY <1>1, <2>1, RefreshKeeps
  <2>3. w.pins = u.pins
    BY <2>2 DEF Alters, Fields, Refreshed
  <2>4. Alters(w, v, Counted)
    BY <1>1, <2>2 DEF Alters, Counted
  <2>5. QED
    BY <1>1, <1>3, <2>2, <2>3, <2>4 DEF w
<1>6. QED
  BY <1>4, <1>5

----------------------------------------------------------------------------
(* The functions that the handlers share.                                  *)

\* Two pins at most.
LEMMA LastTwoPins ==
  ASSUME NEW t \in Seq(People), IsInjective(t), Len(t) >= 2
  PROVE  LET r == LastTwo(t) IN
         r \in Seq(People) /\ IsInjective(r) /\ Len(r) <= 2 /\ ToSet(r) \subseteq ToSet(t)
<1> DEFINE n == Len(t)
           r == SubSeq(t, n - 1, n)
<1>1. n \in Nat /\ n - 1 >= 1 /\ n - 1 \in DOMAIN t /\ n \in DOMAIN t
  OBVIOUS
<1>2. r \in Seq(People) /\ Len(r) = n - (n - 1) + 1
      /\ \A i \in 1 .. n - (n - 1) + 1 : r[i] = t[n - 1 + i - 1]
  BY <1>1
<1>3. LastTwo(t) = r
  BY DEF LastTwo
<1> HIDE DEF n, r
<1>4. n - (n - 1) + 1 <= 2 /\ \A i \in 1 .. n - (n - 1) + 1 : i = 1 \/ i = 2
  BY <1>1
<1>5. Len(r) <= 2 /\ DOMAIN r = 1 .. n - (n - 1) + 1
  BY <1>2, <1>4
<1>6. \A i \in DOMAIN r : (i = 1 /\ r[i] = t[n - 1]) \/ (i = 2 /\ r[i] = t[n])
  BY <1>1, <1>2, <1>4, <1>5
<1>7. t[n - 1] # t[n]
  <2>1. n - 1 # n
    BY <1>1
  <2>2. QED
    BY <1>1, <2>1 DEF IsInjective
<1>8. IsInjective(r)
  BY <1>6, <1>7 DEF IsInjective
<1>9. ToSet(r) \subseteq ToSet(t)
  BY <1>1, <1>6 DEF ToSet
<1>10. QED
  BY <1>2, <1>3, <1>5, <1>8, <1>9

\* setPinnedParticipant.
LEMMA SetPinnedKeeps ==
  ASSUME NEW v, Kept(v), Paired(v), v.known, NEW p \in People, p \notin v.hidden,
         OwnPin(v) \/ p = Self, NEW user \in BOOLEAN, user \/ p \in ToSet(v.pins)
  PROVE  LET w == SetPinned(v, p, user) IN
         /\ Kept(w) /\ OwnPin(w) /\ Paged(w) /\ Drawn(w) /\ Focused(w)
         /\ Alters(w, v, Counted)
         /\ w.auto = None
         /\ v.open => Asked(w)
         /\ ToSet(w.pins) \subseteq ToSet(v.pins) \union Tiles(v)
         /\ p \in ToSet(v.pins) => p \notin ToSet(w.pins)
         /\ w.menu \in {v.menu, None} /\ w.focus \in {v.focus, None}
<1> DEFINE dismissed == IF user THEN Pair(v) ELSE v.dismissed
           auto == IF user \/ v.auto = p THEN None ELSE v.auto
           next == [v EXCEPT !.dismissed = dismissed, !.auto = auto]
           valid == p \in Tiles(v) /\ (~IsSelf(v, p) \/ v.self)
           pins == IF ~valid THEN <<>>
                   ELSE IF p \in ToSet(v.pins) THEN Remove1(v.pins, p)
                   ELSE IF Len(v.pins) < 2 THEN Append(v.pins, p) ELSE LastTwo(Append(v.pins, p))
           u == [next EXCEPT !.pins = pins]
           w == SetPinned(v, p, user)
<1>1. w = Render(Paginate(u))
  BY DEF SetPinned
<1>2. /\ v \in Views /\ v.pins \in Seq(People) /\ Len(v.pins) <= 2 /\ IsInjective(v.pins)
      /\ v.auto \in Somebody /\ v.dismissed \subseteq People /\ Tiles(v) \subseteq People
      /\ ToSet(v.pins) \intersect v.hidden = {}
  BY ListedTiles DEF Kept, Views
<1>3. dismissed \subseteq People
  BY <1>2 DEF Pair
<1>4. auto = None
  <2>1. CASE user
    BY <2>1
  <2>2. CASE ~user /\ v.auto # None
    <3>1. v.pins = <<v.auto>> /\ p \in ToSet(v.pins) /\ v.auto \in People
      BY <1>2, <2>2 DEF Paired, Somebody
    <3>2. ToSet(<<v.auto>>) = {v.auto}
      BY <3>1, OnePin
    <3>3. QED
      BY <3>1, <3>2
  <2>3. QED
    BY <2>1, <2>2
<1>5. /\ pins \in Seq(People) /\ IsInjective(pins) /\ Len(pins) <= 2
      /\ ToSet(pins) \subseteq ToSet(v.pins) \union {p}
      /\ (p \notin Tiles(v) => ToSet(pins) = {})
      /\ (p \in ToSet(v.pins) => p \notin ToSet(pins))
      /\ (Self \in ToSet(pins) => v.self)
  <2>1. CASE ~valid
    <3>1. pins = <<>>
      BY <2>1
    <3> HIDE DEF pins
    <3>2. pins \in Seq(People) /\ Len(pins) = 0 /\ DOMAIN pins = {}
      BY <3>1
    <3>3. ToSet(pins) = {} /\ IsInjective(pins)
      BY <3>2 DEF ToSet, IsInjective
    <3>4. QED
      BY <3>2, <3>3
  <2>2. CASE valid /\ p \in ToSet(v.pins)
    <3>1. pins = Remove1(v.pins, p)
      BY <2>2
    <3> HIDE DEF pins
    <3>2. /\ pins \in Seq(People) /\ Len(pins) <= Len(v.pins) /\ ToSet(pins) = ToSet(v.pins) \ {p}
          /\ IsInjective(pins)
      BY <1>2, <3>1, Remove1Drops
    <3>3. Self \in ToSet(pins) => v.self
      BY <3>2 DEF OwnPin
    <3>4. QED
      BY <1>2, <2>2, <3>2, <3>3
  <2>3. CASE valid /\ p \notin ToSet(v.pins)
    <3>1. pins = IF Len(v.pins) < 2 THEN Append(v.pins, p) ELSE LastTwo(Append(v.pins, p))
      BY <2>3
    <3>2. valid
      BY <2>3
    <3> HIDE DEF pins, valid
    <3>3. /\ pins \in Seq(People) /\ IsInjective(pins) /\ Len(pins) <= 2
          /\ ToSet(pins) \subseteq ToSet(v.pins) \union {p}
      <4>1. CASE Len(v.pins) < 2
        BY <1>2, <2>3, <3>1, <4>1, AppendAdds
      <4>2. CASE ~(Len(v.pins) < 2)
        <5> DEFINE t == Append(v.pins, p)
        <5>1. /\ t \in Seq(People) /\ Len(t) = Len(v.pins) + 1 /\ IsInjective(t)
              /\ ToSet(t) = ToSet(v.pins) \union {p}
          BY <1>2, <2>3, AppendAdds
        <5>2. pins = LastTwo(t)
          BY <3>1, <4>2
        <5> HIDE DEF t
        <5>3. Len(t) >= 2
          <6>1. \A n \in Nat : ~(n < 2) => n + 1 >= 2
            OBVIOUS
          <6>2. Len(v.pins) \in Nat
            BY <1>2
          <6>3. QED
            BY <4>2, <5>1, <6>1, <6>2
        <5> DEFINE r == LastTwo(t)
        <5>4. r \in Seq(People) /\ IsInjective(r) /\ Len(r) <= 2 /\ ToSet(r) \subseteq ToSet(t)
          BY <5>1, <5>3, LastTwoPins
        <5>5. pins = r
          BY <5>2
        <5> HIDE DEF r
        <5>6. QED
          BY <5>1, <5>4, <5>5
      <4>3. QED
        BY <4>1, <4>2
    <3>4. Self \in ToSet(pins) => v.self
      BY <3>2, <3>3 DEF OwnPin, IsSelf, valid
    <3>5. QED
      BY <2>3, <3>2, <3>3, <3>4 DEF valid
  <2>4. QED
    BY <2>1, <2>2, <2>3
<1> HIDE DEF dismissed, auto, pins
<1>6. next \in Views /\ next.auto = None /\ next.dismissed = dismissed
      /\ \A f \in Fields \ {"dismissed", "auto"} : next[f] = v[f]
  <2>1. next \in Views /\ next.auto = None
    BY <1>2, <1>3, <1>4 DEF Views, Somebody
  <2>2. \A f \in Fields \ {"dismissed", "auto"} : next[f] = v[f]
    BY <1>2 DEF Views, Fields
  <2>3. next.dismissed = dismissed
    BY <1>2 DEF Views
  <2>4. QED
    BY <2>1, <2>2, <2>3
<1> HIDE DEF next
<1>7. u \in Views /\ u.pins = pins /\ u.auto = None
  BY <1>5, <1>6 DEF Views
<1>8. \A f \in Fields \ {"pins"} : u[f] = next[f]
  BY <1>6 DEF Views, Fields
<1> HIDE DEF u, w
<1>9. Alters(u, v, {"dismissed", "pins", "auto"})
  BY <1>6, <1>7, <1>8 DEF Alters
<1>10. Kept(u) /\ Tiles(u) = Tiles(v)
  <2>1. ToSet(u.pins) \intersect v.hidden = {}
    BY <1>2, <1>5, <1>7
  <2>2. u.auto # Self
    BY <1>7, StageAssumptions
  <2>3. QED
    BY <1>5, <1>7, <1>9, <2>1, <2>2, PinsKept
<1>11. u.self = v.self /\ u.open = v.open /\ u.known = v.known /\ u.menu = v.menu
       /\ u.focus = v.focus
  BY <1>9 DEF Alters, Fields
<1>12. OwnPin(u)
  BY <1>5, <1>7, <1>11 DEF OwnPin
<1>13. /\ Kept(w) /\ OwnPin(w) /\ Paged(w) /\ Drawn(w) /\ Focused(w)
       /\ Alters(w, u, Refreshed)
       /\ u.open /\ u.known => Asked(w)
       /\ w.menu \in {u.menu, None} /\ w.focus \in {u.focus, None}
  BY <1>1, <1>10, <1>12, RefreshKeeps
<1>14. w.pins = pins /\ w.auto = None
  BY <1>7, <1>13 DEF Alters, Fields, Refreshed
<1>15. Alters(w, v, Counted)
  BY <1>9, <1>13 DEF Alters, Counted
<1>16. ToSet(w.pins) \subseteq ToSet(v.pins) \union Tiles(v)
  BY <1>5, <1>14
<1>17. QED
  BY <1>5, <1>11, <1>13, <1>14, <1>15, <1>16 DEF w

\* What a field that is not read does not disturb.
LEMMA Untouched ==
  ASSUME NEW v, NEW w, NEW F, Alters(w, v, F)
  PROVE  /\ "order" \notin F => Tiles(w) = Tiles(v)
         /\ {"order", "pins", "auto", "hidden", "sent"} \intersect F = {} /\ Kept(v) => Kept(w)
         /\ {"pins", "self"} \intersect F = {} /\ OwnPin(v) => OwnPin(w)
         /\ {"order", "known", "hidden", "self", "pins", "owner", "page", "shown", "menu", "orphan"}
              \intersect F = {} /\ Paged(v) => Paged(w)
         /\ {"receive", "shown", "hidden", "order", "sent"} \intersect F = {}
            /\ Asked(v) => Asked(w)
         /\ {"placed", "order", "pins", "mode"} \intersect F = {} /\ Drawn(v) => Drawn(w)
         /\ {"focus", "shown"} \intersect F = {} /\ Focused(v) => Focused(w)
         /\ {"auto", "pins", "order"} \intersect F = {} /\ Paired(v) => Paired(w)
<1>1. "order" \notin F => w.order = v.order /\ Tiles(w) = Tiles(v)
  BY DEF Alters, Fields, Tiles
<1>2. ASSUME {"order", "pins", "auto", "hidden", "sent"} \intersect F = {}, Kept(v)
      PROVE  Kept(w)
  BY <1>2 DEF Alters, Fields, Kept
<1>3. ASSUME {"pins", "self"} \intersect F = {}, OwnPin(v)
      PROVE  OwnPin(w)
  BY <1>3 DEF Alters, Fields, OwnPin
<1>4. ASSUME {"order", "known", "hidden", "self", "pins", "owner", "page", "shown", "menu", "orphan"}
               \intersect F = {}, Paged(v)
      PROVE  Paged(w)
  <2>1. SameRoster(w, v) /\ w.page = v.page /\ w.shown = v.shown /\ w.menu = v.menu
        /\ w.orphan = v.orphan
    BY <1>4 DEF Alters, Fields, SameRoster
  <2>2. QED
    BY <1>4, <2>1, RosterDecides DEF Paged
<1>5. ASSUME {"receive", "shown", "hidden", "order", "sent"} \intersect F = {}, Asked(v)
      PROVE  Asked(w)
  BY <1>1, <1>5 DEF Alters, Fields, Asked
<1>6. ASSUME {"placed", "order", "pins", "mode"} \intersect F = {}, Drawn(v)
      PROVE  Drawn(w)
  BY <1>1, <1>6 DEF Alters, Fields, Drawn
<1>7. ASSUME {"focus", "shown"} \intersect F = {}, Focused(v)
      PROVE  Focused(w)
  BY <1>7 DEF Alters, Fields, Focused
<1>8. ASSUME {"auto", "pins", "order"} \intersect F = {}, Paired(v)
      PROVE  Paired(w)
  BY <1>1, <1>8 DEF Alters, Fields, Paired
<1>9. QED
  BY <1>1, <1>2, <1>3, <1>4, <1>5, <1>6, <1>7, <1>8

\* Closing the menu touches the menu only.
LEMMA CloseMenuAlters ==
  ASSUME NEW v \in Views
  PROVE  Alters(CloseMenu(v), v, {"menu", "orphan"}) /\ CloseMenu(v).menu = None
<1> DEFINE w == CloseMenu(v)
<1>1. w = [v EXCEPT !.menu = None, !.orphan = FALSE]
  BY DEF CloseMenu
<1> HIDE DEF w
<1>2. w \in Views /\ w.menu = None
  BY <1>1 DEF Views, Somebody
<1>3. \A f \in Fields \ {"menu", "orphan"} : w[f] = v[f]
  BY <1>1 DEF Views, Fields
<1>4. QED
  BY <1>2, <1>3 DEF Alters, w

\* It keeps what a view has to keep.
LEMMA CloseMenuKeeps ==
  ASSUME NEW v, Kept(v)
  PROVE  LET w == CloseMenu(v) IN
         /\ Kept(w) /\ Alters(w, v, {"menu", "orphan"}) /\ w.menu = None /\ Tiles(w) = Tiles(v)
         /\ OwnPin(v) => OwnPin(w)
         /\ Paged(v) => Paged(w)
         /\ Asked(v) => Asked(w)
         /\ Drawn(v) => Drawn(w)
         /\ Focused(v) => Focused(w)
         /\ Paired(v) => Paired(w)
<1> DEFINE w == CloseMenu(v)
           F == {"menu", "orphan"}
<1>1. Alters(w, v, F) /\ w.menu = None
  BY CloseMenuAlters DEF Kept
<1>2. F \intersect {"order", "pins", "auto", "hidden", "sent", "self", "receive", "shown", "placed",
                    "mode", "focus"} = {}
  OBVIOUS
<1> HIDE DEF w
<1>3. /\ Kept(w) /\ Tiles(w) = Tiles(v)
      /\ OwnPin(v) => OwnPin(w)
      /\ Asked(v) => Asked(w)
      /\ Drawn(v) => Drawn(w)
      /\ Focused(v) => Focused(w)
      /\ Paired(v) => Paired(w)
  <2> HIDE DEF F
  <2>1. QED
    BY <1>1, <1>2, Untouched
<1>4. ASSUME Paged(v) PROVE Paged(w)
  <2>1. SameRoster(w, v) /\ w.page = v.page /\ w.shown = v.shown
    BY <1>1 DEF Alters, Fields, SameRoster
  <2>2. QED
    BY <1>1, <1>4, <2>1, RosterDecides DEF Paged
<1>5. QED
  BY <1>1, <1>3, <1>4 DEF w

\* setParticipantTileHidden(p, true).
LEMMA HideTileKeeps ==
  ASSUME NEW v, Kept(v), OwnPin(v), Paged(v), Drawn(v), Focused(v), Paired(v),
         NEW p \in People \ {Self}
  PROVE  LET w == HideTile(v, p) IN
         /\ Kept(w) /\ OwnPin(w) /\ Paged(w) /\ Drawn(w) /\ Focused(w) /\ Paired(w)
         /\ Alters(w, v, Counted \union {"hidden"})
         /\ v.open /\ v.known /\ Asked(v) => Asked(w)
         /\ ToSet(w.pins) \subseteq ToSet(v.pins)
<1> DEFINE w == HideTile(v, p)
           drop == p \in ToSet(v.pins) /\ v.auto = p
           dismissed == IF drop THEN Pair(v) ELSE v.dismissed
           auto == IF drop THEN None ELSE v.auto
           pins == Remove1(v.pins, p)
           hidden == v.hidden \union {p}
           next == [v EXCEPT !.hidden = hidden]
           u == [next EXCEPT !.dismissed = dismissed, !.auto = auto, !.pins = pins]
<1>1. CASE p \notin Tiles(v) \/ p \in v.hidden
  <2>1. w = v
    BY <1>1 DEF HideTile
  <2> HIDE DEF w
  <2>2. Alters(w, v, Counted \union {"hidden"})
    BY <2>1 DEF Alters, Kept
  <2>3. QED
    BY <2>1, <2>2 DEF w
<1>2. CASE ~(p \notin Tiles(v) \/ p \in v.hidden)
  <2>1. /\ v \in Views /\ v.pins \in Seq(People) /\ IsInjective(v.pins) /\ Len(v.pins) <= 2
        /\ v.auto \in Somebody /\ v.dismissed \subseteq People /\ Tiles(v) \subseteq People
        /\ v.hidden \subseteq People \ {Self} /\ ToSet(v.pins) \intersect v.hidden = {}
    BY ListedTiles DEF Kept, Views
  <2>2. next \in Views /\ \A f \in Fields \ {"hidden"} : next[f] = v[f]
    <3>1. hidden \subseteq People \ {Self}
      BY <2>1
    <3> HIDE DEF hidden
    <3>2. next \in Views
      BY <2>1, <3>1 DEF Views
    <3>3. QED
      BY <2>1, <3>2 DEF Views, Fields
  <2>3. next.hidden = hidden /\ next.dismissed = v.dismissed /\ next.auto = v.auto
        /\ next.pins = v.pins
    BY <2>1 DEF Views
  <2>4. w = Render(Paginate(u))
    <3>1. [next EXCEPT !.dismissed = IF drop THEN Pair(v) ELSE @,
                       !.auto = IF drop THEN None ELSE @,
                       !.pins = Remove1(@, p)] = u
      <4> HIDE DEF next
      <4>1. QED
        BY <2>3
    <3>2. w = Render(Paginate([next EXCEPT !.dismissed = IF drop THEN Pair(v) ELSE @,
                                           !.auto = IF drop THEN None ELSE @,
                                           !.pins = Remove1(@, p)]))
      BY <1>2 DEF HideTile
    <3>3. QED
      BY <3>1, <3>2
  <2>5. dismissed \subseteq People /\ auto \in Somebody /\ auto # Self
    BY <2>1, StageAssumptions DEF Pair, Somebody, Kept
  <2>6. /\ pins \in Seq(People) /\ IsInjective(pins) /\ Len(pins) <= 2
        /\ ToSet(pins) = ToSet(v.pins) \ {p}
    <3>1. Len(pins) <= Len(v.pins) /\ Len(pins) \in Nat /\ Len(v.pins) \in Nat
      BY <2>1, Remove1Drops
    <3>2. QED
      BY <2>1, <3>1, Remove1Drops
  <2>7. auto # None => pins = <<auto>> /\ auto \in Tiles(v) /\ Len(v.order) = 2
    <3>1. SUFFICES ASSUME auto # None PROVE pins = <<auto>> /\ auto \in Tiles(v)
          /\ Len(v.order) = 2
      OBVIOUS
    <3>2. auto = v.auto /\ ~drop
      BY <3>1
    <3>3. v.pins = <<v.auto>> /\ v.auto \in Tiles(v) /\ Len(v.order) = 2 /\ v.auto \in People
      BY <2>1, <3>1, <3>2 DEF Paired, Somebody
    <3>4. ToSet(v.pins) = {v.auto}
      BY <3>3, OnePin
    <3>5. p \notin ToSet(v.pins)
      BY <3>2, <3>4
    <3>6. pins = v.pins
      BY <2>1, <3>5, Remove1Drops
    <3>7. QED
      BY <3>2, <3>3, <3>6
  <2>8. ToSet(pins) \intersect hidden = {} /\ (Self \in ToSet(pins) => v.self)
    BY <2>1, <2>6 DEF OwnPin
  <2> HIDE DEF dismissed, auto, pins, hidden, next, w
  <2>9. u \in Views /\ u.auto = auto /\ u.pins = pins
    BY <2>1, <2>2, <2>5, <2>6 DEF Views
  <2>10. \A f \in Fields \ {"dismissed", "auto", "pins"} : u[f] = next[f]
    BY <2>2 DEF Views, Fields
  <2> HIDE DEF u
  <2>11. Alters(u, v, {"dismissed", "auto", "pins", "hidden"}) /\ u.hidden = hidden
    BY <2>2, <2>3, <2>9, <2>10 DEF Alters, Fields
  <2>12. /\ u.order = v.order /\ u.self = v.self /\ u.sent = v.sent /\ u.open = v.open
         /\ u.known = v.known /\ Tiles(u) = Tiles(v)
    BY <2>11 DEF Alters, Fields, Tiles
  <2>13. Kept(u) /\ OwnPin(u) /\ Paired(u)
    BY <2>5, <2>6, <2>7, <2>8, <2>9, <2>11, <2>12 DEF Kept, OwnPin, Paired
  <2>14. /\ Kept(w) /\ OwnPin(w) /\ Paged(w) /\ Drawn(w) /\ Focused(w) /\ Paired(w)
         /\ Alters(w, u, Refreshed)
         /\ u.open /\ u.known => Asked(w)
    BY <2>4, <2>13, RefreshKeeps
  <2>15. w.pins = pins
    BY <2>9, <2>14 DEF Alters, Fields, Refreshed
  <2>16. Alters(w, v, Counted \union {"hidden"})
    BY <2>11, <2>14 DEF Alters, Counted
  <2>17. QED
    BY <2>6, <2>12, <2>14, <2>15, <2>16 DEF w
<1>3. QED
  BY <1>1, <1>2

\* setParticipantTileHidden(p, false).
LEMMA UnhideTileKeeps ==
  ASSUME NEW v, Kept(v), OwnPin(v), Paired(v), NEW p \in v.hidden, p \in Tiles(v)
  PROVE  LET w == UnhideTile(v, p) IN
         /\ Kept(w) /\ OwnPin(w) /\ Paged(w) /\ Drawn(w) /\ Focused(w) /\ Paired(w)
         /\ Alters(w, v, Refreshed \union {"hidden"}) /\ w.hidden \subseteq v.hidden
         /\ v.open /\ v.known => Asked(w)
         /\ w.menu \in {v.menu, None}
<1> DEFINE w == UnhideTile(v, p)
           hidden == v.hidden \ {p}
           next == [v EXCEPT !.hidden = hidden]
           turned == PageOf(Listed(next), p)
           u == [next EXCEPT !.page = turned]
<1>1. w = Render(Paginate(u))
  BY DEF UnhideTile
<1>2. v \in Views /\ v.hidden \subseteq People \ {Self}
  BY DEF Kept, Views
<1>3. hidden \subseteq People \ {Self} /\ hidden \subseteq v.hidden /\ p \notin hidden
  BY <1>2
<1> HIDE DEF hidden
<1>4. next \in Views /\ next.hidden = hidden /\ \A f \in Fields \ {"hidden"} : next[f] = v[f]
  <2>1. next \in Views /\ next.hidden = hidden
    BY <1>2, <1>3 DEF Views
  <2>2. QED
    BY <1>2, <2>1 DEF Views, Fields
<1> HIDE DEF next
<1>5. turned \in Nat
  <2>1. p \in Tiles(next) /\ ~IsSelf(next, p)
    BY <1>2, <1>4 DEF Fields, Tiles, IsSelf
  <2>2. p \in ToSet(Listed(next)) /\ Listed(next) \in Seq(People)
    BY <1>3, <1>4, <2>1, ListedTiles
  <2>3. turned \in 0 .. LastPage(Listed(next)) /\ LastPage(Listed(next)) \in Nat
    BY <2>2, PageOfIsPage, LastPageIsNat
  <2>4. QED
    BY <2>3
<1> HIDE DEF turned
<1>6. u \in Views
  BY <1>4, <1>5 DEF Views
<1>7. \A f \in Fields \ {"page"} : u[f] = next[f]
  BY <1>4 DEF Views, Fields
<1> HIDE DEF u, w
<1>8. Alters(u, v, {"hidden", "page"}) /\ u.hidden = hidden
  BY <1>4, <1>6, <1>7 DEF Alters, Fields
<1>9. /\ u.order = v.order /\ u.pins = v.pins /\ u.auto = v.auto /\ u.sent = v.sent
      /\ u.self = v.self /\ u.open = v.open /\ u.known = v.known /\ u.menu = v.menu
      /\ Tiles(u) = Tiles(v)
  BY <1>8 DEF Alters, Fields, Tiles
<1>10. Kept(u) /\ OwnPin(u) /\ Paired(u)
  BY <1>3, <1>6, <1>8, <1>9 DEF Kept, OwnPin, Paired
<1>11. /\ Kept(w) /\ OwnPin(w) /\ Paged(w) /\ Drawn(w) /\ Focused(w) /\ Paired(w)
       /\ Alters(w, u, Refreshed)
       /\ u.open /\ u.known => Asked(w)
       /\ w.menu \in {u.menu, None}
  BY <1>1, <1>10, RefreshKeeps
<1>12. Alters(w, v, Refreshed \union {"hidden"}) /\ w.hidden = hidden
  BY <1>8, <1>11 DEF Alters, Refreshed, Fields
<1>13. QED
  BY <1>3, <1>9, <1>11, <1>12 DEF w

\* setSelfViewVisibility.
LEMMA SetSelfKeeps ==
  ASSUME NEW v, Kept(v), OwnPin(v), Paired(v), v.known, NEW on \in BOOLEAN
  PROVE  LET w == SetSelf(v, on) IN
         /\ Kept(w) /\ OwnPin(w) /\ Paged(w) /\ Drawn(w) /\ Focused(w) /\ Paired(w)
         /\ Alters(w, v, Counted \union {"self"})
         /\ v.open => Asked(w)
         /\ ToSet(w.pins) \subseteq ToSet(v.pins) \union Tiles(v)
         /\ w.menu \in {v.menu, None}
<1> DEFINE w == SetSelf(v, on)
           next == [v EXCEPT !.self = on]
           off == ~on /\ v.known /\ Self \in ToSet(v.pins)
           u == IF off THEN SetPinned(next, Self, FALSE) ELSE next
<1>1. w = Render(Paginate(u))
  BY DEF SetSelf
<1>2. v \in Views /\ Self \notin v.hidden /\ Self \in People
  BY StageAssumptions DEF Kept, Views
<1>3. Alters(next, v, {"self"}) /\ next.self = on
  <2>1. next \in Views /\ next.self = on
    BY <1>2 DEF Views
  <2>2. \A f \in Fields \ {"self"} : next[f] = v[f]
    BY <1>2 DEF Views, Fields
  <2>3. QED
    BY <2>1, <2>2 DEF Alters
<1> HIDE DEF next
<1>4. /\ next.pins = v.pins /\ next.hidden = v.hidden /\ next.known = v.known
      /\ next.open = v.open
      /\ next.menu = v.menu
  BY <1>3 DEF Alters, Fields
<1>5. Kept(next) /\ Paired(next) /\ Tiles(next) = Tiles(v)
  <2> DEFINE F == {"self"}
  <2>1. F \intersect {"order", "pins", "auto", "hidden", "sent"} = {} /\ Alters(next, v, F)
    BY <1>3
  <2> HIDE DEF F
  <2>2. QED
    BY <2>1, Untouched
<1>6. /\ Kept(u) /\ OwnPin(u) /\ Paired(u) /\ Alters(u, next, Counted)
      /\ ToSet(u.pins) \subseteq ToSet(v.pins) \union Tiles(v)
      /\ u.menu \in {v.menu, None}
  <2>1. CASE off
    <3> DEFINE x == SetPinned(next, Self, FALSE)
    <3>1. u = x
      BY <2>1
    <3>2. /\ Kept(x) /\ OwnPin(x) /\ Alters(x, next, Counted) /\ x.auto = None
          /\ ToSet(x.pins) \subseteq ToSet(next.pins) \union Tiles(next)
          /\ x.menu \in {next.menu, None}
      BY <1>2, <1>4, <1>5, <2>1, SetPinnedKeeps
    <3> HIDE DEF x, u
    <3>3. QED
      BY <1>4, <1>5, <3>1, <3>2 DEF Paired
  <2>2. CASE ~off
    <3>1. u = next
      BY <2>2
    <3>2. OwnPin(next)
      BY <1>3, <1>4, <2>2 DEF OwnPin
    <3>3. Alters(next, next, Counted)
      BY <1>3 DEF Alters
    <3> HIDE DEF u
    <3>4. QED
      BY <1>4, <1>5, <3>1, <3>2, <3>3
  <2>3. QED
    BY <2>1, <2>2
<1> HIDE DEF u, w
<1>7. u.open = v.open /\ u.known = v.known
  BY <1>4, <1>6 DEF Alters, Fields, Counted, Refreshed
<1>8. /\ Kept(w) /\ OwnPin(w) /\ Paged(w) /\ Drawn(w) /\ Focused(w) /\ Paired(w)
      /\ Alters(w, u, Refreshed)
      /\ u.open /\ u.known => Asked(w)
      /\ w.menu \in {u.menu, None}
  BY <1>1, <1>6, RefreshKeeps
<1>9. w.pins = u.pins
  BY <1>8 DEF Alters, Fields, Refreshed
<1>10. Alters(w, v, Counted \union {"self"})
  BY <1>3, <1>6, <1>8 DEF Alters, Counted
<1>11. QED
  BY <1>6, <1>7, <1>8, <1>9, <1>10 DEF w

\* addParticipant.
LEMMA AddKeeps ==
  ASSUME NEW v, Kept(v), OwnPin(v), v.order = <<>> \/ Paired(v), NEW p \in People,
         p \notin Tiles(v)
  PROVE  LET w == Add(v, p) IN
         /\ Kept(w) /\ OwnPin(w) /\ Paged(w) /\ Drawn(w) /\ Focused(w) /\ Paired(w)
         /\ Alters(w, v, Counted \union {"order"})
         /\ w.order = Append(v.order, p) /\ Tiles(w) = Tiles(v) \union {p}
         /\ v.open /\ v.known => Asked(w)
         /\ ToSet(w.pins) \subseteq ToSet(v.pins) \union Tiles(w)
         /\ w.menu \in {v.menu, None} /\ w.focus \in {v.focus, None}
<1> DEFINE w == Add(v, p)
           order == Append(v.order, p)
           shown == v.shown \union {p}
           placed == [v.placed EXCEPT ![p] = "grid"]
           next == [v EXCEPT !.order = order, !.shown = shown, !.placed = placed]
           c == Count(next)
           s == Render(Paginate(c))
           drawn == Render(s)
<1>1. w = IF v.known THEN Paginate(drawn) ELSE drawn
  BY DEF Add, ScreenUI
<1>2. v \in Views /\ v.order \in Seq(People) /\ IsInjective(v.order) /\ v.shown \subseteq People
      /\ v.placed \in [People -> Places]
  BY DEF Kept, Views
<1>3. /\ order \in Seq(People) /\ IsInjective(order) /\ ToSet(order) = Tiles(v) \union {p}
      /\ Len(order) = Len(v.order) + 1 /\ shown \subseteq People /\ placed \in [People -> Places]
  BY <1>2, AppendAdds DEF Tiles, Places
<1>4. v.order = <<>> => Len(order) = 1
  BY <1>3
<1> HIDE DEF order, shown, placed
<1>5. Alters(next, v, {"order", "shown", "placed"}) /\ next.order = order
  <2>1. next \in Views /\ next.order = order
    BY <1>2, <1>3 DEF Views
  <2>2. \A f \in Fields \ {"order", "shown", "placed"} : next[f] = v[f]
    BY <1>2 DEF Views, Fields
  <2>3. QED
    BY <2>1, <2>2 DEF Alters
<1> HIDE DEF next
<1>6. /\ next.pins = v.pins /\ next.hidden = v.hidden /\ next.known = v.known
      /\ next.open = v.open
      /\ next.auto = v.auto /\ next.sent = v.sent /\ next.self = v.self /\ next.menu = v.menu
      /\ next.focus = v.focus /\ Tiles(next) = Tiles(v) \union {p}
  BY <1>3, <1>5 DEF Alters, Fields, Tiles
<1>7. Kept(next) /\ OwnPin(next)
  BY <1>3, <1>5, <1>6 DEF Kept, OwnPin, Alters
<1>8. Pair(next) # {} /\ next.auto # None => next.pins = <<next.auto>>
  <2>1. CASE v.order = <<>>
    <3>1. Len(next.order) = 1
      BY <1>4, <1>5, <2>1
    <3>2. Pair(next) = {}
      BY <3>1 DEF Pair
    <3>3. QED
      BY <3>2
  <2>2. CASE Paired(v)
    BY <1>6, <2>2 DEF Paired
  <2>3. QED
    BY <2>1, <2>2
<1>9. /\ Kept(c) /\ OwnPin(c) /\ Paged(c) /\ Paired(c)
      /\ Alters(c, next, Counted)
      /\ ToSet(c.pins) \subseteq ToSet(next.pins) \union Tiles(next)
      /\ next.open /\ next.known => Asked(c)
      /\ c.menu \in {next.menu, None} /\ c.focus \in {next.focus, None}
  BY <1>7, <1>8, CountKeeps
<1> HIDE DEF c
<1>10. /\ Kept(s) /\ OwnPin(s) /\ Paged(s) /\ Drawn(s) /\ Focused(s)
       /\ Alters(s, c, Refreshed)
       /\ c.open /\ c.known => Asked(s)
       /\ s.menu \in {c.menu, None} /\ s.focus \in {c.focus, None}
       /\ Paired(s)
  BY <1>9, RefreshKeeps
<1> HIDE DEF s
<1>11. /\ Kept(drawn) /\ Paged(drawn) /\ Drawn(drawn) /\ Focused(drawn)
       /\ Alters(drawn, s, {"mode", "placed", "focus"})
       /\ drawn.focus \in {s.focus, None}
       /\ Asked(s) => Asked(drawn)
       /\ Paired(drawn)
  BY <1>10, RenderKeeps
<1> HIDE DEF drawn
<1>12. OwnPin(drawn) /\ drawn.pins = c.pins /\ drawn.menu = s.menu
  BY <1>10, <1>11 DEF Alters, Fields, Refreshed, OwnPin
<1>13. Alters(drawn, next, Counted)
  BY <1>9, <1>10, <1>11 DEF Alters, Counted, Refreshed
<1>14. /\ Kept(w) /\ OwnPin(w) /\ Paged(w) /\ Drawn(w) /\ Focused(w) /\ Paired(w)
       /\ Alters(w, next, Counted) /\ w.pins = c.pins
       /\ w.menu \in {drawn.menu, None} /\ w.focus \in {drawn.focus, None}
       /\ v.open /\ v.known => Asked(w)
  <2>1. CASE v.known
    <3>1. w = Paginate(drawn)
      BY <1>1, <2>1
    <3> HIDE DEF w
    <3>2. /\ Kept(w) /\ Paged(w) /\ Alters(w, drawn, {"page", "shown", "menu", "sent"})
          /\ drawn.open /\ drawn.known => Asked(w)
          /\ w.menu \in {drawn.menu, None}
          /\ w.shown = drawn.shown
          /\ Drawn(w) /\ Paired(w)
      BY <1>11, <3>1, PaginateKeeps
    <3>3. w.pins = drawn.pins /\ w.focus = drawn.focus /\ w.self = drawn.self
      BY <3>2 DEF Alters, Fields
    <3>4. Focused(w) /\ OwnPin(w)
      BY <1>11, <1>12, <3>2, <3>3 DEF Focused, OwnPin
    <3>5. Alters(w, next, Counted)
      BY <1>13, <3>2 DEF Alters, Counted, Refreshed
    <3>6. drawn.open = v.open /\ drawn.known = v.known
      BY <1>6, <1>13 DEF Alters, Fields, Counted, Refreshed
    <3>7. QED
      BY <1>12, <3>2, <3>3, <3>4, <3>5, <3>6
  <2>2. CASE ~v.known
    <3>1. w = drawn
      BY <1>1, <2>2
    <3> HIDE DEF w
    <3>2. QED
      BY <1>11, <1>12, <1>13, <2>2, <3>1
  <2>3. QED
    BY <2>1, <2>2
<1> HIDE DEF w
<1>15. w.order = order /\ Tiles(w) = Tiles(v) \union {p}
  BY <1>3, <1>5, <1>14 DEF Alters, Fields, Counted, Refreshed, Tiles
<1>16. Alters(w, v, Counted \union {"order"})
  BY <1>5, <1>14 DEF Alters, Counted, Refreshed
<1>17. w.menu \in {v.menu, None} /\ w.focus \in {v.focus, None}
  BY <1>6, <1>9, <1>10, <1>11, <1>12, <1>14
<1>18. ToSet(w.pins) \subseteq ToSet(v.pins) \union Tiles(w)
  BY <1>6, <1>9, <1>14, <1>15
<1>19. QED
  BY <1>14, <1>15, <1>16, <1>17, <1>18 DEF w, order

----------------------------------------------------------------------------
(* The inductive invariant of the stage.                                   *)

\* What the handlers leave behind in a meeting.
Sound(v) == Kept(v) /\ OwnPin(v) /\ Paged(v) /\ Drawn(v) /\ Focused(v) /\ Paired(v)

\* Without a tile there is no pin either; with the first one the user is in
\* the meeting, and the last subscription of an open socket is the right one.
Good(v) ==
  /\ Kept(v) /\ OwnPin(v) /\ Paged(v) /\ Drawn(v) /\ v.menu \notin v.hidden
  /\ IF v.order = <<>> THEN v.pins = <<>> /\ (~v.known => v.focus = None)
     ELSE Sound(v) /\ v.known /\ Self \in Tiles(v) /\ (v.open => Asked(v))

\* The inductive invariant: the view is good, only remote tiles wait for their
\* removal, and a pin without a tile was made while its tile waited.
StageInv ==
  /\ Good(view) /\ acts \in 0 .. MaxActs
  /\ left \subseteq Tiles(view) \ {Self} /\ late \subseteq People
  /\ ToSet(view.pins) \ late \subseteq Tiles(view)
  /\ left \intersect ToSet(view.pins) \subseteq late

\* The empty sequence has no elements, and is the only one without.
LEMMA NoElements ==
  /\ ToSet(<<>>) = {}
  /\ IsInjective(<<>>)
  /\ \A s \in Seq(People) : ToSet(s) = {} => s = <<>>
<1>1. ToSet(<<>>) = {}
  <2> DEFINE s == <<>>
  <2>1. DOMAIN s = {}
    OBVIOUS
  <2> HIDE DEF s
  <2>2. ToSet(s) = {}
    BY <2>1 DEF ToSet
  <2>3. QED
    BY <2>2 DEF s
<1>2. IsInjective(<<>>)
  <2> DEFINE s == <<>>
  <2>1. DOMAIN s = {}
    OBVIOUS
  <2> HIDE DEF s
  <2>2. IsInjective(s)
    BY <2>1 DEF IsInjective
  <2>3. QED
    BY <2>2 DEF s
<1>3. ASSUME NEW s \in Seq(People), ToSet(s) = {}
      PROVE  s = <<>>
  <2>1. \A i \in DOMAIN s : s[i] \in ToSet(s)
    BY DEF ToSet
  <2>2. DOMAIN s = 1 .. Len(s)
    OBVIOUS
  <2>3. \A i \in 1 .. Len(s) : FALSE
    BY <1>3, <2>1, <2>2
  <2>4. QED
    BY <2>3
<1>4. QED
  BY <1>1, <1>2, <1>3

\* Whoever has a tile is in a meeting.
LEMMA InMeeting ==
  ASSUME NEW v, Good(v), NEW p \in Tiles(v)
  PROVE  /\ v.order # <<>> /\ Sound(v) /\ v.known /\ Self \in Tiles(v)
         /\ v.open => Asked(v)
         /\ v.menu \notin v.hidden
<1>1. v.order # <<>>
  <2>1. v.order = <<>> => Tiles(v) = {}
    BY NoElements DEF Tiles
  <2>2. QED
    BY <2>1
<1>2. QED
  BY <1>1 DEF Good

\* What a handler has to leave behind in a meeting.
LEMMA InMeetingIsGood ==
  ASSUME NEW v, Sound(v), v.known, Self \in Tiles(v), v.open => Asked(v), v.menu \notin v.hidden
  PROVE  Good(v)
<1>1. v.order # <<>>
  <2>1. v.order = <<>> => Tiles(v) = {}
    BY NoElements DEF Tiles
  <2>2. QED
    BY <2>1
<1>2. QED
  BY <1>1 DEF Good, Sound

\* Pins that outlive a tile are those that were made while it waited for its
\* removal.
LEMMA LateHolds ==
  ASSUME StageInv, Noted, Good(view'), acts' \in 0 .. MaxActs,
         left' \subseteq Tiles(view') \ {Self},
         ToSet(view'.pins) \subseteq ToSet(view.pins) \union Tiles(view'),
         Tiles(view) \ Tiles(view') \subseteq left \/ ToSet(view'.pins) = {},
         (left' \ left) \intersect ToSet(view'.pins) = {}
  PROVE  StageInv'
<1>1. ToSet(view'.pins) \subseteq People
  <2>1. view'.pins \in Seq(People)
    BY DEF Good, Kept, Views
  <2>2. QED
    BY <2>1, ElementsAreFinite
<1>2. late' \subseteq People
  BY <1>1 DEF Noted
<1>3. ASSUME NEW p \in ToSet(view'.pins), p \notin Tiles(view')
      PROVE  p \in late'
  BY <1>3 DEF StageInv, Noted
<1>4. ASSUME NEW p \in left', p \in ToSet(view'.pins)
      PROVE  p \in late'
  BY <1>4 DEF StageInv, Noted
<1>5. QED
  BY <1>2, <1>3, <1>4 DEF StageInv

\* In a meeting, a step without anybody coming or going.
LEMMA SameTilesHold ==
  ASSUME StageInv, Noted, UNCHANGED left, acts' \in 0 .. MaxActs, Self \in Tiles(view), NEW w,
         view' = w,
         Sound(w), w.order = view.order, w.known = view.known, w.open => Asked(w),
         w.menu \notin w.hidden, ToSet(w.pins) \subseteq ToSet(view.pins) \union Tiles(view)
  PROVE  StageInv'
<1>1. Good(view) /\ left \subseteq Tiles(view) \ {Self}
  BY DEF StageInv
<1>2. Tiles(w) = Tiles(view)
  BY DEF Tiles
<1>3. w.known
  BY <1>1, InMeeting
<1>4. Good(w)
  BY <1>2, <1>3, InMeetingIsGood
<1>5. QED
  BY <1>1, <1>2, <1>4, LateHolds

\* Without a tile there is one page, with nothing on it.
LEMMA EmptyIsPaged ==
  ASSUME NEW v \in Views, v.order = <<>>
  PROVE  Tiles(v) = {} /\ PageAfter(v) = 0 /\ Shown(v) = {}
<1>1. Tiles(v) = {}
  BY NoElements DEF Tiles
<1>2. Listed(v) = <<>>
  BY <1>1, ListedTiles, NoElements
<1>3. LastPage(Listed(v)) = 0
  BY <1>2 DEF LastPage
<1>4. PageAfter(v) = 0
  BY <1>3, PageAfterIsPage
<1>5. QED
  BY <1>1, <1>4, ShownTiles

\* What it has to leave behind when there is no tile.
LEMMA ClearedIsGood ==
  ASSUME NEW v \in Views, v.order = <<>>, v.pins = <<>>, v.page = 0, v.shown = {}, v.menu = None,
         v.auto # Self, v.sent = {None} \/ v.sent \subseteq People \ {Self},
         \A p \in People : v.placed[p] = "none", ~v.known => v.focus = None
  PROVE  Good(v)
<1>1. Tiles(v) = {} /\ PageAfter(v) = 0 /\ Shown(v) = {}
  BY EmptyIsPaged
<1>2. ToSet(v.pins) = {} /\ IsInjective(v.pins) /\ IsInjective(v.order) /\ Len(v.pins) <= 2
  BY NoElements
<1>3. Kept(v)
  BY <1>2 DEF Kept
<1>4. OwnPin(v) /\ Paged(v) /\ Drawn(v)
  BY <1>1, <1>2 DEF OwnPin, Paged, Drawn
<1>5. v.menu \notin v.hidden
  BY StageAssumptions DEF Views
<1>6. QED
  BY <1>3, <1>4, <1>5 DEF Good

\* What the end of a connection leaves.
LEMMA PinsClearedAlters ==
  ASSUME NEW v, Kept(v)
  PROVE  LET w == PinsCleared(v) IN
         /\ Alters(w, v, {"order", "pins", "page", "shown", "placed", "menu", "orphan", "sent"})
         /\ w.order = <<>> /\ w.pins = <<>> /\ w.page = 0 /\ w.shown = {} /\ w.menu = None
         /\ w.auto # Self /\ (w.sent = {None} \/ w.sent \subseteq People \ {Self})
         /\ \A p \in People : w.placed[p] = "none"
<1> DEFINE w == PinsCleared(v)
           placed == [p \in People |-> "none"]
           empty == <<>>
           none == {}
           u == [v EXCEPT !.order = empty, !.pins = empty, !.page = 0, !.shown = none,
                          !.placed = placed]
           c == CloseMenu(u)
<1>1. w = Paginate(c)
  BY DEF PinsCleared
<1>2. v \in Views /\ v.auto # Self /\ (v.sent = {None} \/ v.sent \subseteq People \ {Self})
  BY DEF Kept
<1>3. empty \in Seq(People) /\ placed \in [People -> Places] /\ none \subseteq People
      /\ \A p \in People : placed[p] = "none"
  BY DEF Places
<1>4. IsInjective(empty) /\ Len(empty) <= 2 /\ ToSet(empty) = {}
  BY NoElements
<1> HIDE DEF empty, placed, none
<1>5. u \in Views /\ u.order = empty /\ u.pins = empty /\ u.placed = placed
  BY <1>2, <1>3 DEF Views
<1>6. \A f \in Fields \ {"order", "pins", "page", "shown", "placed"} : u[f] = v[f]
  BY <1>2 DEF Views, Fields
<1> HIDE DEF u
<1>7. Alters(c, u, {"menu", "orphan"}) /\ c.menu = None
  BY <1>5, CloseMenuAlters
<1> HIDE DEF c
<1>8. c.auto = v.auto /\ c.sent = v.sent /\ c.order = empty /\ c.pins = empty /\ c.placed = placed
  BY <1>5, <1>6, <1>7 DEF Alters, Fields
<1>9. Kept(c)
  <2>1. c \in Views
    BY <1>7 DEF Alters
  <2>2. QED
    BY <1>2, <1>4, <1>8, <2>1 DEF Kept
<1>10. /\ Kept(w) /\ Paged(w) /\ Alters(w, c, {"page", "shown", "menu", "sent"})
       /\ w.menu \in {c.menu, None}
  BY <1>1, <1>9, PaginateKeeps
<1> HIDE DEF w
<1>11. w.order = empty /\ w.pins = empty /\ w.placed = placed /\ w.menu = None /\ w \in Views
  BY <1>7, <1>8, <1>10 DEF Alters, Fields
<1>12. w.page = 0 /\ w.shown = {}
  BY <1>10, <1>11, EmptyIsPaged DEF Paged, empty
<1>13. Alters(w, v, {"order", "pins", "page", "shown", "placed", "menu", "orphan", "sent"})
  BY <1>6, <1>7, <1>10 DEF Alters
<1>14. QED
  BY <1>3, <1>10, <1>11, <1>12, <1>13 DEF Kept, w, empty

----------------------------------------------------------------------------
(* Messages and timers.                                                    *)

\* The own tile is added first, then the identifier is known.
LEMMA AdmittedHolds ==
  ASSUME StageInv, Admitted
  PROVE  StageInv'
<1> DEFINE a == Add(view, Self)
           b == [a EXCEPT !.known = TRUE]
           c == Count(b)
           w == Paginate(c)
<1>1. view' = w /\ view.open /\ Self \notin Tiles(view) /\ left' = left /\ acts' = acts /\ Noted
  BY DEF Admitted
<1>2. Good(view) /\ Self \in People
  BY StageAssumptions DEF StageInv
<1>3. view.order = <<>>
  BY <1>1, <1>2 DEF Good
<1>4. Kept(view) /\ OwnPin(view) /\ view.menu \notin view.hidden
      /\ (~view.known => view.focus = None)
      /\ view \in Views
  BY <1>2, <1>3 DEF Good, Kept
<1>5. /\ Kept(a) /\ OwnPin(a) /\ Paged(a) /\ Drawn(a) /\ Focused(a) /\ Paired(a)
      /\ Alters(a, view, Counted \union {"order"})
      /\ a.order = Append(view.order, Self) /\ Tiles(a) = Tiles(view) \union {Self}
      /\ ToSet(a.pins) \subseteq ToSet(view.pins) \union Tiles(a)
      /\ a.menu \in {view.menu, None} /\ a.focus \in {view.focus, None}
  BY <1>1, <1>2, <1>3, <1>4, AddKeeps
<1> HIDE DEF a
<1>6. Alters(b, a, {"known"}) /\ b.known
  <2>1. b \in Views /\ b.known
    BY <1>5 DEF Kept, Views
  <2>2. \A f \in Fields \ {"known"} : b[f] = a[f]
    BY <1>5 DEF Kept, Views, Fields
  <2>3. QED
    BY <2>1, <2>2 DEF Alters
<1>7. view.known => b = a
  <2>1. a.known = view.known
    BY <1>5 DEF Alters, Fields, Counted, Refreshed
  <2>2. view.known => a.known = TRUE
    BY <1>4, <2>1 DEF Views
  <2>3. QED
    BY <1>5, <2>2 DEF Kept, Views
<1> HIDE DEF b
<1>8. Kept(b) /\ OwnPin(b) /\ Paired(b) /\ Drawn(b) /\ Tiles(b) = Tiles(a)
  BY <1>5, <1>6, Untouched
<1>9. b.menu = a.menu /\ b.focus = a.focus /\ b.open = view.open /\ b.hidden = view.hidden
      /\ b.pins = a.pins
  BY <1>5, <1>6 DEF Alters, Fields, Counted, Refreshed
<1>10. /\ Kept(c) /\ OwnPin(c) /\ Paged(c) /\ Paired(c)
       /\ Alters(c, b, Counted)
       /\ ToSet(c.pins) \subseteq ToSet(b.pins) \union Tiles(b)
       /\ b.open /\ b.known => Asked(c)
       /\ Drawn(b) => Drawn(c)
       /\ Paged(b) /\ Focused(b) => Focused(c)
       /\ c.menu \in {b.menu, None} /\ c.focus \in {b.focus, None}
  <2>1. Pair(b) # {} /\ b.auto # None => b.pins = <<b.auto>>
    BY <1>8 DEF Paired
  <2>2. QED
    BY <1>8, <2>1, CountKeeps
<1> HIDE DEF c
<1>11. Focused(c)
  <2>1. CASE view.known
    BY <1>5, <1>7, <1>10, <2>1
  <2>2. CASE ~view.known
    BY <1>4, <1>5, <1>9, <1>10, <2>2 DEF Focused
  <2>3. QED
    BY <2>1, <2>2
<1>12. Tiles(c) = Tiles(b) /\ c.open = b.open /\ c.known = b.known /\ c.hidden = b.hidden
  BY <1>10 DEF Alters, Fields, Counted, Refreshed, Tiles
<1>13. /\ Kept(w) /\ Paged(w) /\ Alters(w, c, {"page", "shown", "menu", "sent"})
       /\ c.open /\ c.known => Asked(w)
       /\ w.menu \in {c.menu, None}
       /\ w.shown = c.shown
       /\ Drawn(w) /\ Paired(w)
  BY <1>8, <1>10, PaginateKeeps
<1> HIDE DEF w
<1>14. w.pins = c.pins /\ w.focus = c.focus /\ w.self = c.self /\ w.known = c.known
       /\ w.hidden = c.hidden /\ Tiles(w) = Tiles(c)
  BY <1>13 DEF Alters, Fields, Tiles
<1>15. Sound(w)
  BY <1>10, <1>11, <1>13, <1>14 DEF Sound, Focused, OwnPin
<1>16. w.known /\ Self \in Tiles(w) /\ Tiles(view) \subseteq Tiles(w) /\ (w.open => Asked(w))
  BY <1>1, <1>5, <1>6, <1>8, <1>9, <1>12, <1>13, <1>14
<1>17. w.menu \notin w.hidden
  <2>1. None \notin view.hidden
    BY <1>4, StageAssumptions DEF Views
  <2>2. QED
    BY <1>4, <1>5, <1>9, <1>10, <1>12, <1>13, <1>14, <2>1
<1>18. Good(w)
  BY <1>15, <1>16, <1>17, InMeetingIsGood
<1>19. ToSet(w.pins) \subseteq ToSet(view.pins) \union Tiles(w)
  BY <1>5, <1>8, <1>9, <1>10, <1>12, <1>14
<1>20. acts' \in 0 .. MaxActs /\ left' \subseteq Tiles(w) \ {Self}
  BY <1>1, <1>16 DEF StageInv
<1>21. QED
  BY <1>1, <1>16, <1>18, <1>19, <1>20, LateHolds

\* A new socket has sent nothing.
LEMMA OpenedHolds ==
  ASSUME StageInv, Opened
  PROVE  StageInv'
<1> DEFINE none == {None}
           w == [view EXCEPT !.open = TRUE, !.sent = none]
<1>1. view' = w /\ view.order = <<>> /\ left' = left /\ acts' = acts /\ Noted
  BY DEF Opened
<1>2. Good(view) /\ Kept(view) /\ view \in Views
  BY DEF StageInv, Good, Kept
<1>3. none \subseteq Somebody
  BY DEF Somebody
<1> HIDE DEF none
<1>4. Alters(w, view, {"open", "sent"}) /\ w.sent = none
  <2>1. w \in Views /\ w.sent = none
    BY <1>2, <1>3 DEF Views
  <2>2. \A f \in Fields \ {"open", "sent"} : w[f] = view[f]
    BY <1>2 DEF Views, Fields
  <2>3. QED
    BY <2>1, <2>2 DEF Alters
<1> HIDE DEF w
<1>5. /\ w \in Views /\ w.order = <<>> /\ w.pins = view.pins /\ w.auto = view.auto
      /\ w.hidden = view.hidden /\ w.menu = view.menu /\ w.focus = view.focus
      /\ w.known = view.known
  BY <1>1, <1>4 DEF Alters, Fields
<1>6. Kept(w)
  BY <1>1, <1>2, <1>4, <1>5 DEF Kept, none
<1>7. OwnPin(w) /\ Paged(w) /\ Drawn(w) /\ Tiles(w) = Tiles(view)
  <2> DEFINE F == {"open", "sent"}
  <2>1. /\ {"pins", "self"} \intersect F = {}
        /\ {"order", "known", "hidden", "self", "pins", "owner", "page", "shown", "menu", "orphan"}
             \intersect F = {}
        /\ {"placed", "order", "pins", "mode"} \intersect F = {} /\ "order" \notin F
        /\ Alters(w, view, F)
    BY <1>4
  <2> HIDE DEF F
  <2>2. OwnPin(view) /\ Paged(view) /\ Drawn(view)
    BY <1>2 DEF Good
  <2>3. QED
    BY <2>1, <2>2, Untouched
<1>8. Good(w)
  BY <1>1, <1>2, <1>5, <1>6, <1>7 DEF Good
<1>9. QED
  BY <1>1, <1>5, <1>7, <1>8, LateHolds DEF StageInv

\* Without a socket nothing is asked for.
LEMMA DropHolds ==
  ASSUME StageInv, Drop
  PROVE  StageInv'
<1> DEFINE w == [view EXCEPT !.open = FALSE]
<1>1. view' = w /\ left' = left /\ acts' = acts /\ Noted
  BY DEF Drop
<1>2. Good(view) /\ view \in Views
  BY DEF StageInv, Good, Kept
<1>3. Alters(w, view, {"open"}) /\ ~w.open
  <2>1. w \in Views /\ ~w.open
    BY <1>2 DEF Views
  <2>2. \A f \in Fields \ {"open"} : w[f] = view[f]
    BY <1>2 DEF Views, Fields
  <2>3. QED
    BY <2>1, <2>2 DEF Alters
<1> HIDE DEF w
<1>4. /\ w.order = view.order /\ w.pins = view.pins /\ w.hidden = view.hidden
      /\ w.menu = view.menu
      /\ w.focus = view.focus /\ w.known = view.known
  BY <1>3 DEF Alters, Fields
<1>5. /\ Tiles(w) = Tiles(view) /\ (Kept(view) => Kept(w)) /\ (OwnPin(view) => OwnPin(w))
      /\ (Paged(view) => Paged(w)) /\ (Drawn(view) => Drawn(w)) /\ (Focused(view) => Focused(w))
      /\ (Paired(view) => Paired(w))
  BY <1>3, Untouched
<1>6. Good(w)
  BY <1>2, <1>3, <1>4, <1>5 DEF Good, Sound
<1>7. QED
  BY <1>1, <1>4, <1>5, <1>6, LateHolds DEF StageInv

\* A rendering alone.
LEMMA SpeakerHolds ==
  ASSUME StageInv, SpeakerChanges
  PROVE  StageInv'
<1> DEFINE w == Render(view)
<1>1. view' = w /\ left' = left /\ acts' = acts /\ Noted
  BY DEF SpeakerChanges
<1>2. Good(view) /\ Kept(view) /\ OwnPin(view) /\ Paged(view)
  BY DEF StageInv, Good
<1>3. /\ Kept(w) /\ Paged(w) /\ Drawn(w) /\ Focused(w)
      /\ Alters(w, view, {"mode", "placed", "focus"})
      /\ w.focus \in {view.focus, None}
      /\ Asked(view) => Asked(w)
      /\ Paired(view) => Paired(w)
  BY <1>2, RenderKeeps
<1> HIDE DEF w
<1>4. /\ w.order = view.order /\ w.pins = view.pins /\ w.hidden = view.hidden
      /\ w.menu = view.menu
      /\ w.known = view.known /\ w.self = view.self /\ w.open = view.open
      /\ Tiles(w) = Tiles(view)
  BY <1>3 DEF Alters, Fields, Tiles
<1>5. Good(w)
  BY <1>2, <1>3, <1>4 DEF Good, Sound, OwnPin
<1>6. QED
  BY <1>1, <1>4, <1>5, LateHolds DEF StageInv

\* addParticipant, for somebody else.
LEMMA ArrivesHolds ==
  ASSUME StageInv, NEW p \in People \ {Self}, Arrives(p)
  PROVE  StageInv'
<1> DEFINE w == Add(view, p)
<1>1. /\ view' = w /\ Joined /\ p \notin Tiles(view) /\ left' = left /\ acts' = acts /\ Noted
  BY DEF Arrives
<1>2. Good(view) /\ Self \in Tiles(view)
  BY <1>1 DEF StageInv, Joined
<1>3. Sound(view) /\ view.menu \notin view.hidden /\ view \in Views
  BY <1>2, InMeeting DEF Good, Kept
<1>4. /\ Kept(w) /\ OwnPin(w) /\ Paged(w) /\ Drawn(w) /\ Focused(w) /\ Paired(w)
      /\ Alters(w, view, Counted \union {"order"})
      /\ Tiles(w) = Tiles(view) \union {p}
      /\ view.open /\ view.known => Asked(w)
      /\ ToSet(w.pins) \subseteq ToSet(view.pins) \union Tiles(w)
      /\ w.menu \in {view.menu, None}
  BY <1>1, <1>3, AddKeeps DEF Sound
<1> HIDE DEF w
<1>5. w.hidden = view.hidden /\ w.known = view.known
  BY <1>4 DEF Alters, Fields, Counted, Refreshed
<1>6. w.menu \notin w.hidden
  BY <1>3, <1>4, <1>5, StageAssumptions DEF Views
<1>7. Good(w)
  BY <1>1, <1>2, <1>4, <1>5, <1>6, InMeetingIsGood DEF Sound, Joined
<1>8. QED
  BY <1>1, <1>4, <1>7, LateHolds DEF StageInv

\* A tile that does not wait any more keeps its pins.
LEMMA ReturnsHolds ==
  ASSUME StageInv, NEW p \in People \ {Self}, Returns(p)
  PROVE  StageInv'
<1> DEFINE v == IF view.menu = p THEN CloseMenu(view) ELSE view
           c == Count(v)
           w == Paginate(c)
<1>1. /\ view' = w /\ Joined /\ left' = left \ {p} /\ acts' = acts /\ Noted
  BY DEF Returns
<1>2. Good(view) /\ Self \in Tiles(view)
  BY <1>1 DEF StageInv, Joined
<1>3. Sound(view) /\ view.menu \notin view.hidden /\ view \in Views /\ None \notin view.hidden
  BY <1>2, InMeeting, StageAssumptions DEF Good, Kept, Views
<1>4. Sound(v) /\ Alters(v, view, {"menu", "orphan"}) /\ v.menu \in {view.menu, None}
  <2>1. CASE view.menu = p
    BY <1>3, <2>1, CloseMenuKeeps DEF Sound
  <2>2. CASE view.menu # p
    BY <1>3, <2>2 DEF Alters
  <2>3. QED
    BY <2>1, <2>2
<1> HIDE DEF v
<1>5. /\ Kept(c) /\ OwnPin(c) /\ Paged(c) /\ Paired(c) /\ Drawn(c) /\ Focused(c)
      /\ Alters(c, v, Counted)
      /\ ToSet(c.pins) \subseteq ToSet(v.pins) \union Tiles(v)
      /\ c.menu \in {v.menu, None}
  <2>1. Pair(v) # {} /\ v.auto # None => v.pins = <<v.auto>>
    BY <1>4 DEF Sound, Paired
  <2>2. QED
    BY <1>4, <2>1, CountKeeps DEF Sound
<1> HIDE DEF c
<1>6. /\ Kept(w) /\ Paged(w) /\ Alters(w, c, {"page", "shown", "menu", "sent"})
      /\ c.open /\ c.known => Asked(w)
      /\ w.menu \in {c.menu, None}
      /\ w.shown = c.shown
      /\ Drawn(w) /\ Paired(w)
  BY <1>5, PaginateKeeps
<1> HIDE DEF w
<1>7. w.pins = c.pins /\ w.focus = c.focus /\ w.self = c.self
  BY <1>6 DEF Alters, Fields
<1>8. Sound(w)
  BY <1>5, <1>6, <1>7 DEF Sound, Focused, OwnPin
<1>9. Alters(w, view, Counted \union {"orphan"}) /\ Tiles(v) = Tiles(view) /\ v.pins = view.pins
  BY <1>4, <1>5, <1>6 DEF Alters, Counted, Refreshed, Fields, Tiles
<1>10. w.hidden = view.hidden /\ w.known = view.known /\ Tiles(w) = Tiles(view)
       /\ c.open = view.open /\ c.known = view.known
  BY <1>4, <1>5, <1>9 DEF Alters, Fields, Counted, Refreshed, Tiles
<1>11. Good(w)
  BY <1>1, <1>2, <1>3, <1>4, <1>5, <1>6, <1>8, <1>10, InMeetingIsGood DEF Joined
<1>12. ToSet(w.pins) \subseteq ToSet(view.pins) \union Tiles(w)
  BY <1>5, <1>7, <1>9, <1>10
<1>13. QED
  BY <1>1, <1>10, <1>11, <1>12, LateHolds DEF StageInv

\* The pin of who leaves is gone before the tile waits.
LEMMA LeavesHolds ==
  ASSUME StageInv, NEW p \in People \ {Self}, Leaves(p)
  PROVE  StageInv'
<1> DEFINE closed == IF view.menu = p THEN CloseMenu(view) ELSE view
           s == IF p \in ToSet(closed.pins) THEN SetPinned(closed, p, FALSE) ELSE closed
           u == [s EXCEPT !.owner = None]
           w == IF p = view.owner THEN ScreenUI(u) ELSE s
<1>1. /\ view' = w /\ Joined /\ left' = left \union {p} /\ acts' = acts /\ Noted
      /\ p \in Tiles(view) \ (left \union {Self})
  BY DEF Leaves
<1>2. Good(view) /\ Self \in Tiles(view) /\ view.open /\ view.known
  BY <1>1 DEF StageInv, Joined
<1>3. /\ Sound(view) /\ view.menu \notin view.hidden /\ view \in Views /\ None \notin view.hidden
      /\ Asked(view)
  BY <1>2, InMeeting, StageAssumptions DEF Good, Kept, Views
<1>4. /\ Sound(closed) /\ Asked(closed) /\ Alters(closed, view, {"menu", "orphan"})
      /\ closed.menu \in {view.menu, None}
  <2>1. CASE view.menu = p
    BY <1>3, <2>1, CloseMenuKeeps DEF Sound
  <2>2. CASE view.menu # p
    BY <1>3, <2>2 DEF Alters
  <2>3. QED
    BY <2>1, <2>2
<1> HIDE DEF closed
<1>5. /\ closed.pins = view.pins /\ closed.hidden = view.hidden /\ closed.known = view.known
      /\ closed.open = view.open /\ closed.order = view.order /\ Tiles(closed) = Tiles(view)
  BY <1>4 DEF Alters, Fields, Tiles
<1>6. /\ Sound(s) /\ Asked(s) /\ Alters(s, closed, Counted)
      /\ ToSet(s.pins) \subseteq ToSet(view.pins) \union Tiles(view)
      /\ p \notin ToSet(s.pins) /\ s.menu \in {view.menu, None}
  <2>1. CASE p \in ToSet(closed.pins)
    <3> DEFINE x == SetPinned(closed, p, FALSE)
    <3>1. s = x
      BY <2>1
    <3>2. p \notin closed.hidden
      BY <1>4, <2>1 DEF Sound, Kept
    <3>3. /\ Kept(x) /\ OwnPin(x) /\ Paged(x) /\ Drawn(x) /\ Focused(x)
          /\ Alters(x, closed, Counted) /\ x.auto = None
          /\ closed.open => Asked(x)
          /\ ToSet(x.pins) \subseteq ToSet(closed.pins) \union Tiles(closed)
          /\ p \notin ToSet(x.pins) /\ x.menu \in {closed.menu, None}
      BY <1>2, <1>4, <1>5, <2>1, <3>2, SetPinnedKeeps DEF Sound
    <3> HIDE DEF x, s
    <3>4. QED
      BY <1>2, <1>4, <1>5, <3>1, <3>3 DEF Sound, Paired
  <2>2. CASE p \notin ToSet(closed.pins)
    <3>1. s = closed
      BY <2>2
    <3> HIDE DEF s
    <3>2. QED
      BY <1>4, <1>5, <2>2, <3>1 DEF Alters
  <2>3. QED
    BY <2>1, <2>2
<1> HIDE DEF s
<1>7. Alters(s, view, Counted \union {"orphan"}) /\ s.hidden = view.hidden
      /\ s.known = view.known /\ s.open = view.open /\ Tiles(s) = Tiles(view)
  BY <1>4, <1>5, <1>6 DEF Alters, Fields, Counted, Refreshed, Tiles
<1>8. /\ Sound(w) /\ Asked(w) /\ Alters(w, view, Counted \union {"orphan", "owner"})
      /\ w.pins = s.pins /\ w.menu \in {s.menu, None}
  <2>1. CASE p = view.owner
    <3>1. Alters(u, s, {"owner"})
      <4>1. s \in Views
        BY <1>6 DEF Alters
      <4>2. u \in Views
        BY <4>1 DEF Views, Somebody
      <4>3. \A f \in Fields \ {"owner"} : u[f] = s[f]
        BY <4>1 DEF Views, Fields
      <4>4. QED
        BY <4>2, <4>3 DEF Alters
    <3>2. w = Render(Paginate(u))
      BY <2>1 DEF ScreenUI
    <3> HIDE DEF u, w
    <3>3. Kept(u) /\ OwnPin(u) /\ Paired(u)
      BY <1>6, <3>1, Untouched DEF Sound
    <3>4. u.open /\ u.known /\ u.pins = s.pins /\ u.menu = s.menu
      BY <1>2, <1>7, <3>1 DEF Alters, Fields
    <3>5. /\ Kept(w) /\ OwnPin(w) /\ Paged(w) /\ Drawn(w) /\ Focused(w) /\ Paired(w)
          /\ Alters(w, u, Refreshed) /\ Asked(w) /\ w.menu \in {u.menu, None}
      BY <3>2, <3>3, <3>4, RefreshKeeps
    <3>6. w.pins = u.pins
      BY <3>5 DEF Alters, Fields, Refreshed
    <3>7. Alters(w, view, Counted \union {"orphan", "owner"})
      BY <1>7, <3>1, <3>5 DEF Alters, Counted
    <3>8. QED
      BY <3>4, <3>5, <3>6, <3>7 DEF Sound
  <2>2. CASE p # view.owner
    <3>1. w = s
      BY <2>2
    <3> HIDE DEF w
    <3>2. QED
      BY <1>6, <1>7, <3>1 DEF Alters
  <2>3. QED
    BY <2>1, <2>2
<1> HIDE DEF w
<1>9. w.hidden = view.hidden /\ w.known = view.known /\ Tiles(w) = Tiles(view)
  BY <1>8 DEF Alters, Fields, Counted, Refreshed, Tiles
<1>10. Good(w)
  BY <1>2, <1>3, <1>6, <1>8, <1>9, InMeetingIsGood
<1>11. QED
  BY <1>1, <1>6, <1>8, <1>9, <1>10, LateHolds DEF StageInv

\* Only a tile that waited is removed, with whatever was pinned on it meanwhile.
LEMMA TileRemovedHolds ==
  ASSUME StageInv, NEW p \in People \ {Self}, TileRemoved(p)
  PROVE  StageInv'
<1> DEFINE order == Remove1(view.order, p)
           shown == view.shown \ {p}
           placed == [view.placed EXCEPT ![p] = "none"]
           orphan == view.orphan \/ view.menu = p
           focus == IF view.focus = p THEN None ELSE view.focus
           u == [view EXCEPT !.order = order, !.shown = shown, !.placed = placed,
                             !.orphan = orphan, !.focus = focus]
           c == Count(u)
           w == Render(c)
<1>1. p \in left /\ left' = left \ {p} /\ acts' = acts /\ Noted
  BY DEF TileRemoved
<1>2. Good(view) /\ p \in Tiles(view)
  BY <1>1 DEF StageInv
<1>3. /\ Sound(view) /\ view.menu \notin view.hidden /\ view \in Views /\ view.known
      /\ Self \in Tiles(view) /\ None \notin view.hidden
      /\ view.order \in Seq(People) /\ IsInjective(view.order)
      /\ view.shown \subseteq People /\ view.placed \in [People -> Places]
      /\ view.orphan \in BOOLEAN /\ view.focus \in Somebody
  BY <1>2, InMeeting, StageAssumptions DEF Sound, Kept, Views
<1>4. view' = w
  <2>1. view' = Render(Count([view EXCEPT !.order = Remove1(@, p), !.shown = @ \ {p},
                                          !.placed[p] = "none",
                                          !.orphan = @ \/ view.menu = p,
                                          !.focus = IF @ = p THEN None ELSE @]))
    BY DEF TileRemoved
  <2>2. [view EXCEPT !.order = Remove1(@, p), !.shown = @ \ {p}, !.placed[p] = "none",
                     !.orphan = @ \/ view.menu = p, !.focus = IF @ = p THEN None ELSE @] = u
    BY <1>3 DEF Views
  <2>3. QED
    BY <2>1, <2>2
<1>5. /\ order \in Seq(People) /\ IsInjective(order) /\ ToSet(order) = Tiles(view) \ {p}
      /\ shown \subseteq People /\ placed \in [People -> Places] /\ orphan \in BOOLEAN
      /\ focus \in Somebody
  BY <1>3, Remove1Drops DEF Tiles, Places, Somebody
<1>6. placed[p] = "none" /\ \A q \in People \ {p} : placed[q] = view.placed[q]
  BY <1>3
<1> HIDE DEF order, shown, placed, orphan, focus
<1>7. Alters(u, view, {"order", "shown", "placed", "orphan", "focus"}) /\ u.order = order
      /\ u.placed = placed
  <2>1. u \in Views /\ u.order = order /\ u.placed = placed
    BY <1>3, <1>5 DEF Views
  <2>2. \A f \in Fields \ {"order", "shown", "placed", "orphan", "focus"} : u[f] = view[f]
    BY <1>3 DEF Views, Fields
  <2>3. QED
    BY <2>1, <2>2 DEF Alters
<1> HIDE DEF u
<1>8. /\ u.pins = view.pins /\ u.auto = view.auto /\ u.hidden = view.hidden /\ u.self = view.self
      /\ u.sent = view.sent /\ u.known = view.known /\ u.open = view.open /\ u.mode = view.mode
      /\ u.menu = view.menu /\ Tiles(u) = Tiles(view) \ {p}
  BY <1>5, <1>7 DEF Alters, Fields, Tiles
<1>9. Kept(u) /\ OwnPin(u)
  <2>1. u \in Views
    BY <1>7 DEF Alters
  <2>2. QED
    BY <1>3, <1>5, <1>7, <1>8, <2>1 DEF Kept, OwnPin, Sound
<1>10. Drawn(u)
  <2>1. \A q \in People : u.placed[q] = "none" <=> q \notin Tiles(u)
    BY <1>3, <1>6, <1>7, <1>8 DEF Sound, Drawn
  <2>2. ASSUME NEW q \in ToSet(u.pins) \intersect Tiles(u)
        PROVE  u.placed[q] = "main" /\ u.mode = "pinned"
    <3>1. q \in ToSet(view.pins) \intersect Tiles(view) /\ q # p /\ q \in People
      BY <1>3, <1>8, ListedTiles
    <3>2. view.placed[q] = "main" /\ view.mode = "pinned"
      BY <1>3, <3>1 DEF Sound, Drawn
    <3>3. QED
      BY <1>6, <1>7, <1>8, <3>1, <3>2
  <2>3. QED
    BY <2>1, <2>2 DEF Drawn
<1>11. /\ Kept(c) /\ OwnPin(c) /\ Paged(c) /\ Paired(c)
       /\ Alters(c, u, Counted)
       /\ ToSet(c.pins) \subseteq ToSet(u.pins) \union Tiles(u)
       /\ u.open /\ u.known => Asked(c)
       /\ c.menu \in {u.menu, None}
  <2>1. Pair(u) # {} /\ u.auto # None => u.pins = <<u.auto>>
    BY <1>3, <1>8 DEF Sound, Paired
  <2>2. QED
    BY <1>9, <2>1, CountKeeps
<1> HIDE DEF c
<1>12. /\ Kept(w) /\ Paged(w) /\ Drawn(w) /\ Focused(w)
       /\ Alters(w, c, {"mode", "placed", "focus"})
       /\ Asked(c) => Asked(w)
       /\ Paired(w)
  BY <1>11, RenderKeeps
<1> HIDE DEF w
<1>13. w.pins = c.pins /\ w.menu = c.menu /\ w.self = c.self
  BY <1>12 DEF Alters, Fields
<1>14. Sound(w)
  BY <1>11, <1>12, <1>13 DEF Sound, OwnPin
<1>15. Alters(w, u, Counted)
  BY <1>11, <1>12 DEF Alters, Counted, Refreshed
<1>16. w.hidden = view.hidden /\ w.known = view.known /\ w.open = view.open /\ Tiles(w) = Tiles(u)
  BY <1>8, <1>15 DEF Alters, Fields, Counted, Refreshed, Tiles
<1>17. Good(w)
  BY <1>3, <1>8, <1>11, <1>12, <1>13, <1>14, <1>16, InMeetingIsGood
<1>18. /\ ToSet(w.pins) \subseteq ToSet(view.pins) \union Tiles(w)
       /\ Tiles(view) \ Tiles(w) \subseteq left /\ left' \subseteq Tiles(w) \ {Self}
  BY <1>1, <1>8, <1>11, <1>13, <1>16 DEF StageInv
<1>19. QED
  BY <1>1, <1>4, <1>17, <1>18, LateHolds DEF StageInv

\* A new owner of the screen turns the page.
LEMMA ScreenStateHolds ==
  ASSUME StageInv, NEW o \in Somebody, ScreenState(o)
  PROVE  StageInv'
<1> DEFINE u == [view EXCEPT !.owner = o]
           s == Render(Paginate(u))
           w == Render(s)
<1>1. /\ view' = w /\ Joined /\ left' = left /\ acts' = acts /\ Noted
  BY DEF ScreenState, ScreenUI
<1>2. Good(view) /\ Self \in Tiles(view) /\ view.open /\ view.known
  BY <1>1 DEF StageInv, Joined
<1>3. Sound(view) /\ view.menu \notin view.hidden /\ view \in Views /\ None \notin view.hidden
  BY <1>2, InMeeting, StageAssumptions DEF Good, Kept, Views
<1>4. Alters(u, view, {"owner"})
  <2>1. u \in Views
    BY <1>3 DEF Views, Somebody
  <2>2. \A f \in Fields \ {"owner"} : u[f] = view[f]
    BY <1>3 DEF Views, Fields
  <2>3. QED
    BY <2>1, <2>2 DEF Alters
<1> HIDE DEF u
<1>5. Kept(u) /\ OwnPin(u) /\ Paired(u)
  BY <1>3, <1>4, Untouched DEF Sound
<1>6. u.open = view.open /\ u.known = view.known /\ u.menu = view.menu
  BY <1>4 DEF Alters, Fields
<1>7. /\ Kept(s) /\ OwnPin(s) /\ Paged(s) /\ Drawn(s) /\ Focused(s) /\ Paired(s)
      /\ Alters(s, u, Refreshed) /\ Asked(s) /\ s.menu \in {u.menu, None}
  BY <1>2, <1>5, <1>6, RefreshKeeps
<1> HIDE DEF s
<1>8. /\ Kept(w) /\ Paged(w) /\ Drawn(w) /\ Focused(w)
      /\ Alters(w, s, {"mode", "placed", "focus"})
      /\ Asked(w) /\ Paired(w)
  BY <1>7, RenderKeeps
<1> HIDE DEF w
<1>9. w.menu = s.menu /\ w.pins = s.pins /\ w.self = s.self
  BY <1>8 DEF Alters, Fields
<1>10. Sound(w)
  BY <1>7, <1>8, <1>9 DEF Sound, OwnPin
<1>11. Alters(w, view, Refreshed \union {"owner"})
  BY <1>4, <1>7, <1>8 DEF Alters, Refreshed
<1>12. w.hidden = view.hidden /\ w.known = view.known /\ w.order = view.order
       /\ w.pins = view.pins
  BY <1>11 DEF Alters, Fields, Refreshed
<1>13. w.menu \notin w.hidden
  BY <1>3, <1>6, <1>7, <1>9, <1>12
<1>14. QED
  BY <1>1, <1>2, <1>8, <1>10, <1>12, <1>13, SameTilesHold DEF StageInv

----------------------------------------------------------------------------
(* The user.                                                               *)

\* What an action of the user starts from.
LEMMA ActStarts ==
  ASSUME StageInv, Act
  PROVE  /\ Self \in Tiles(view) /\ Sound(view) /\ view.known /\ (view.open => Asked(view))
         /\ view \in Views /\ view.menu \notin view.hidden /\ None \notin view.hidden
         /\ acts' \in 0 .. MaxActs /\ UNCHANGED left
         /\ view.menu # None => view.menu \in People
         /\ ToSet(view.pins) \subseteq ToSet(view.pins) \union Tiles(view)
<1>1. Self \in Tiles(view) /\ Good(view) /\ UNCHANGED left
  BY DEF Act, StageInv
<1>2. Sound(view) /\ view.known /\ (view.open => Asked(view)) /\ view.menu \notin view.hidden
  BY <1>1, InMeeting
<1>3. view \in Views
  BY <1>2 DEF Sound, Kept
<1>4. None \notin view.hidden /\ (view.menu # None => view.menu \in People)
  BY <1>3, StageAssumptions DEF Views, Somebody
<1>5. acts' \in 0 .. MaxActs
  BY StageAssumptions DEF Act, StageInv
<1>6. QED
  BY <1>1, <1>2, <1>3, <1>4, <1>5

\* A handler of the menu ends with closing it.
LEMMA ClosedHolds ==
  ASSUME StageInv, Act, Noted, NEW v, view' = CloseMenu(v), Sound(v), v.order = view.order,
         v.known = view.known, v.open => Asked(v), v.hidden \subseteq People,
         ToSet(v.pins) \subseteq ToSet(view.pins) \union Tiles(view)
  PROVE  StageInv'
<1> DEFINE w == CloseMenu(v)
<1>1. /\ Kept(w) /\ Alters(w, v, {"menu", "orphan"}) /\ w.menu = None
      /\ OwnPin(w) /\ Paged(w) /\ (Asked(v) => Asked(w)) /\ Drawn(w) /\ Focused(w) /\ Paired(w)
  BY CloseMenuKeeps DEF Sound
<1>2. view' = w
  OBVIOUS
<1> HIDE DEF w
<1>3. /\ w.order = v.order /\ w.known = v.known /\ w.open = v.open /\ w.hidden = v.hidden
      /\ w.pins = v.pins
  BY <1>1 DEF Alters, Fields
<1>4. Sound(w) /\ w.menu \notin w.hidden
  BY <1>1, <1>3, StageAssumptions DEF Sound
<1>5. QED
  BY <1>1, <1>2, <1>3, <1>4, ActStarts, SameTilesHold

\* A menu opens on a tile that is shown.
LEMMA OpenMenuHolds ==
  ASSUME StageInv, NEW p \in People, OpenMenu(p)
  PROVE  StageInv'
<1> DEFINE w == [view EXCEPT !.menu = p, !.orphan = FALSE]
<1>1. view' = w /\ Act /\ p \in view.shown /\ Noted
  BY DEF OpenMenu, Seen
<1>2. /\ Self \in Tiles(view) /\ Sound(view) /\ view.known /\ (view.open => Asked(view))
      /\ view \in Views /\ acts' \in 0 .. MaxActs /\ UNCHANGED left
  BY <1>1, ActStarts
<1>3. Alters(w, view, {"menu", "orphan"}) /\ w.menu = p
  <2>1. w \in Views /\ w.menu = p
    BY <1>2 DEF Views, Somebody
  <2>2. \A f \in Fields \ {"menu", "orphan"} : w[f] = view[f]
    BY <1>2 DEF Views, Fields
  <2>3. QED
    BY <2>1, <2>2 DEF Alters
<1> HIDE DEF w
<1>4. /\ SameRoster(w, view) /\ w.page = view.page /\ w.shown = view.shown /\ w.open = view.open
      /\ w.hidden = view.hidden /\ w.order = view.order /\ w.known = view.known
      /\ w.pins = view.pins
  BY <1>3 DEF Alters, Fields, SameRoster
<1>5. Paged(w)
  BY <1>1, <1>2, <1>3, <1>4, RosterDecides DEF Sound, Paged
<1>6. Kept(w) /\ OwnPin(w) /\ Drawn(w) /\ Focused(w) /\ Paired(w) /\ (w.open => Asked(w))
  <2> DEFINE F == {"menu", "orphan"}
  <2>1. /\ {"order", "pins", "auto", "hidden", "sent"} \intersect F = {}
        /\ {"pins", "self"} \intersect F = {}
        /\ {"receive", "shown", "hidden", "order", "sent"} \intersect F = {}
        /\ {"placed", "order", "pins", "mode"} \intersect F = {}
        /\ {"focus", "shown"} \intersect F = {}
        /\ {"auto", "pins", "order"} \intersect F = {}
        /\ Alters(w, view, F)
    BY <1>3
  <2> HIDE DEF F
  <2>2. QED
    BY <1>2, <1>4, <2>1, Untouched DEF Sound
<1>7. w.menu \notin w.hidden
  <2>1. view.shown \intersect view.hidden = {}
    BY <1>2, ShownTiles DEF Sound, Paged
  <2>2. QED
    BY <1>1, <1>3, <1>4, <2>1
<1>8. QED
  BY <1>1, <1>2, <1>4, <1>5, <1>6, <1>7, SameTilesHold DEF Sound

\* The menu is closed.
LEMMA DismissMenuHolds ==
  ASSUME StageInv, DismissMenu
  PROVE  StageInv'
<1>1. view' = CloseMenu(view) /\ Act /\ Noted
  BY DEF DismissMenu
<1>2. Sound(view) /\ (view.open => Asked(view)) /\ view \in Views
      /\ ToSet(view.pins) \subseteq ToSet(view.pins) \union Tiles(view)
  BY <1>1, ActStarts
<1>3. view.hidden \subseteq People
  BY <1>2 DEF Views
<1>4. QED
  BY <1>1, <1>2, <1>3, ClosedHolds

\* A pin of the menu.
LEMMA MenuPinHolds ==
  ASSUME StageInv, MenuPin
  PROVE  StageInv'
<1> DEFINE v == SetPinned(view, view.menu, TRUE)
<1>1. view' = CloseMenu(v) /\ Act /\ view.menu # None /\ Noted
  BY DEF MenuPin
<1>2. Sound(view) /\ view.known /\ view \in Views /\ view.menu \notin view.hidden
      /\ view.menu \in People
  BY <1>1, ActStarts
<1>3. /\ Kept(v) /\ OwnPin(v) /\ Paged(v) /\ Drawn(v) /\ Focused(v)
      /\ Alters(v, view, Counted)
      /\ v.auto = None
      /\ view.open => Asked(v)
      /\ ToSet(v.pins) \subseteq ToSet(view.pins) \union Tiles(view)
  BY <1>2, SetPinnedKeeps DEF Sound
<1> HIDE DEF v
<1>4. v.order = view.order /\ v.known = view.known /\ v.open = view.open /\ v.hidden = view.hidden
  BY <1>3 DEF Alters, Fields, Counted, Refreshed
<1>5. Sound(v) /\ v.hidden \subseteq People
  BY <1>2, <1>3, <1>4 DEF Sound, Paired, Views
<1>6. QED
  BY <1>1, <1>3, <1>4, <1>5, ClosedHolds

\* Hiding a tile removes its pin.
LEMMA MenuHideHolds ==
  ASSUME StageInv, MenuHide
  PROVE  StageInv'
<1> DEFINE v == HideTile(view, view.menu)
<1>1. view' = CloseMenu(v) /\ Act /\ view.menu # None /\ view.menu # Self /\ Noted
  BY DEF MenuHide
<1>2. Sound(view) /\ view.known /\ view \in Views /\ (view.open => Asked(view))
      /\ view.menu \in People \ {Self}
  BY <1>1, ActStarts
<1>3. /\ Kept(v) /\ OwnPin(v) /\ Paged(v) /\ Drawn(v) /\ Focused(v) /\ Paired(v)
      /\ Alters(v, view, Counted \union {"hidden"})
      /\ view.open /\ view.known /\ Asked(view) => Asked(v)
      /\ ToSet(v.pins) \subseteq ToSet(view.pins)
  BY <1>2, HideTileKeeps DEF Sound
<1> HIDE DEF v
<1>4. v.order = view.order /\ v.known = view.known /\ v.open = view.open
  BY <1>3 DEF Alters, Fields, Counted, Refreshed
<1>5. Sound(v) /\ v.hidden \subseteq People
  BY <1>3 DEF Sound, Kept, Views
<1>6. QED
  BY <1>1, <1>2, <1>3, <1>4, <1>5, ClosedHolds

\* Hiding the own tile.
LEMMA MenuSelfHolds ==
  ASSUME StageInv, MenuSelf
  PROVE  StageInv'
<1> DEFINE v == SetSelf(view, FALSE)
<1>1. view' = CloseMenu(v) /\ Act /\ Noted
  BY DEF MenuSelf
<1>2. Sound(view) /\ view.known
  BY <1>1, ActStarts
<1>3. /\ Kept(v) /\ OwnPin(v) /\ Paged(v) /\ Drawn(v) /\ Focused(v) /\ Paired(v)
      /\ Alters(v, view, Counted \union {"self"})
      /\ view.open => Asked(v)
      /\ ToSet(v.pins) \subseteq ToSet(view.pins) \union Tiles(view)
  BY <1>2, SetSelfKeeps DEF Sound
<1> HIDE DEF v
<1>4. v.order = view.order /\ v.known = view.known /\ v.open = view.open
  BY <1>3 DEF Alters, Fields, Counted, Refreshed
<1>5. Sound(v) /\ v.hidden \subseteq People
  BY <1>3 DEF Sound, Kept, Views
<1>6. QED
  BY <1>1, <1>3, <1>4, <1>5, ClosedHolds

\* An expanded tile is one that is shown.
LEMMA FocusAlters ==
  ASSUME NEW v, Sound(v), NEW p \in Somebody, p # None => p \in v.shown
  PROVE  LET w == [v EXCEPT !.focus = p] IN
         Sound(w) /\ Alters(w, v, {"focus"}) /\ (Asked(v) => Asked(w))
<1> DEFINE w == [v EXCEPT !.focus = p]
<1>1. v \in Views
  BY DEF Sound, Kept
<1>2. Alters(w, v, {"focus"}) /\ w.focus = p
  <2>1. w \in Views /\ w.focus = p
    BY <1>1 DEF Views
  <2>2. \A f \in Fields \ {"focus"} : w[f] = v[f]
    BY <1>1 DEF Views, Fields
  <2>3. QED
    BY <2>1, <2>2 DEF Alters
<1> HIDE DEF w
<1>3. w.shown = v.shown
  BY <1>2 DEF Alters, Fields
<1>4. Focused(w)
  BY <1>2, <1>3 DEF Focused
<1>5. Kept(w) /\ OwnPin(w) /\ Paged(w) /\ Drawn(w) /\ Paired(w) /\ (Asked(v) => Asked(w))
  BY <1>2, Untouched DEF Sound
<1>6. QED
  BY <1>2, <1>4, <1>5 DEF Sound, w

\* Only a tile that is shown is expanded.
LEMMA MenuExpandHolds ==
  ASSUME StageInv, MenuExpand
  PROVE  StageInv'
<1> DEFINE p == view.menu
           allowed == p \in view.shown \ view.hidden /\ (p = Self => view.self)
           focus == IF view.focus = p THEN None ELSE IF allowed THEN p ELSE view.focus
           v == [view EXCEPT !.focus = focus]
<1>1. view' = CloseMenu(v) /\ Act /\ Noted
  BY DEF MenuExpand
<1>2. Sound(view) /\ view \in Views /\ (view.open => Asked(view))
      /\ ToSet(view.pins) \subseteq ToSet(view.pins) \union Tiles(view)
  BY <1>1, ActStarts
<1>3. focus \in Somebody /\ (focus # None => focus \in view.shown)
  BY <1>2 DEF Views, Somebody, Sound, Focused
<1> HIDE DEF focus
<1>4. Sound(v) /\ Alters(v, view, {"focus"}) /\ (Asked(view) => Asked(v))
  BY <1>2, <1>3, FocusAlters
<1> HIDE DEF v
<1>5. /\ v.order = view.order /\ v.known = view.known /\ v.open = view.open
      /\ v.pins = view.pins /\ v.hidden \subseteq People
  BY <1>2, <1>4 DEF Alters, Fields, Views
<1>6. QED
  BY <1>1, <1>2, <1>4, <1>5, ClosedHolds

\* No tile is expanded any more.
LEMMA ExitExpandedHolds ==
  ASSUME StageInv, ExitExpanded
  PROVE  StageInv'
<1> DEFINE w == [view EXCEPT !.focus = None]
<1>1. view' = w /\ Act /\ Noted
  BY DEF ExitExpanded
<1>2. /\ Self \in Tiles(view) /\ Sound(view) /\ (view.open => Asked(view))
      /\ acts' \in 0 .. MaxActs
      /\ UNCHANGED left /\ view.menu \notin view.hidden
      /\ ToSet(view.pins) \subseteq ToSet(view.pins) \union Tiles(view)
  BY <1>1, ActStarts
<1>3. Sound(w) /\ Alters(w, view, {"focus"}) /\ (Asked(view) => Asked(w))
  BY <1>2, FocusAlters DEF Somebody
<1> HIDE DEF w
<1>4. /\ w.order = view.order /\ w.known = view.known /\ w.open = view.open
      /\ w.pins = view.pins /\ w.hidden = view.hidden /\ w.menu = view.menu
  BY <1>3 DEF Alters, Fields
<1>5. QED
  BY <1>1, <1>2, <1>3, <1>4, SameTilesHold

\* A hidden tile is shown again.
LEMMA ShowTileHolds ==
  ASSUME StageInv, NEW p \in People \ {Self}, ShowTile(p)
  PROVE  StageInv'
<1> DEFINE w == UnhideTile(view, p)
<1>1. view' = w /\ Act /\ Noted /\ p \in view.hidden /\ p \in Tiles(view)
  BY DEF ShowTile
<1>2. /\ Self \in Tiles(view) /\ Sound(view) /\ view.known /\ acts' \in 0 .. MaxActs
      /\ UNCHANGED left /\ view.menu \notin view.hidden /\ None \notin view.hidden
  BY <1>1, ActStarts
<1>3. /\ Kept(w) /\ OwnPin(w) /\ Paged(w) /\ Drawn(w) /\ Focused(w) /\ Paired(w)
      /\ Alters(w, view, Refreshed \union {"hidden"}) /\ w.hidden \subseteq view.hidden
      /\ view.open /\ view.known => Asked(w)
      /\ w.menu \in {view.menu, None}
  BY <1>1, <1>2, UnhideTileKeeps DEF Sound
<1> HIDE DEF w
<1>4. w.order = view.order /\ w.known = view.known /\ w.open = view.open /\ w.pins = view.pins
  BY <1>3 DEF Alters, Fields, Refreshed
<1>5. Sound(w) /\ w.menu \notin w.hidden
  BY <1>2, <1>3 DEF Sound
<1>6. QED
  BY <1>1, <1>2, <1>3, <1>4, <1>5, SameTilesHold

\* The own tile is hidden or shown.
LEMMA ToggleSelfViewHolds ==
  ASSUME StageInv, ToggleSelfView
  PROVE  StageInv'
<1> DEFINE on == ~view.self
           w == SetSelf(view, on)
<1>1. view' = w /\ Act /\ Noted
  BY DEF ToggleSelfView
<1>2. /\ Self \in Tiles(view) /\ Sound(view) /\ view.known /\ acts' \in 0 .. MaxActs
      /\ UNCHANGED left /\ view.menu \notin view.hidden /\ None \notin view.hidden
  BY <1>1, ActStarts
<1>3. on \in BOOLEAN
  OBVIOUS
<1> HIDE DEF on
<1>4. /\ Kept(w) /\ OwnPin(w) /\ Paged(w) /\ Drawn(w) /\ Focused(w) /\ Paired(w)
      /\ Alters(w, view, Counted \union {"self"})
      /\ view.open => Asked(w)
      /\ ToSet(w.pins) \subseteq ToSet(view.pins) \union Tiles(view)
      /\ w.menu \in {view.menu, None}
  BY <1>2, <1>3, SetSelfKeeps DEF Sound
<1> HIDE DEF w
<1>5. w.order = view.order /\ w.known = view.known /\ w.open = view.open /\ w.hidden = view.hidden
  BY <1>4 DEF Alters, Fields, Counted, Refreshed
<1>6. Sound(w) /\ w.menu \notin w.hidden
  BY <1>2, <1>4, <1>5 DEF Sound
<1>7. QED
  BY <1>1, <1>2, <1>4, <1>5, <1>6, SameTilesHold

\* Incoming video is switched: the same tiles, another subscription.
LEMMA ToggleReceiveHolds ==
  ASSUME StageInv, ToggleReceive
  PROVE  StageInv'
<1> DEFINE on == ~view.receive
           v == [view EXCEPT !.receive = on]
           w == Paginate(v)
<1>1. view' = w /\ Act /\ Noted
  BY DEF ToggleReceive
<1>2. /\ Self \in Tiles(view) /\ Sound(view) /\ view.known /\ acts' \in 0 .. MaxActs
      /\ view \in Views
      /\ UNCHANGED left /\ view.menu \notin view.hidden /\ None \notin view.hidden
      /\ ToSet(view.pins) \subseteq ToSet(view.pins) \union Tiles(view)
  BY <1>1, ActStarts
<1>3. on \in BOOLEAN
  OBVIOUS
<1> HIDE DEF on
<1>4. Alters(v, view, {"receive"})
  <2>1. v \in Views
    BY <1>2, <1>3 DEF Views
  <2>2. \A f \in Fields \ {"receive"} : v[f] = view[f]
    BY <1>2 DEF Views, Fields
  <2>3. QED
    BY <2>1, <2>2 DEF Alters
<1> HIDE DEF v
<1>5. Kept(v) /\ OwnPin(v) /\ Paged(v) /\ Drawn(v) /\ Focused(v) /\ Paired(v)
  BY <1>2, <1>4, Untouched DEF Sound
<1>6. /\ v.open = view.open /\ v.known = view.known /\ v.menu = view.menu
  BY <1>4 DEF Alters, Fields
<1>7. /\ Kept(w) /\ Paged(w) /\ Alters(w, v, {"page", "shown", "menu", "sent"})
      /\ v.open /\ v.known => Asked(w)
      /\ w.menu \in {v.menu, None}
      /\ w.shown = v.shown
      /\ Drawn(w) /\ Paired(w)
  BY <1>5, PaginateKeeps
<1> HIDE DEF w
<1>8. w.focus = v.focus /\ w.pins = v.pins /\ w.self = v.self
  BY <1>7 DEF Alters, Fields
<1>9. Sound(w)
  BY <1>5, <1>7, <1>8 DEF Sound, Focused, OwnPin
<1>10. /\ w.order = view.order /\ w.known = view.known /\ w.open = view.open /\ w.pins = view.pins
       /\ w.hidden = view.hidden
  BY <1>4, <1>7 DEF Alters, Fields
<1>11. w.menu \notin w.hidden
  BY <1>2, <1>6, <1>7, <1>10
<1>12. QED
  BY <1>1, <1>2, <1>6, <1>7, <1>9, <1>10, <1>11, SameTilesHold

\* Another page, which the pagination may correct.
LEMMA TurnPageHolds ==
  ASSUME StageInv, NEW d \in {-1, 1}, TurnPage(d)
  PROVE  StageInv'
<1> DEFINE turned == view.page + d
           v == [view EXCEPT !.page = turned]
           w == Paginate(v)
<1>1. view' = w /\ Act /\ Noted /\ view.focus = None /\ turned \in 0 .. LastPage(Listed(view))
  BY DEF TurnPage
<1>2. /\ Self \in Tiles(view) /\ Sound(view) /\ view.known /\ acts' \in 0 .. MaxActs
      /\ view \in Views
      /\ UNCHANGED left /\ view.menu \notin view.hidden /\ None \notin view.hidden
      /\ ToSet(view.pins) \subseteq ToSet(view.pins) \union Tiles(view)
  BY <1>1, ActStarts
<1>3. turned \in Nat
  <2>1. LastPage(Listed(view)) \in Nat
    BY <1>2, ListedTiles, LastPageIsNat
  <2> HIDE DEF turned
  <2>2. QED
    BY <1>1, <2>1
<1> HIDE DEF turned
<1>4. Alters(v, view, {"page"})
  <2>1. v \in Views
    BY <1>2, <1>3 DEF Views
  <2>2. \A f \in Fields \ {"page"} : v[f] = view[f]
    BY <1>2 DEF Views, Fields
  <2>3. QED
    BY <2>1, <2>2 DEF Alters
<1> HIDE DEF v
<1>5. Kept(v) /\ OwnPin(v) /\ Drawn(v) /\ Paired(v)
  BY <1>2, <1>4, Untouched DEF Sound
<1>6. /\ v.open = view.open /\ v.known = view.known /\ v.menu = view.menu /\ v.focus = None
  BY <1>1, <1>4 DEF Alters, Fields
<1>7. /\ Kept(w) /\ Paged(w) /\ Alters(w, v, {"page", "shown", "menu", "sent"})
      /\ v.open /\ v.known => Asked(w)
      /\ w.menu \in {v.menu, None}
      /\ Drawn(w) /\ Paired(w)
  BY <1>5, PaginateKeeps
<1> HIDE DEF w
<1>8. w.focus = v.focus /\ w.pins = v.pins /\ w.self = v.self
  BY <1>7 DEF Alters, Fields
<1>9. Sound(w)
  BY <1>5, <1>6, <1>7, <1>8 DEF Sound, Focused, OwnPin
<1>10. /\ w.order = view.order /\ w.known = view.known /\ w.open = view.open /\ w.pins = view.pins
       /\ w.hidden = view.hidden
  BY <1>4, <1>7 DEF Alters, Fields
<1>11. w.menu \notin w.hidden
  BY <1>2, <1>6, <1>7, <1>10
<1>12. QED
  BY <1>1, <1>2, <1>6, <1>7, <1>9, <1>10, <1>11, SameTilesHold

\* ForgetHidden asks for less: for the tiles that are shown.
LEMMA SetLayerHolds ==
  ASSUME StageInv, NEW l \in Layers, SetLayer(l)
  PROVE  StageInv'
<1> DEFINE v == [view EXCEPT !.layer = l]
           ids == {p \in v.shown : ~IsSelf(v, p)}
           w == Subscribe(v, ids)
<1>1. view' = w /\ Act /\ Noted /\ Simulcast
  BY DEF SetLayer, ForgetHidden
<1>2. /\ Self \in Tiles(view) /\ Sound(view) /\ view.known /\ acts' \in 0 .. MaxActs
      /\ view \in Views
      /\ UNCHANGED left /\ view.menu \notin view.hidden
      /\ ToSet(view.pins) \subseteq ToSet(view.pins) \union Tiles(view)
  BY <1>1, ActStarts
<1>3. Alters(v, view, {"layer"})
  <2>1. v \in Views
    BY <1>2 DEF Views
  <2>2. \A f \in Fields \ {"layer"} : v[f] = view[f]
    BY <1>2 DEF Views, Fields
  <2>3. QED
    BY <2>1, <2>2 DEF Alters
<1> HIDE DEF v
<1>4. Kept(v) /\ OwnPin(v) /\ Paged(v) /\ Drawn(v) /\ Focused(v) /\ Paired(v)
      /\ Tiles(v) = Tiles(view)
  BY <1>2, <1>3, Untouched DEF Sound
<1>5. v.known /\ v.open = view.open /\ v \in Views
  BY <1>2, <1>3 DEF Alters, Fields
<1>6. ids = v.shown \ {Self} /\ ids \subseteq People
  BY <1>5 DEF IsSelf, Views
<1> HIDE DEF ids
<1>7. /\ Alters(w, v, {"sent"})
      /\ w.sent = IF v.open /\ v.known THEN IF v.receive THEN ids ELSE {} ELSE v.sent
  BY <1>5, <1>6, SubscribeKeeps
<1> HIDE DEF w
<1>8. OwnPin(w) /\ Paged(w) /\ Drawn(w) /\ Focused(w) /\ Paired(w) /\ Tiles(w) = Tiles(v)
  BY <1>4, <1>7, Untouched
<1>9. /\ w \in Views /\ w.order = v.order /\ w.pins = v.pins /\ w.auto = v.auto
      /\ w.hidden = v.hidden /\ w.shown = v.shown /\ w.receive = v.receive /\ w.open = v.open
  BY <1>7 DEF Alters, Fields
<1>10. Kept(w)
  BY <1>4, <1>6, <1>7, <1>9 DEF Kept
<1>11. w.open => Asked(w)
  BY <1>1, <1>5, <1>6, <1>7, <1>9 DEF Asked
<1>12. /\ w.order = view.order /\ w.known = view.known /\ w.pins = view.pins
       /\ w.hidden = view.hidden /\ w.menu = view.menu
  BY <1>3, <1>7 DEF Alters, Fields
<1>13. QED
  BY <1>1, <1>2, <1>8, <1>10, <1>11, <1>12, SameTilesHold DEF Sound

----------------------------------------------------------------------------
(* The connection.                                                         *)

\* A step after which there is no tile.
LEMMA ClearedHolds ==
  ASSUME StageInv, Noted, NEW w, view' = w, Good(w), w.pins = <<>>, left' = {},
         acts' \in 0 .. MaxActs
  PROVE  StageInv'
<1>1. ToSet(w.pins) = {}
  BY NoElements
<1>2. QED
  BY <1>1, LateHolds

\* The connection ended: no tile, no pin.
LEMMA ResetHolds ==
  ASSUME StageInv, Reset
  PROVE  StageInv'
<1> DEFINE c == PinsCleared(view)
           w == [c EXCEPT !.owner = None]
<1>1. view' = w /\ view.order # <<>> /\ left' = {} /\ acts' = acts /\ Noted
  BY DEF Reset
<1>2. Good(view) /\ Kept(view) /\ view.known
  BY <1>1 DEF StageInv, Good
<1>3. /\ Alters(c, view, {"order", "pins", "page", "shown", "placed", "menu", "orphan", "sent"})
      /\ c.order = <<>> /\ c.pins = <<>> /\ c.page = 0 /\ c.shown = {} /\ c.menu = None
      /\ c.auto # Self /\ (c.sent = {None} \/ c.sent \subseteq People \ {Self})
      /\ \A p \in People : c.placed[p] = "none"
  BY <1>2, PinsClearedAlters
<1> HIDE DEF c
<1>4. c \in Views /\ c.known = view.known
  BY <1>3 DEF Alters, Fields
<1>5. Alters(w, c, {"owner"})
  <2>1. w \in Views
    BY <1>4 DEF Views, Somebody
  <2>2. \A f \in Fields \ {"owner"} : w[f] = c[f]
    BY <1>4 DEF Views, Fields
  <2>3. QED
    BY <2>1, <2>2 DEF Alters
<1> HIDE DEF w
<1>6. /\ w \in Views /\ w.order = c.order /\ w.pins = c.pins /\ w.page = c.page
      /\ w.shown = c.shown /\ w.menu = c.menu /\ w.auto = c.auto /\ w.sent = c.sent
      /\ w.placed = c.placed /\ w.known = c.known
  BY <1>5 DEF Alters, Fields
<1>7. Good(w)
  BY <1>2, <1>3, <1>4, <1>6, ClearedIsGood
<1>8. QED
  BY <1>1, <1>3, <1>6, <1>7, ClearedHolds DEF StageInv

\* The user left: nothing of the meeting remains.
LEMMA LeaveMeetingHolds ==
  ASSUME StageInv, LeaveMeeting
  PROVE  StageInv'
<1> DEFINE v == [view EXCEPT !.open = FALSE]
           c == PinsCleared(v)
           nobody == {}
           w == [c EXCEPT !.known = FALSE, !.hidden = nobody, !.receive = TRUE, !.layer = "medium",
                          !.owner = None, !.auto = None, !.dismissed = nobody, !.focus = None]
<1>1. view' = w /\ acts < MaxActs /\ acts' = acts + 1 /\ left' = {} /\ Noted
  BY DEF LeaveMeeting
<1>2. Kept(view) /\ view \in Views /\ acts' \in 0 .. MaxActs
  BY <1>1, StageAssumptions DEF StageInv, Good, Kept
<1>3. Alters(v, view, {"open"})
  <2>1. v \in Views
    BY <1>2 DEF Views
  <2>2. \A f \in Fields \ {"open"} : v[f] = view[f]
    BY <1>2 DEF Views, Fields
  <2>3. QED
    BY <2>1, <2>2 DEF Alters
<1> HIDE DEF v
<1>4. Kept(v)
  BY <1>2, <1>3, Untouched
<1>5. /\ Alters(c, v, {"order", "pins", "page", "shown", "placed", "menu", "orphan", "sent"})
      /\ c.order = <<>> /\ c.pins = <<>> /\ c.page = 0 /\ c.shown = {} /\ c.menu = None
      /\ (c.sent = {None} \/ c.sent \subseteq People \ {Self})
      /\ \A p \in People : c.placed[p] = "none"
  BY <1>4, PinsClearedAlters
<1> HIDE DEF c
<1>6. c \in Views
  BY <1>5 DEF Alters
<1>7. nobody \subseteq People \ {Self} /\ nobody \subseteq People
  OBVIOUS
<1> HIDE DEF nobody
<1>8. w \in Views /\ w.auto = None /\ w.focus = None
  BY <1>6, <1>7 DEF Views, Somebody, Layers
<1>9. \A f \in Fields \ {"known", "hidden", "receive", "layer", "owner", "auto", "dismissed", "focus"} :
        w[f] = c[f]
  BY <1>6 DEF Views, Fields
<1> HIDE DEF w
<1>10. /\ w.order = c.order /\ w.pins = c.pins /\ w.page = c.page
       /\ w.shown = c.shown /\ w.menu = c.menu /\ w.sent = c.sent /\ w.placed = c.placed
  BY <1>9 DEF Fields
<1>11. Good(w)
  BY <1>5, <1>8, <1>10, StageAssumptions, ClearedIsGood
<1>12. QED
  BY <1>1, <1>2, <1>5, <1>10, <1>11, ClearedHolds

----------------------------------------------------------------------------
(* Theorems.                                                               *)

\* The page starts without a tile.
LEMMA StageStarts == StageInit => StageInv
<1> SUFFICES ASSUME StageInit PROVE StageInv
  OBVIOUS
<1> DEFINE placed == [p \in People |-> "none"]
           empty == <<>>
           none == {}
           asked == {None}
           v == [order |-> empty, known |-> FALSE, open |-> FALSE, pins |-> empty, auto |-> None,
                 dismissed |-> none, hidden |-> none, self |-> TRUE, receive |-> TRUE,
                 layer |-> "medium", owner |-> None, page |-> 0, shown |-> none,
                 placed |-> placed, mode |-> "grid", focus |-> None,
                 menu |-> None, orphan |-> FALSE, sent |-> asked]
<1>1. view = v /\ left = {} /\ late = {} /\ acts = 0
  BY DEF StageInit
<1>2. empty \in Seq(People) /\ placed \in [People -> Places] /\ none \subseteq People
      /\ none \subseteq People \ {Self} /\ asked \subseteq Somebody
      /\ \A p \in People : placed[p] = "none"
  BY DEF Places, Somebody
<1> HIDE DEF placed, empty, none, asked
<1>3. /\ v.order = empty /\ v.pins = empty /\ v.page = 0 /\ v.shown = none /\ v.menu = None
      /\ v.auto = None /\ v.sent = asked /\ v.placed = placed /\ v.focus = None
  OBVIOUS
<1>4. v \in Views
  BY <1>2 DEF Views, Somebody, Layers
<1> HIDE DEF v
<1>5. Good(v)
  BY <1>2, <1>3, <1>4, StageAssumptions, ClearedIsGood DEF empty, none, asked
<1>6. ToSet(v.pins) = {}
  BY <1>3, NoElements DEF empty
<1>7. QED
  BY <1>1, <1>5, <1>6, StageAssumptions DEF StageInv

\* Every step of the stage keeps its invariant.
LEMMA StageHolds == StageInv /\ [StageNext]_stageVars => StageInv'
<1> SUFFICES ASSUME StageInv, [StageNext]_stageVars PROVE StageInv'
  OBVIOUS
<1>1. CASE Admitted
  BY <1>1, AdmittedHolds
<1>2. CASE Opened
  BY <1>2, OpenedHolds
<1>3. CASE Drop
  BY <1>3, DropHolds
<1>4. CASE Reset
  BY <1>4, ResetHolds
<1>5. CASE SpeakerChanges
  BY <1>5, SpeakerHolds
<1>6. ASSUME NEW p \in People \ {Self}, Arrives(p)
      PROVE  StageInv'
  BY <1>6, ArrivesHolds
<1>7. ASSUME NEW p \in People \ {Self}, Returns(p)
      PROVE  StageInv'
  BY <1>7, ReturnsHolds
<1>8. ASSUME NEW p \in People \ {Self}, Leaves(p)
      PROVE  StageInv'
  BY <1>8, LeavesHolds
<1>9. ASSUME NEW p \in People \ {Self}, TileRemoved(p)
      PROVE  StageInv'
  BY <1>9, TileRemovedHolds
<1>10. ASSUME NEW p \in People \ {Self}, ShowTile(p)
       PROVE  StageInv'
  BY <1>10, ShowTileHolds
<1>11. ASSUME NEW o \in People \union {None}, ScreenState(o)
       PROVE  StageInv'
  BY <1>11, ScreenStateHolds DEF Somebody
<1>12. ASSUME NEW p \in People, OpenMenu(p)
       PROVE  StageInv'
  BY <1>12, OpenMenuHolds
<1>13. CASE DismissMenu
  BY <1>13, DismissMenuHolds
<1>14. CASE MenuPin
  BY <1>14, MenuPinHolds
<1>15. CASE MenuHide
  BY <1>15, MenuHideHolds
<1>16. CASE MenuSelf
  BY <1>16, MenuSelfHolds
<1>17. CASE MenuExpand
  BY <1>17, MenuExpandHolds
<1>18. CASE ExitExpanded
  BY <1>18, ExitExpandedHolds
<1>19. CASE ToggleSelfView
  BY <1>19, ToggleSelfViewHolds
<1>20. CASE ToggleReceive
  BY <1>20, ToggleReceiveHolds
<1>21. CASE LeaveMeeting
  BY <1>21, LeaveMeetingHolds
<1>22. ASSUME NEW d \in {-1, 1}, TurnPage(d)
       PROVE  StageInv'
  BY <1>22, TurnPageHolds
<1>23. ASSUME NEW l \in Layers, SetLayer(l)
       PROVE  StageInv'
  BY <1>23, SetLayerHolds
<1>24. CASE UNCHANGED stageVars
  BY <1>24 DEF StageInv, stageVars
<1>25. QED
  BY <1>1, <1>2, <1>3, <1>4, <1>5, <1>6, <1>7, <1>8, <1>9, <1>10, <1>11, <1>12, <1>13, <1>14,
     <1>15,
     <1>16, <1>17, <1>18, <1>19, <1>20, <1>21, <1>22, <1>23, <1>24 DEF StageNext

\* A sequence of two.
LEMMA TwoElements ==
  ASSUME NEW s \in Seq(People), Len(s) = 2, NEW p \in ToSet(s), NEW q \in ToSet(s), p # q
  PROVE  ToSet(s) = {p, q}
<1>1. DOMAIN s = 1 .. 2
  OBVIOUS
<1>2. \A i \in 1 .. 2 : i = 1 \/ i = 2
  OBVIOUS
<1>3. ToSet(s) \subseteq {s[1], s[2]}
  BY <1>1, <1>2 DEF ToSet
<1>4. QED
  BY <1>3

\* What the invariant says in the terms of the four properties.
LEMMA StageIsTrue == StageInv => StageTypeOK /\ PinsAreShown /\ FocusIsShown /\ SubscriptionsMatch
<1> SUFFICES ASSUME StageInv PROVE StageTypeOK /\ PinsAreShown /\ FocusIsShown
/\ SubscriptionsMatch
  OBVIOUS
<1>1. Good(view) /\ Kept(view) /\ Paged(view) /\ view \in Views
  BY DEF StageInv, Good, Kept
<1>2. StageTypeOK
  <2>1. view.page \in 0 .. LastPage(Listed(view)) /\ view.shown \subseteq Tiles(view)
    BY <1>1, PageAfterIsPage, ShownTiles DEF Paged
  <2>2. view.known \in BOOLEAN /\ view.open \in BOOLEAN /\ view.self \in BOOLEAN
        /\ view.receive \in BOOLEAN /\ view.orphan \in BOOLEAN
    BY <1>1 DEF Views
  <2>3. {view.known, view.open, view.self, view.receive, view.orphan} \subseteq BOOLEAN
    BY <2>2
  <2>4. \A p \in People : view.placed[p] = "none" <=> p \notin Tiles(view)
    BY <1>1 DEF Good, Drawn
  <2>5. ViewType(view)
    BY <1>1, <2>1, <2>3, <2>4 DEF ViewType, Views, Somebody, Places, Kept
  <2>6. QED
    BY <1>1, <2>5 DEF StageTypeOK, StageInv, Kept
<1>3. ASSUME Self \in Tiles(view)
      PROVE  PinsAreShown /\ FocusIsShown /\ SubscriptionsMatch
  <2>1. Sound(view) /\ (view.open => Asked(view))
    BY <1>1, <1>3, InMeeting
  <2>2. view.shown \intersect view.hidden = {}
    BY <1>1, ShownTiles DEF Paged
  <2>3. FocusIsShown
    BY <2>1, <2>2 DEF FocusIsShown, Sound, Focused, Paged
  <2>4. SubscriptionsMatch
    BY <2>1 DEF SubscriptionsMatch, Asked, Joined
  <2>5. ASSUME NEW p \in ToSet(view.pins) \ late
        PROVE  p \in view.shown \ view.hidden /\ view.placed[p] = "main" /\ view.mode = "pinned"
    <3>1. p \in Tiles(view) /\ p \notin view.hidden /\ (p = Self => view.self)
      BY <2>1 DEF StageInv, Sound, Kept, OwnPin
    <3>2. p \in view.shown
      BY <1>1, <3>1 DEF Paged, Shown, IsSelf
    <3>3. QED
      BY <2>1, <3>1, <3>2 DEF Sound, Drawn
  <2>6. ASSUME view.auto # None
        PROVE  Tiles(view) = {Self, view.auto} /\ view.auto \in ToSet(view.pins)
    <3>1. /\ view.pins = <<view.auto>> /\ view.auto \in Tiles(view) /\ Len(view.order) = 2
          /\ view.auto \in People /\ view.auto # Self /\ view.order \in Seq(People)
      BY <1>1, <2>1, <2>6 DEF Sound, Paired, Kept, Views, Somebody
    <3>2. view.auto \in ToSet(view.pins)
      BY <3>1, OnePin
    <3>3. Tiles(view) = {Self, view.auto}
      BY <1>3, <3>1, TwoElements DEF Tiles
    <3>4. QED
      BY <3>2, <3>3
  <2>7. QED
    BY <2>3, <2>4, <2>5, <2>6 DEF PinsAreShown
<1>4. ASSUME Self \notin Tiles(view)
      PROVE  PinsAreShown /\ FocusIsShown /\ SubscriptionsMatch
  BY <1>4 DEF PinsAreShown, FocusIsShown, SubscriptionsMatch, Joined
<1>5. QED
  BY <1>2, <1>3, <1>4

\* The stage of the meeting page keeps its invariant.
LEMMA StageInvHolds == MeetingPageSpec => []StageInv
<1>1. MeetingPageInit => StageInv
  BY StageStarts DEF MeetingPageInit
<1>2. StageInv /\ [MeetingPageNext]_meetingPageVars => StageInv'
  BY StageHolds DEF MeetingPageNext, meetingPageVars
<1>3. QED
  BY <1>1, <1>2, PTL DEF MeetingPageSpec

\* Its chat is the chat of ChatPage.
LEMMA ChatIsThere == MeetingPageSpec => PageSpec
<1>1. MeetingPageInit => InitPage
  BY DEF MeetingPageInit
<1>2. [MeetingPageNext]_meetingPageVars => [NextPage]_allVars
  BY DEF MeetingPageNext, meetingPageVars
<1>3. QED
  BY <1>1, <1>2, PTL DEF MeetingPageSpec, PageSpec

\* On every screen, of every size, whatever happens: the chat shows what there is,
\* a page exists, a pin has its tile, which is in the main area, the automatic pin
\* exists in a pair only, and an expanded tile is one that is shown (app.js,
\* updateParticipantCount, updateParticipantPagination, renderMeetingLayout).
THEOREM ThePageIsTrue == MeetingPageSpec => []MeetingPageInv
<1>1. StageInv /\ PageCorrect /\ HistoryIsTail => MeetingPageInv
  BY StageIsTrue DEF MeetingPageInv, PageCorrect
<1>2. QED
  BY <1>1, StageInvHolds, ChatIsThere, PageIsTrue, PTL

\* The last subscription of the socket asks for the cameras of the remote tiles
\* that are shown, and of no other but hidden ones; with incoming video off, for
\* none (updateParticipantPagination, sendVideoSubscriptions).
THEOREM SubscriptionsAreRight == MeetingPageSpec => []SubscriptionsMatch
<1>1. StageInv => SubscriptionsMatch
  BY StageIsTrue
<1>2. QED
  BY <1>1, StageInvHolds, PTL

\* Around the page, too, every retained message arrives, and once (AtMostOnce,
\* RetainedReachesAll: recordAndBroadcastChat, the replay of a join).
THEOREM NoLineTwice == MeetingPageSpec => [](AtMostOnce /\ RetainedReachesAll)
BY ChatIsThere, PageIsInTheRoom, NoMessageTwice, RetainedMessagesArrive, PTL
=============================================================================
