----------------------------- MODULE MpscProofs -----------------------------
(***************************************************************************)
(* The channel of Mpsc for every number of senders and every capacity: it  *)
(* implements BoundedChannel, and no wakeup is lost.                       *)
(*                                                                         *)
(* The counters are tied to the handles and permits they count, the waiter *)
(* queue to the tasks that wait, and the receiver's waker to the receiver. *)
(***************************************************************************)
EXTENDS Mpsc, TLAPS, FiniteSetTheorems, WellFoundedInduction

ST == INSTANCE SequenceTheorems

\* A nonempty set of positions has a least one.
LEMMA LeastPosition ==
    ASSUME NEW I \in SUBSET Nat, I # {}
    PROVE  Min(I) \in I
<1>. DEFINE R == OpToRel(<, Nat)
<1>1. PICK x \in I : \A y \in I : ~(<<y, x>> \in R)
  BY WFMin, NatLessThanWellFounded
<1>2. ASSUME NEW y \in I PROVE x <= y
  <2>1. <<y, x>> \in Nat \X Nat /\ <<y, x>>[1] = y /\ <<y, x>>[2] = x
    OBVIOUS
  <2>2. y < x => <<y, x>> \in R
    BY <2>1, Zenon DEF OpToRel
  <2>. HIDE DEF R
  <2>3. ~(y < x)
    BY <1>1, <2>2, Zenon
  <2>4. x \in Nat /\ y \in Nat
    OBVIOUS
  <2>. QED
    BY <2>3, <2>4
<1>. QED
  BY <1>2 DEF Min

\* The rest is the sequence without its element at position i.
WithoutAt(seq, i, rest) ==
    \A j \in 1 .. Len(seq) - 1 : rest[j] = IF j < i THEN seq[j] ELSE seq[j + 1]

LEMMA RemoveAtProperties ==
    ASSUME NEW S, NEW seq \in Seq(S), NEW i \in 1 .. Len(seq)
    PROVE  /\ RemoveAt(seq, i) \in Seq(S)
           /\ Len(RemoveAt(seq, i)) = Len(seq) - 1
           /\ WithoutAt(seq, i, RemoveAt(seq, i))
<1>. DEFINE front == SubSeq(seq, 1, i - 1)
           back == SubSeq(seq, i + 1, Len(seq))
<1>1. Len(seq) \in Nat /\ RemoveAt(seq, i) = front \o back
  BY DEF RemoveAt
<1>2. /\ front \in Seq(S)
      /\ Len(front) = i - 1
      /\ \A j \in 1 .. i - 1 : front[j] = seq[j]
  BY <1>1
<1>3. /\ back \in Seq(S)
      /\ Len(back) = Len(seq) - i
      /\ \A j \in 1 .. Len(seq) - i : back[j] = seq[i + j]
  BY <1>1
<1>. HIDE DEF front, back
<1>4. /\ front \o back \in Seq(S)
      /\ Len(front \o back) = Len(front) + Len(back)
      /\ \A j \in 1 .. Len(front) + Len(back) :
           (front \o back)[j] = IF j <= Len(front) THEN front[j] ELSE back[j - Len(front)]
  BY <1>2, <1>3, ST!ConcatProperties
<1>5. Len(front) + Len(back) = Len(seq) - 1
  BY <1>1, <1>2, <1>3
<1>6. ASSUME NEW j \in 1 .. Len(seq) - 1
      PROVE  (front \o back)[j] = IF j < i THEN seq[j] ELSE seq[j + 1]
  <2>1. CASE j < i
    BY <1>1, <1>2, <1>4, <1>5, <2>1
  <2>2. CASE ~(j < i)
    <3>1. j - Len(front) \in 1 .. Len(seq) - i /\ ~(j <= Len(front))
      BY <1>1, <1>2, <2>2
    <3>2. back[j - Len(front)] = seq[i + (j - Len(front))]
      BY <1>3, <3>1
    <3>3. i + (j - Len(front)) = j + 1
      BY <1>1, <1>2
    <3>. QED
      BY <1>4, <1>5, <2>2, <3>1, <3>2, <3>3
  <2>. QED
    BY <2>1, <2>2
<1>. QED
  BY <1>1, <1>4, <1>5, <1>6 DEF WithoutAt

\* What is left of the queue when remove_waiter_token has removed a waiter.
LEMMA RemoveFirstProperties ==
    ASSUME NEW S, NEW seq \in Seq(S), NEW e, Contains(seq, e)
    PROVE  /\ RemoveFirst(seq, e) \in Seq(S)
           /\ Len(RemoveFirst(seq, e)) = Len(seq) - 1
           /\ \E i \in 1 .. Len(seq) : seq[i] = e /\ WithoutAt(seq, i, RemoveFirst(seq, e))
<1>. DEFINE I == {i \in 1 .. Len(seq) : seq[i] = e}
           first == Min(I)
<1>1. Len(seq) \in Nat /\ I \in SUBSET Nat /\ I # {}
  BY DEF Contains
<1>2. first \in I
  BY <1>1, LeastPosition
<1>3. RemoveFirst(seq, e) = RemoveAt(seq, first)
  BY <1>1 DEF RemoveFirst, SelectInSeq, Contains
<1>. HIDE DEF first
<1>. QED
  BY <1>2, <1>3, RemoveAtProperties

-----------------------------------------------------------------------------
Permits == {s \in Senders : pc[s] = "permit"}
Live == {s \in Senders : pc[s] \in {"idle", "reserving", "permit"}}

\* Senders do not receive and the receiver does not send.
Roles ==
    /\ \A s \in Senders : pc[s] # "receiving"
    /\ pc[Recv] \in {"idle", "receiving", "none"}

\* The counters count what they are meant to count, and the slots are enough.
Counts ==
    /\ reserved = Cardinality(Permits)
    /\ count = Cardinality(Live)
    /\ Len(queue) + reserved <= Capacity

\* Disconnected is said only when nobody can send any more.
EndFinal == ended => queue = <<>> /\ (closed \/ count = 0)

Unique(ws) == \A i, j \in 1 .. Len(ws) : ws[i] = ws[j] => i = j

\* Whoever waits is in the queue, once, or about to poll; and a waiter waits.
Waiting ==
    /\ Unique(waiters)
    /\ \A s \in Senders : Contains(waiters, s) => pc[s] = "reserving"
    /\ closed => waiters = <<>>
    /\ \A s \in Senders : pc[s] = "reserving" => WillPoll(s) \/ Contains(waiters, s)

\* The waker is there when it is needed, and is not left behind.
Receiving ==
    /\ recvWaker => pc[Recv] = "receiving"
    /\ pc[Recv] = "receiving" => WillPoll(Recv) \/ recvWaker
    /\ recvWaker /\ (queue # <<>> \/ Disconnected) => \E s \in Senders : pc[s] = "dropping"

\* The last handle is being dropped by a task that has nothing else to do.
Dropping == \A s \in Senders : pc[s] = "dropping" => wakes[s] = {}

\* What changes the counters is a change of the state of one sender.
LEMMA PermitsChange ==
    ASSUME TypeOK, Counts, NEW s \in Senders, NEW state \in States, Goto(s, state)
    PROVE  /\ state = "permit" /\ pc[s] # "permit" => Cardinality(Permits') = reserved + 1
           /\ state # "permit" /\ pc[s] = "permit" => Cardinality(Permits') = reserved - 1
           /\ (state = "permit") <=> (pc[s] = "permit") => Permits' = Permits
<1>1. IsFiniteSet(Permits)
  BY FS_Subset, MpscAssumption DEF MpscAssumption, Permits
<1>2. Permits' = IF state = "permit" THEN Permits \cup {s} ELSE Permits \ {s}
  BY DEF TypeOK, Permits, Goto, Actors
<1>3. s \in Permits <=> pc[s] = "permit"
  BY DEF Permits
<1>4. Cardinality(Permits \cup {s}) = IF s \in Permits THEN reserved ELSE reserved + 1
  BY <1>1, FS_AddElement DEF Counts
<1>5. Cardinality(Permits \ {s}) = IF s \in Permits THEN reserved - 1 ELSE reserved
  BY <1>1, FS_RemoveElement DEF Counts
<1>. QED
  BY <1>2, <1>3, <1>4, <1>5

LEMMA LiveChange ==
    ASSUME TypeOK, Counts, NEW s \in Senders, NEW state \in States, Goto(s, state)
    PROVE  LET lives == state \in {"idle", "reserving", "permit"}
           IN  /\ lives /\ s \notin Live => Cardinality(Live') = count + 1
               /\ ~lives /\ s \in Live => Cardinality(Live') = count - 1
               /\ lives <=> s \in Live => Live' = Live
<1>1. IsFiniteSet(Live)
  BY FS_Subset, MpscAssumption DEF MpscAssumption, Live
<1>2. Live' = IF state \in {"idle", "reserving", "permit"} THEN Live \cup {s} ELSE Live \ {s}
  BY DEF TypeOK, Live, Goto, Actors
<1>3. Cardinality(Live \cup {s}) = IF s \in Live THEN count ELSE count + 1
  BY <1>1, FS_AddElement DEF Counts
<1>4. Cardinality(Live \ {s}) = IF s \in Live THEN count - 1 ELSE count
  BY <1>1, FS_RemoveElement DEF Counts
<1>. QED
  BY <1>2, <1>3, <1>4

LEMMA SetsFinite ==
    /\ Cardinality(Permits) \in Nat /\ Cardinality(Permits') \in Nat
    /\ Cardinality(Live) \in 0 .. Cardinality(Senders)
    /\ Cardinality(Live') \in 0 .. Cardinality(Senders)
    /\ Cardinality(Senders) \in Nat
<1> USE MpscAssumption DEF MpscAssumption
<1>1. Permits \in SUBSET Senders /\ Permits' \in SUBSET Senders
  BY DEF Permits
<1>2. Live \in SUBSET Senders /\ Live' \in SUBSET Senders
  BY DEF Live
<1>. QED
  BY <1>1, <1>2, FS_Subset, FS_CardinalityType

\* The receiver and the sets of senders have nothing to do with each other.
LEMMA ReceiverMoves ==
    ASSUME TypeOK, Roles, NEW state \in {"idle", "receiving", "none"}, Goto(Recv, state)
    PROVE  /\ Permits' = Permits /\ Live' = Live
           /\ Roles'
           /\ pc' \in [Actors -> States]
<1>1. \A s \in Senders : pc'[s] = pc[s]
  BY MpscAssumption DEF MpscAssumption, TypeOK, Goto, Actors
<1>2. pc' \in [Actors -> States] /\ pc'[Recv] = state
  BY DEF TypeOK, Goto, Actors, States
<1>. QED
  BY <1>1, <1>2 DEF Permits, Live, Roles

LEMMA SenderMoves ==
    ASSUME TypeOK, Roles, NEW s \in Senders, NEW state \in States \ {"receiving"}, Goto(s, state)
    PROVE  /\ Roles'
           /\ pc' \in [Actors -> States]
           /\ pc'[s] = state
           /\ \A a \in Actors \ {s} : pc'[a] = pc[a]
<1>1. pc' \in [Actors -> States] /\ pc'[s] = state /\ \A a \in Actors \ {s} : pc'[a] = pc[a]
  BY DEF TypeOK, Goto, Actors
<1>. QED
  BY <1>1, MpscAssumption DEF MpscAssumption, Roles, Actors

\* A live sender keeps the count above zero.
LEMMA LiveCounted ==
    ASSUME TypeOK, Counts, NEW s \in Senders, pc[s] \in {"idle", "reserving", "permit"}
    PROVE  count > 0
<1>1. IsFiniteSet(Live) /\ s \in Live
  BY FS_Subset, MpscAssumption DEF MpscAssumption, Live
<1>2. Cardinality(Live \ {s}) = count - 1 /\ Cardinality(Live \ {s}) \in Nat
  BY <1>1, FS_RemoveElement, FS_CardinalityType DEF Counts
<1>. QED
  BY <1>2 DEF TypeOK

LEMMA PermitCounted ==
    ASSUME TypeOK, Counts, NEW s \in Senders, pc[s] = "permit"
    PROVE  reserved > 0
<1>1. IsFiniteSet(Permits) /\ s \in Permits
  BY FS_Subset, MpscAssumption DEF MpscAssumption, Permits
<1>2. Cardinality(Permits \ {s}) = reserved - 1 /\ Cardinality(Permits \ {s}) \in Nat
  BY <1>1, FS_RemoveElement, FS_CardinalityType DEF Counts
<1>. QED
  BY <1>2 DEF TypeOK

LEMMA RemovedWaiters ==
    ASSUME TypeOK, NEW s
    PROVE  RemoveFirst(waiters, s) \in Seq(Senders)
<1>1. CASE Contains(waiters, s)
  BY <1>1, RemoveFirstProperties DEF TypeOK
<1>2. CASE ~Contains(waiters, s)
  BY <1>2 DEF TypeOK, Contains, RemoveFirst
<1>. QED
  BY <1>1, <1>2

LEMMA NextSenderType ==
    ASSUME NEW ws \in Seq(Senders)
    PROVE  NextSender(ws) \subseteq Senders
<1>1. CASE ws = <<>>
  BY <1>1 DEF NextSender
<1>2. CASE ws # <<>>
  BY <1>2 DEF NextSender
<1>. QED
  BY <1>1, <1>2
-----------------------------------------------------------------------------
SafeInv == TypeOK /\ Roles /\ Counts /\ EndFinal

LEMMA HandlesSafe ==
    ASSUME SafeInv, NEW s \in Senders,
           \/ \E c \in Senders : Clone(s, c)
           \/ Upgrade(s) \/ DropSender(s) \/ TakeRecvWaker(s)
    PROVE  SafeInv'
<1> USE SetsFinite DEF SafeInv
<1>1. ASSUME NEW c \in Senders, pc[c] = "none", Goto(c, "idle"), count' = count + 1, count > 0,
             UNCHANGED <<queue, reserved, waiters, recvWaker, closed, cancelled, woken,
                         wakes, ended>>
      PROVE  SafeInv'
  <2>1. Permits' = Permits /\ Cardinality(Live') = count + 1
    BY <1>1, PermitsChange, LiveChange DEF States, Live
  <2>2. Counts' /\ EndFinal'
    BY <1>1, <2>1 DEF Counts, EndFinal, TypeOK
  <2>3. Roles' /\ pc' \in [Actors -> States]
    BY <1>1, SenderMoves DEF States
  <2>4. TypeOK'
    BY <1>1, <2>1, <2>3 DEF TypeOK
  <2>. QED
    BY <2>2, <2>3, <2>4
<1>2. CASE \E c \in Senders : Clone(s, c)
  BY <1>1, <1>2, LiveCounted DEF Clone, At
<1>3. CASE Upgrade(s)
  BY <1>1, <1>3 DEF Upgrade
<1>4. CASE DropSender(s)
  <2>. DEFINE state == IF count = 1 THEN "dropping" ELSE "none"
  <2>1. Permits' = Permits /\ Cardinality(Live') = count - 1
    BY <1>4, PermitsChange, LiveChange DEF DropSender, At, States, Live
  <2>2. Counts' /\ EndFinal'
    BY <1>4, <2>1, LiveCounted DEF DropSender, At, Counts, EndFinal, TypeOK
  <2>3. Roles' /\ pc' \in [Actors -> States]
    BY <1>4, SenderMoves DEF DropSender, States
  <2>4. TypeOK'
    BY <1>4, <2>1, <2>3 DEF DropSender, TypeOK
  <2>. QED
    BY <2>2, <2>3, <2>4
<1>5. CASE TakeRecvWaker(s)
  <2>1. Permits' = Permits /\ Live' = Live
    BY <1>5, PermitsChange, LiveChange DEF TakeRecvWaker, States, Live
  <2>2. Counts' /\ EndFinal'
    BY <1>5, <2>1 DEF TakeRecvWaker, Counts, EndFinal
  <2>3. Roles' /\ pc' \in [Actors -> States]
    BY <1>5, SenderMoves DEF TakeRecvWaker, States
  <2>4. RecvTaken \subseteq Actors
    BY DEF RecvTaken, Actors
  <2>5. TypeOK'
    BY <1>5, <2>3, <2>4 DEF TakeRecvWaker, WillWake, TypeOK
  <2>. QED
    BY <2>2, <2>3, <2>5
<1>. QED
  BY <1>2, <1>3, <1>4, <1>5

\* cleanup_waiter touches the waiters and nothing that is counted.
LEMMA CleanupType ==
    ASSUME TypeOK, NEW s \in Senders, Cleanup(s)
    PROVE  /\ waiters' \in Seq(Senders)
           /\ wakes' \in [Actors -> SUBSET Actors]
<1>1. RemoveFirst(waiters, s) \in Seq(Senders)
  BY RemovedWaiters
<1>2. waiters' \in Seq(Senders)
  BY <1>1 DEF Cleanup, TypeOK
<1>3. NextSender(RemoveFirst(waiters, s)) \subseteq Actors
  BY <1>1, NextSenderType DEF Actors
<1>4. wakes' \in [Actors -> SUBSET Actors]
  BY <1>3 DEF Cleanup, WillWake, TypeOK
<1>. QED
  BY <1>2, <1>4

LEMMA GrantType ==
    ASSUME TypeOK, NEW s \in Senders, GrantSlot(s)
    PROVE  /\ waiters' \in Seq(Senders)
           /\ wakes' \in [Actors -> SUBSET Actors]
<1>1. RemoveFirst(waiters, s) \in Seq(Senders)
  BY RemovedWaiters
<1>2. NextSender(RemoveFirst(waiters, s)) \subseteq Actors
  BY <1>1, NextSenderType DEF Actors
<1>. QED
  BY <1>1, <1>2 DEF GrantSlot, WillWake, TypeOK

LEMMA ReserveSafe ==
    ASSUME SafeInv, NEW s \in Senders,
           Reserve(s) \/ PollReserve(s) \/ DropReserve(s) \/ TryReserve(s)
    PROVE  SafeInv'
<1> USE SetsFinite DEF SafeInv
<1>1. CASE Reserve(s)
  <2>1. Permits' = Permits /\ Live' = Live
    BY <1>1, PermitsChange, LiveChange DEF Reserve, At, States, Live
  <2>2. Counts' /\ EndFinal'
    BY <1>1, <2>1 DEF Reserve, chan, Counts, EndFinal
  <2>3. Roles' /\ pc' \in [Actors -> States]
    BY <1>1, SenderMoves DEF Reserve, States
  <2>4. TypeOK'
    BY <1>1, <2>3 DEF Reserve, chan, TypeOK, Actors
  <2>. QED
    BY <2>2, <2>3, <2>4
\* The future ends without a slot.
<1>2. ASSUME pc[s] = "reserving", Goto(s, "idle"), woken' = woken \ {s},
             waiters' \in Seq(Senders), wakes' \in [Actors -> SUBSET Actors],
             UNCHANGED <<queue, reserved, recvWaker, count, closed, cancelled, ended>>
      PROVE  SafeInv'
  <2>1. Permits' = Permits /\ Live' = Live
    BY <1>2, PermitsChange, LiveChange DEF States, Live
  <2>2. Counts' /\ EndFinal'
    BY <1>2, <2>1 DEF Counts, EndFinal
  <2>3. Roles' /\ pc' \in [Actors -> States]
    BY <1>2, SenderMoves DEF States
  <2>4. TypeOK'
    BY <1>2, <2>3 DEF TypeOK
  <2>. QED
    BY <2>2, <2>3, <2>4
\* The future, or try_reserve, ends with a slot.
<1>3. ASSUME pc[s] \in {"idle", "reserving"}, Goto(s, "permit"), woken' \in SUBSET Actors,
             reserved' = reserved + 1, HasCapacity(queue, reserved),
             waiters' \in Seq(Senders), wakes' \in [Actors -> SUBSET Actors],
             UNCHANGED <<queue, recvWaker, count, closed, cancelled, ended>>
      PROVE  SafeInv'
  <2>1. Cardinality(Permits') = reserved + 1 /\ Live' = Live
    BY <1>3, PermitsChange, LiveChange DEF States, Live
  <2>2. Counts' /\ EndFinal'
    BY <1>3, <2>1, MpscAssumption DEF MpscAssumption, HasCapacity, Counts, EndFinal, TypeOK
  <2>3. Roles' /\ pc' \in [Actors -> States]
    BY <1>3, SenderMoves DEF States
  <2>4. reserved' \in 0 .. Capacity
    BY <1>3, MpscAssumption DEF MpscAssumption, HasCapacity, TypeOK
  <2>5. TypeOK'
    BY <1>3, <2>3, <2>4 DEF TypeOK
  <2>. QED
    BY <2>2, <2>3, <2>5
<1>4. CASE PollReserve(s)
  <2>1. pc[s] = "reserving" /\ woken' = woken \ {s} /\ woken' \in SUBSET Actors
        /\ UNCHANGED <<cancelled, ended>>
    BY <1>4 DEF PollReserve, At, TypeOK
  <2>2. CASE Cleanup(s) /\ Goto(s, "idle")
    BY <2>1, <2>2, <1>2, CleanupType DEF Cleanup
  <2>3. CASE Goto(s, "idle") /\ UNCHANGED <<chan, wakes>>
    BY <2>1, <2>3, <1>2 DEF chan, TypeOK
  <2>4. CASE HasCapacity(queue, reserved) /\ GrantSlot(s) /\ Goto(s, "permit")
    BY <2>1, <2>4, <1>3, GrantType DEF GrantSlot
  <2>5. CASE /\ waiters' = IF Contains(waiters, s) THEN waiters ELSE Append(waiters, s)
             /\ UNCHANGED <<queue, reserved, recvWaker, count, closed, pc, wakes>>
    <3>1. waiters' \in Seq(Senders)
      BY <2>5 DEF TypeOK
    <3>2. Permits' = Permits /\ Live' = Live
      BY <2>5 DEF Permits, Live
    <3>3. Counts' /\ EndFinal' /\ Roles'
      BY <2>1, <2>5, <3>2 DEF Counts, EndFinal, Roles
    <3>4. TypeOK'
      BY <2>1, <2>5, <3>1 DEF TypeOK
    <3>. QED
      BY <3>3, <3>4
  <2>. QED
    BY <1>4, <2>2, <2>3, <2>4, <2>5 DEF PollReserve
<1>5. CASE DropReserve(s)
  BY <1>2, <1>5, CleanupType DEF DropReserve, At, Cleanup
<1>6. CASE TryReserve(s)
  BY <1>3, <1>6 DEF TryReserve, At, TypeOK
<1>. QED
  BY <1>1, <1>4, <1>5, <1>6

LEMMA SendSafe ==
    ASSUME SafeInv, NEW s \in Senders,
           Commit(s) \/ Abort(s) \/ TrySend(s) \/ SendEvict(s)
    PROVE  SafeInv'
<1> USE SetsFinite DEF SafeInv
<1>1. RecvTaken \subseteq Actors
  BY DEF RecvTaken, Actors
\* A permit is used up.
<1>2. ASSUME pc[s] = "permit", Goto(s, "idle"), reserved' = reserved - 1,
             queue' \in Seq(Senders), Len(queue') \in {Len(queue), Len(queue) + 1},
             ended => closed \/ count = 0, queue' # queue => ~closed,
             recvWaker' \in BOOLEAN,
             wakes' \in [Actors -> SUBSET Actors],
             UNCHANGED <<waiters, count, closed, cancelled, woken, ended>>
      PROVE  SafeInv'
  <2>1. Cardinality(Permits') = reserved - 1 /\ Live' = Live
    BY <1>2, PermitsChange, LiveChange DEF States, Live
  <2>2. count > 0 /\ reserved > 0
    BY <1>2, LiveCounted, PermitCounted
  <2>3. ended => closed /\ queue' = queue
    BY <1>2, <2>2
  <2>4. Counts' /\ EndFinal'
    <3>1. Len(queue) \in Nat /\ Len(queue') \in Nat /\ reserved \in Nat /\ Capacity \in Nat
      BY <1>2, MpscAssumption DEF MpscAssumption, TypeOK
    <3>2. Len(queue') + reserved' <= Capacity
      <4>1. Len(queue') <= Len(queue) + 1 /\ reserved' = reserved - 1
        BY <1>2, <3>1
      <4>2. Len(queue) + reserved <= Capacity
        BY DEF Counts
      <4>. QED
        BY ONLY <3>1, <4>1, <4>2
    <3>3. Counts'
      BY <1>2, <2>1, <3>2 DEF Counts
    <3>4. EndFinal'
      BY <1>2, <2>3 DEF EndFinal
    <3>. QED
      BY <3>3, <3>4
  <2>5. Roles' /\ pc' \in [Actors -> States]
    BY <1>2, SenderMoves DEF States
  <2>6. TypeOK'
    BY <1>2, <2>2, <2>5, MpscAssumption DEF MpscAssumption, TypeOK
  <2>. QED
    BY <2>4, <2>5, <2>6
<1>3. CASE Commit(s)
  <2>1. CASE closed /\ UNCHANGED <<queue, recvWaker, wakes>>
    BY <1>2, <1>3, <2>1 DEF Commit, At, TypeOK, EndFinal
  <2>2. CASE ~closed /\ Push(s, queue)
    <3>1. queue' \in Seq(Senders) /\ Len(queue') = Len(queue) + 1
      BY <2>2 DEF Push, TypeOK
    <3>2. wakes' \in [Actors -> SUBSET Actors] /\ recvWaker' \in BOOLEAN
      BY <1>1, <2>2 DEF Push, WillWake, TypeOK
    <3>. QED
      BY <1>2, <1>3, <2>2, <3>1, <3>2 DEF Commit, At, EndFinal
  <2>. QED
    BY <1>3, <2>1, <2>2 DEF Commit
<1>4. CASE Abort(s)
  <2>1. NextSender(waiters) \subseteq Actors
    BY NextSenderType DEF TypeOK, Actors
  <2>. QED
    BY <1>2, <1>4, <2>1 DEF Abort, At, WillWake, TypeOK, EndFinal
\* A message is added without a permit.
<1>5. ASSUME pc[s] = "idle", ~closed, NEW rest \in Seq(Senders), Push(s, rest),
             Len(rest) + 1 + reserved <= Capacity,
             UNCHANGED <<reserved, waiters, count, closed, pc, cancelled, woken, ended>>
      PROVE  SafeInv'
  <2>1. ~ended
    BY <1>5, LiveCounted DEF EndFinal
  <2>2. queue' \in Seq(Senders) /\ Len(queue') = Len(rest) + 1
    BY <1>5 DEF Push
  <2>3. Permits' = Permits /\ Live' = Live
    BY <1>5 DEF Permits, Live
  <2>4. Counts' /\ EndFinal' /\ Roles'
    BY <1>5, <2>1, <2>2, <2>3 DEF Counts, EndFinal, Roles
  <2>5. TypeOK'
    BY <1>1, <1>5, <2>2 DEF Push, WillWake, TypeOK
  <2>. QED
    BY <2>4, <2>5
<1>6. ASSUME pc[s] = "idle", ~closed, HasCapacity(queue, reserved), Push(s, queue),
             UNCHANGED <<reserved, waiters, count, closed, pc, cancelled, woken, ended>>
      PROVE  SafeInv'
  BY <1>5, <1>6, MpscAssumption DEF MpscAssumption, HasCapacity, TypeOK
<1>7. ASSUME pc[s] = "idle", ~closed, NEW i \in 1 .. Len(queue), Push(s, RemoveAt(queue, i)),
             UNCHANGED <<reserved, waiters, count, closed, pc, cancelled, woken, ended>>
      PROVE  SafeInv'
  <2>1. RemoveAt(queue, i) \in Seq(Senders) /\ Len(RemoveAt(queue, i)) = Len(queue) - 1
    BY <1>7, RemoveAtProperties DEF TypeOK
  <2>2. Len(queue) \in Nat
    BY DEF TypeOK
  <2>3. Len(RemoveAt(queue, i)) + 1 + reserved <= Capacity
    BY <2>1, <2>2, MpscAssumption DEF MpscAssumption, Counts, TypeOK
  <2>. QED
    BY <1>5, <1>7, <2>1, <2>3
<1>8. CASE TrySend(s)
  BY <1>6, <1>8 DEF TrySend, At
<1>9. CASE SendEvict(s)
  BY <1>6, <1>7, <1>9 DEF SendEvict, At
<1>. QED
  BY <1>3, <1>4, <1>8, <1>9

LEMMA ReceiverSafe ==
    ASSUME SafeInv, ReceiverSteps
    PROVE  SafeInv'
<1> USE SetsFinite DEF SafeInv
<1>0. recvWaker' \in BOOLEAN /\ closed' \in BOOLEAN /\ ended' \in BOOLEAN
  <2>1. recvWaker \in BOOLEAN /\ closed \in BOOLEAN /\ ended \in BOOLEAN
    BY DEF TypeOK
  <2>. HIDE DEF SafeInv
  <2>2. CASE StartRecv
    BY <2>1, <2>2, Zenon DEF StartRecv, chan
  <2>3. CASE PollRecv
    BY <2>1, <2>3, Zenon DEF PollRecv, PopFront
  <2>4. CASE DropRecv
    BY <2>1, <2>4, Zenon DEF DropRecv
  <2>5. CASE TryRecv
    BY <2>1, <2>5, Zenon DEF TryRecv, PopFront
  <2>6. ASSUME NEW drops \in BOOLEAN, Close(drops)
        PROVE  recvWaker' \in BOOLEAN /\ closed' \in BOOLEAN /\ ended' \in BOOLEAN
    <3>1. CASE drops = TRUE
      BY <2>1, <2>6, <3>1, Zenon DEF Close
    <3>2. CASE drops = FALSE
      BY <2>1, <2>6, <3>2, Zenon DEF Close
    <3>. QED
      BY <3>1, <3>2, Zenon
  <2>. QED
    BY <2>2, <2>3, <2>4, <2>5, <2>6, Zenon DEF ReceiverSteps
<1>1. ASSUME NEW state \in {"idle", "receiving", "none"}, Goto(Recv, state),
             queue' \in Seq(Senders), Len(queue') <= Len(queue),
             ended => queue' = <<>>, ended' # ended => queue' = <<>> /\ Disconnected',
             closed => closed', waiters' \in Seq(Senders), woken' \subseteq Actors,
             wakes' \in [Actors -> SUBSET Actors],
             UNCHANGED <<reserved, count, cancelled>>
      PROVE  SafeInv'
  <2>1. Permits' = Permits /\ Live' = Live /\ Roles' /\ pc' \in [Actors -> States]
    BY <1>1, ReceiverMoves
  <2>2. Counts'
    BY <1>1, <2>1, MpscAssumption DEF MpscAssumption, Counts, TypeOK
  <2>3. EndFinal'
    BY <1>1 DEF EndFinal, Disconnected
  <2>4. TypeOK'
    BY <1>0, <1>1, <2>1 DEF TypeOK
  <2>. QED
    BY <2>1, <2>2, <2>3, <2>4
<1>2. NextSender(waiters) \subseteq Actors /\ ToSet(waiters) \subseteq Actors
  BY NextSenderType DEF TypeOK, Actors, ToSet
<1>3. ASSUME PopFront
      PROVE  /\ queue' \in Seq(Senders) /\ Len(queue') <= Len(queue) /\ ~ended
             /\ wakes' \in [Actors -> SUBSET Actors]
             /\ UNCHANGED <<reserved, waiters, count, closed, ended>>
  <2>1. queue \in Seq(Senders) /\ queue # <<>>
    BY <1>3 DEF PopFront, TypeOK
  <2>2. Tail(queue) \in Seq(Senders) /\ Len(Tail(queue)) <= Len(queue)
    BY <2>1
  <2>3. wakes' \in [Actors -> SUBSET Actors]
    BY <1>2, <1>3 DEF PopFront, WillWake, TypeOK
  <2>. QED
    BY <1>3, <2>1, <2>2, <2>3 DEF PopFront, EndFinal
<1>4. pc[Recv] \in {"idle", "receiving", "none"} /\ (pc' = pc => Goto(Recv, pc[Recv]))
  BY DEF Roles, TypeOK, Goto, Actors
<1>5. woken \subseteq Actors /\ woken \ {Recv} \subseteq Actors /\ woken \cup {Recv} \subseteq Actors
  BY DEF TypeOK, Actors
<1>6. CASE StartRecv
  BY <1>1, <1>5, <1>6 DEF StartRecv, chan, TypeOK, EndFinal
<1>7. CASE PollRecv
  <2>1. woken' \subseteq Actors /\ UNCHANGED <<cancelled>>
    BY <1>5, <1>7 DEF PollRecv
  <2>2. CASE /\ recvWaker' = FALSE /\ Goto(Recv, "idle")
             /\ UNCHANGED <<queue, reserved, waiters, count, closed, wakes, ended>>
    BY <1>1, <2>1, <2>2 DEF TypeOK, EndFinal
  <2>3. CASE PopFront /\ Goto(Recv, "idle")
    BY <1>1, <1>3, <2>1, <2>3 DEF TypeOK
  <2>4. CASE /\ queue = <<>> /\ Disconnected /\ recvWaker' = FALSE /\ ended' = TRUE
             /\ Goto(Recv, "idle") /\ UNCHANGED <<queue, reserved, waiters, count, closed, wakes>>
    <3>1. Disconnected' /\ queue' = <<>>
      BY <2>4 DEF Disconnected
    <3>. QED
      BY <1>1, <2>1, <2>4, <3>1 DEF TypeOK
  <2>5. CASE /\ recvWaker' = TRUE
             /\ UNCHANGED <<queue, reserved, waiters, count, closed, wakes, pc, ended>>
    BY <1>1, <1>4, <2>1, <2>5 DEF TypeOK, EndFinal
  <2>. QED
    BY <1>7, <2>2, <2>3, <2>4, <2>5 DEF PollRecv
<1>8. CASE DropRecv
  BY <1>1, <1>5, <1>8 DEF DropRecv, TypeOK, EndFinal
<1>9. CASE TryRecv
  <2>1. UNCHANGED <<pc, cancelled, woken>> /\ woken' \subseteq Actors
    BY <1>5, <1>9 DEF TryRecv
  <2>2. CASE PopFront
    BY <1>1, <1>3, <1>4, <2>1, <2>2 DEF TypeOK
  <2>3. CASE /\ queue = <<>> /\ Disconnected /\ recvWaker' = FALSE /\ ended' = TRUE
             /\ UNCHANGED <<queue, reserved, waiters, count, closed, wakes>>
    <3>1. Disconnected' /\ queue' = <<>>
      BY <2>3 DEF Disconnected
    <3>. QED
      BY <1>1, <1>4, <2>1, <2>3, <3>1 DEF TypeOK
  <2>. QED
    BY <1>9, <2>2, <2>3 DEF TryRecv
<1>10. ASSUME NEW drops \in BOOLEAN, Close(drops)
       PROVE  SafeInv'
  <2>1. /\ wakes' \in [Actors -> SUBSET Actors]
        /\ waiters' \in Seq(Senders) /\ closed' = TRUE
    <3>1. wakes' = [wakes EXCEPT ![Recv] = ToSet(waiters)] /\ wakes \in [Actors -> SUBSET Actors]
      BY <1>10 DEF Close, WillWake, TypeOK
    <3>2. wakes' \in [Actors -> SUBSET Actors]
      BY <1>2, <3>1
    <3>3. waiters' = <<>> /\ closed' = TRUE
      BY <1>10, Zenon DEF Close
    <3>. QED
      BY <3>2, <3>3
  <2>2. /\ queue' \in Seq(Senders) /\ Len(queue') <= Len(queue)
        /\ queue = <<>> => queue' = <<>>
    BY <1>10 DEF Close, TypeOK
  <2>3. PICK state \in {"idle", "receiving", "none"} : Goto(Recv, state)
    BY <1>10 DEF Close
  <2>4. UNCHANGED <<reserved, count, cancelled, woken, ended>>
    BY <1>10 DEF Close
  <2>. QED
    BY <1>1, <1>5, <2>1, <2>2, <2>3, <2>4 DEF TypeOK, EndFinal
<1>. QED
  BY <1>6, <1>7, <1>8, <1>9, <1>10 DEF ReceiverSteps

LEMMA OthersSafe ==
    ASSUME SafeInv,
           \/ \E s \in Senders : WakeReceiver(s) \/ CloseReceiver(s)
           \/ \E a \in Actors : Cancel(a)
           \/ \E a, b \in Actors : Wake(a, b)
           \/ UNCHANGED vars
    PROVE  SafeInv'
<1> USE DEF SafeInv
<1>1. UNCHANGED <<queue, reserved, count, pc, ended>> /\ (closed => closed')
  BY DEF WakeReceiver, CloseReceiver, Cancel, Wake, chan, tasks, vars
<1>2. Permits' = Permits /\ Live' = Live
  BY <1>1 DEF Permits, Live
<1>3. Counts' /\ EndFinal' /\ Roles'
  BY <1>1, <1>2 DEF Counts, EndFinal, Roles
<1>4. RecvTaken \subseteq Actors /\ ToSet(waiters) \subseteq Actors
  BY DEF RecvTaken, Actors, ToSet, TypeOK
<1>5. CASE \E s \in Senders : WakeReceiver(s)
  BY <1>3, <1>4, <1>5 DEF WakeReceiver, WillWake, TypeOK
<1>6. CASE \E s \in Senders : CloseReceiver(s)
  <2>1. recvWaker' \in BOOLEAN /\ closed' \in BOOLEAN
    BY <1>6, Zenon DEF CloseReceiver
  <2>2. waiters' \in Seq(Senders) /\ wakes' \in [Actors -> SUBSET Actors]
    <3>. DEFINE set == ToSet(waiters) \cup RecvTaken
    <3>1. PICK s \in Senders : wakes' = [wakes EXCEPT ![s] = set] /\ waiters' = <<>>
      BY <1>6 DEF CloseReceiver, WillWake
    <3>2. set \in SUBSET Actors /\ wakes \in [Actors -> SUBSET Actors]
      BY <1>4 DEF TypeOK
    <3>. HIDE DEF set
    <3>3. wakes' \in [Actors -> SUBSET Actors]
      BY <3>1, <3>2
    <3>4. waiters' \in Seq(Senders)
      BY <3>1
    <3>. QED
      BY <3>3, <3>4
  <2>. QED
    BY <1>3, <1>6, <2>1, <2>2 DEF CloseReceiver, TypeOK
<1>7. CASE \E a \in Actors : Cancel(a)
  BY <1>3, <1>7 DEF Cancel, chan, TypeOK
<1>8. CASE \E a, b \in Actors : Wake(a, b)
  BY <1>3, <1>8 DEF Wake, chan, TypeOK
<1>9. CASE UNCHANGED vars
  BY <1>3, <1>9 DEF vars, chan, tasks, TypeOK
<1>. QED
  BY <1>5, <1>6, <1>7, <1>8, <1>9

LEMMA SafeStep ==
    ASSUME SafeInv, [Next]_vars
    PROVE  SafeInv'
BY HandlesSafe, ReserveSafe, SendSafe, ReceiverSafe, OthersSafe DEF Next, SenderSteps

LEMMA SafeInitially == Init => SafeInv
<1> SUFFICES ASSUME Init
             PROVE  SafeInv
  OBVIOUS
<1>1. PICK first \in Senders :
         pc = [a \in Actors |-> IF a \in {first, Recv} THEN "idle" ELSE "none"]
  BY DEF Init
<1>2. Permits = {} /\ Live = {first}
  BY <1>1, MpscAssumption DEF MpscAssumption, Permits, Live, Actors
<1>3. Cardinality(Permits) = 0 /\ Cardinality(Live) = 1
  BY <1>2, FS_EmptySet, FS_Singleton
<1>4. Counts /\ EndFinal
  BY <1>3, MpscAssumption DEF MpscAssumption, Init, Counts, EndFinal
<1>5. Roles
  BY <1>1, MpscAssumption DEF MpscAssumption, Roles, Actors
<1>6. pc \in [Actors -> States]
  BY <1>1 DEF States
<1>7. recvWaker \in BOOLEAN /\ closed \in BOOLEAN /\ ended \in BOOLEAN
  BY Zenon DEF Init
<1>8. reserved \in 0 .. Capacity /\ count \in 0 .. Cardinality(Senders)
  BY <1>3, SetsFinite, MpscAssumption DEF MpscAssumption, Init
<1>9. TypeOK
  BY <1>6, <1>7, <1>8 DEF Init, TypeOK
<1>. QED
  BY <1>4, <1>5, <1>9 DEF SafeInv

LEMMA Safe == Spec => []SafeInv
BY SafeInitially, SafeStep, PTL DEF Spec

\* The fields keep their types; in particular reserved never underflows and
\* never exceeds the capacity, and count is never negative.
THEOREM TypeCorrect == Spec => []TypeOK
BY Safe, PTL DEF SafeInv

-----------------------------------------------------------------------------
(* The refinement: every step is one of BoundedChannel's, or stutters.     *)

LEMMA RoomMapped ==
    ASSUME Counts
    PROVE  Abstract!HasRoom <=> HasCapacity(queue, reserved)
<1>1. Abstract!Cardinality(Permits) = Cardinality(Permits)
  BY DEF Cardinality, Abstract!Cardinality
<1>. QED
  BY <1>1 DEF Counts, Permits, HasCapacity, Abstract!HasRoom

LEMMA Unmoved ==
    ASSUME Permits' = Permits, UNCHANGED <<queue, closed, ended>>,
           pc'[Recv] = "none" <=> pc[Recv] = "none"
    PROVE  UNCHANGED Abstract!cvars
BY DEF Permits, Abstract!cvars

\* A live sender finds that the receiver was not told Disconnected, unless
\* the channel is closed.
LEMMA NotEnded ==
    ASSUME SafeInv, NEW s \in Senders, pc[s] \in {"idle", "reserving", "permit"}, ~closed
    PROVE  ~ended
BY LiveCounted DEF SafeInv, EndFinal, TypeOK

LEMMA MovedPermit ==
    ASSUME TypeOK, NEW s \in Senders, NEW state \in States, Goto(s, state)
    PROVE  Permits' = IF state = "permit" THEN Permits \cup {s} ELSE Permits \ {s}
BY DEF TypeOK, Permits, Goto, Actors

\* A sender's step does not move the receiver.
LEMMA ReceiverStays ==
    ASSUME TypeOK, NEW s \in Senders, SenderSteps(s)
    PROVE  pc'[Recv] = pc[Recv]
<1>1. Recv \notin Senders /\ Recv \in Actors
  BY MpscAssumption DEF MpscAssumption, Actors
<1>2. ASSUME NEW c \in Senders, NEW state, Goto(c, state)
      PROVE  pc'[Recv] = pc[Recv]
  BY <1>1, <1>2 DEF Goto, TypeOK
<1>3. (\E c \in Senders : \E state \in States : Goto(c, state)) \/ UNCHANGED pc
  <2>1. CASE \E c \in Senders : Clone(s, c)
    BY <2>1 DEF Clone, States
  <2>2. CASE Upgrade(s) \/ DropSender(s) \/ TakeRecvWaker(s)
    BY <2>2 DEF Upgrade, DropSender, TakeRecvWaker, States
  <2>3. CASE Reserve(s) \/ PollReserve(s) \/ DropReserve(s) \/ TryReserve(s)
    BY <2>3 DEF Reserve, PollReserve, DropReserve, TryReserve, States
  <2>4. CASE Commit(s) \/ Abort(s) \/ TrySend(s) \/ SendEvict(s)
    BY <2>4 DEF Commit, Abort, TrySend, SendEvict, States
  <2>5. CASE WakeReceiver(s) \/ CloseReceiver(s)
    BY <2>5 DEF WakeReceiver, CloseReceiver
  <2>. QED
    BY <2>1, <2>2, <2>3, <2>4, <2>5 DEF SenderSteps
<1>. QED
  BY <1>2, <1>3

LEMMA SendersRefine ==
    ASSUME SafeInv, NEW s \in Senders, SenderSteps(s)
    PROVE  [Abstract!CNext]_(Abstract!cvars)
<1> USE DEF SafeInv
<1>0. pc'[Recv] = pc[Recv]
  BY ReceiverStays
<1>1. ASSUME NEW c \in Senders, NEW state \in States \ {"permit"}, Goto(c, state),
             pc[c] # "permit", UNCHANGED <<queue, closed, ended>>
      PROVE  UNCHANGED Abstract!cvars
  <2>1. Permits' = Permits
    BY <1>1, MovedPermit DEF Permits
  <2>. QED
    BY <1>0, <1>1, <2>1, Unmoved
<1>2. ASSUME NEW state \in {"idle", "reserving"}, pc[s] = state, Goto(s, "permit"), ~closed,
             HasCapacity(queue, reserved), UNCHANGED <<queue, closed, ended>>
      PROVE  Abstract!CNext
  <2>1. Permits' = Permits \cup {s} /\ s \notin Permits
    BY <1>2, MovedPermit DEF States, Permits
  <2>2. Abstract!Grant(s)
    BY <1>0, <1>2, <2>1, RoomMapped DEF Abstract!Grant, Permits
  <2>. QED
    BY <1>2, <2>2, NotEnded DEF Abstract!CNext
<1>3. CASE \E c \in Senders : Clone(s, c)
  BY <1>1, <1>3 DEF Clone, States
<1>4. CASE Upgrade(s)
  BY <1>1, <1>4 DEF Upgrade, States
<1>5. CASE DropSender(s)
  BY <1>1, <1>5 DEF DropSender, At, States
<1>6. CASE TakeRecvWaker(s)
  BY <1>1, <1>6 DEF TakeRecvWaker, States
<1>7. CASE Reserve(s)
  BY <1>1, <1>7 DEF Reserve, At, chan, States
<1>8. CASE PollReserve(s)
  <2>1. pc[s] = "reserving" /\ UNCHANGED ended
    BY <1>8 DEF PollReserve, At
  <2>2. CASE Cleanup(s) /\ Goto(s, "idle")
    BY <1>1, <2>1, <2>2 DEF Cleanup, States
  <2>3. CASE Goto(s, "idle") /\ UNCHANGED <<chan, wakes>>
    BY <1>1, <2>1, <2>3 DEF chan, States
  <2>4. CASE ~closed /\ HasCapacity(queue, reserved) /\ GrantSlot(s) /\ Goto(s, "permit")
    BY <1>2, <2>1, <2>4 DEF GrantSlot
  <2>5. CASE UNCHANGED <<queue, closed, pc>>
    BY <1>0, <2>1, <2>5, Unmoved DEF Permits
  <2>. QED
    BY <1>8, <2>2, <2>3, <2>4, <2>5 DEF PollReserve
<1>9. CASE DropReserve(s)
  BY <1>1, <1>9 DEF DropReserve, Cleanup, At, States
<1>10. CASE TryReserve(s)
  BY <1>2, <1>10 DEF TryReserve, At
<1>11. CASE Commit(s)
  <2>1. Permits' = Permits \ {s} /\ s \in Permits
    BY <1>11, MovedPermit DEF Commit, At, States, Permits
  <2>2. CASE closed /\ UNCHANGED <<queue, recvWaker, wakes>>
    <3>1. Abstract!GiveUp(s)
      BY <1>0, <1>11, <2>1, <2>2 DEF Commit, Abstract!GiveUp, Permits
    <3>. QED
      BY <3>1 DEF Abstract!CNext
  <2>3. CASE ~closed /\ Push(s, queue)
    <3>1. Abstract!Commit(s)
      BY <1>0, <1>11, <2>1, <2>3 DEF Commit, Push, Abstract!Commit, Permits
    <3>2. ~ended
      BY <1>11, <2>3, NotEnded DEF Commit, At
    <3>. QED
      BY <3>1, <3>2 DEF Abstract!CNext
  <2>. QED
    BY <1>11, <2>2, <2>3 DEF Commit
<1>12. CASE Abort(s)
  <2>1. Permits' = Permits \ {s} /\ s \in Permits
    BY <1>12, MovedPermit DEF Abort, At, States, Permits
  <2>2. Abstract!GiveUp(s)
    BY <1>0, <1>12, <2>1 DEF Abort, Abstract!GiveUp, Permits
  <2>. QED
    BY <2>2 DEF Abstract!CNext
<1>13. ASSUME pc[s] = "idle", ~closed, HasCapacity(queue, reserved), Push(s, queue),
              UNCHANGED <<pc, closed, ended>>
       PROVE  Abstract!CNext
  <2>1. Abstract!Send(s)
    BY <1>0, <1>13, RoomMapped DEF Push, Abstract!Send
  <2>. QED
    BY <1>13, <2>1, NotEnded DEF Abstract!CNext
<1>14. CASE TrySend(s)
  BY <1>13, <1>14 DEF TrySend, At
<1>15. CASE SendEvict(s)
  <2>1. CASE HasCapacity(queue, reserved) /\ Push(s, queue)
    BY <1>13, <1>15, <2>1 DEF SendEvict, At
  <2>2. ASSUME ~HasCapacity(queue, reserved), NEW i \in 1 .. Len(queue),
               Push(s, RemoveAt(queue, i))
        PROVE  Abstract!CNext
    <3>1. Abstract!RemoveAt(queue, i) = RemoveAt(queue, i)
      BY DEF RemoveAt, Abstract!RemoveAt
    <3>2. Abstract!Replace(s, i)
      BY <1>0, <1>15, <2>2, <3>1, RoomMapped DEF SendEvict, Push, Abstract!Replace
    <3>. QED
      BY <1>15, <2>2, <3>2, NotEnded DEF SendEvict, At, Abstract!CNext
  <2>. QED
    BY <1>15, <2>1, <2>2 DEF SendEvict
<1>16. CASE WakeReceiver(s)
  BY <1>0, <1>16, Unmoved DEF WakeReceiver, Permits
<1>17. CASE CloseReceiver(s)
  <2>1. Abstract!Seal
    BY <1>0, <1>17 DEF CloseReceiver, Abstract!Seal
  <2>. QED
    BY <2>1 DEF Abstract!CNext
<1>. QED
  BY <1>3, <1>4, <1>5, <1>6, <1>7, <1>8, <1>9, <1>10, <1>11, <1>12, <1>14, <1>15, <1>16, <1>17
     DEF SenderSteps

LEMMA ReceiverRefines ==
    ASSUME SafeInv, ReceiverSteps
    PROVE  [Abstract!CNext]_(Abstract!cvars)
<1> USE DEF SafeInv
<1>1. Permits' = Permits
  <2>1. ASSUME NEW state \in {"idle", "receiving", "none"}, Goto(Recv, state)
        PROVE  Permits' = Permits
    BY <2>1, ReceiverMoves
  <2>2. pc' = pc => Permits' = Permits
    BY DEF Permits
  <2>3. ASSUME NEW drops \in BOOLEAN, Close(drops)
        PROVE  Permits' = Permits
    BY <2>1, <2>3 DEF Close
  <2>. QED
    BY <2>1, <2>2, <2>3 DEF ReceiverSteps, StartRecv, PollRecv, DropRecv, TryRecv
<1>2. ASSUME PopFront, pc[Recv] # "none", pc'[Recv] # "none"
      PROVE  Abstract!CNext
  <2>1. Abstract!Receive
    BY <1>1, <1>2 DEF PopFront, Abstract!Receive, Permits
  <2>. QED
    BY <2>1 DEF Abstract!CNext
<1>3. ASSUME queue = <<>>, ended' = TRUE, UNCHANGED <<queue, closed>>,
             pc[Recv] # "none", pc'[Recv] # "none"
      PROVE  Abstract!CNext
  <2>1. Abstract!End
    BY <1>1, <1>3 DEF Abstract!End, Permits
  <2>. QED
    BY <2>1 DEF Abstract!CNext
<1>4. ASSUME StartRecv \/ PollRecv \/ DropRecv \/ TryRecv
      PROVE  pc[Recv] # "none" /\ pc'[Recv] # "none"
  <2>1. Recv \in Actors
    BY DEF Actors
  <2>. QED
    BY <1>4, <2>1 DEF StartRecv, PollRecv, DropRecv, TryRecv, At, Goto, TypeOK
<1>5. CASE StartRecv
  BY <1>1, <1>4, <1>5, Unmoved DEF StartRecv, chan
<1>6. CASE PollRecv
  BY <1>1, <1>2, <1>3, <1>4, <1>6, Unmoved DEF PollRecv
<1>7. CASE DropRecv
  BY <1>1, <1>4, <1>7, Unmoved DEF DropRecv
<1>8. CASE TryRecv
  BY <1>2, <1>3, <1>4, <1>8 DEF TryRecv
<1>9. ASSUME NEW drops \in BOOLEAN, Close(drops)
      PROVE  Abstract!CNext
  <2>1. closed' = TRUE /\ UNCHANGED ended /\ pc[Recv] = "idle" /\ Recv \in Actors
    BY <1>9 DEF Close, At, Actors
  <2>2. CASE drops
    <3>1. pc'[Recv] = "none" /\ queue' = <<>>
      BY <1>9, <2>1, <2>2 DEF Close, Goto, TypeOK
    <3>2. Abstract!Discard
      BY <1>1, <2>1, <3>1 DEF Abstract!Discard, Permits
    <3>. QED
      BY <3>2 DEF Abstract!CNext
  <2>3. CASE ~drops
    <3>1. pc'[Recv] = "idle" /\ queue' = queue
      BY <1>9, <2>1, <2>3 DEF Close, Goto, TypeOK
    <3>2. Abstract!Seal
      BY <1>1, <2>1, <3>1 DEF Abstract!Seal, Permits
    <3>. QED
      BY <3>2 DEF Abstract!CNext
  <2>. QED
    BY <2>2, <2>3
<1>. QED
  BY <1>5, <1>6, <1>7, <1>8, <1>9 DEF ReceiverSteps

\* The two-phase channel is a bounded queue with permits: reserved counts the
\* permits, so that commits and sends never overfill it, messages keep their
\* order and outlive a close, and after the receiver was told Disconnected
\* nothing is accepted.
THEOREM Refinement == Spec => ImplementsChannel
<1>1. Init => Abstract!CInit
  <2>. SUFFICES ASSUME Init
                PROVE  Abstract!CInit
    OBVIOUS
  <2>1. {s \in Senders : pc[s] = "permit"} = {} /\ pc[Recv] # "none"
    BY DEF Init, Actors
  <2>. QED
    BY <2>1 DEF Init, Abstract!CInit
<1>2. ASSUME SafeInv, [Next]_vars
      PROVE  [Abstract!CNext]_(Abstract!cvars)
  <2>1. CASE \E s \in Senders : SenderSteps(s)
    BY <1>2, <2>1, SendersRefine
  <2>2. CASE ReceiverSteps
    BY <1>2, <2>2, ReceiverRefines
  <2>3. CASE \E a \in Actors : Cancel(a)
    BY <2>3, Unmoved DEF Cancel, chan, Permits
  <2>4. CASE \E a, b \in Actors : Wake(a, b)
    BY <2>4, Unmoved DEF Wake, chan, Permits
  <2>5. CASE UNCHANGED vars
    BY <2>5, Unmoved DEF vars, chan, tasks, Permits
  <2>. QED
    BY <1>2, <2>1, <2>2, <2>3, <2>4, <2>5 DEF Next
<1>. QED
  BY <1>1, <1>2, Safe, PTL DEF Spec, ImplementsChannel, Abstract!CSpec

-----------------------------------------------------------------------------
(* No wakeup is lost.                                                      *)

LEMMA HeadWaits ==
    ASSUME NEW ws \in Seq(Senders), ws # <<>>
    PROVE  /\ Head(ws) \in Senders /\ Contains(ws, Head(ws))
           /\ NextSender(ws) = {Head(ws)}
<1>1. Len(ws) \in Nat /\ Len(ws) >= 1 /\ Head(ws) = ws[1] /\ Head(ws) \in Senders
  OBVIOUS
<1>2. 1 \in 1 .. Len(ws)
  BY <1>1
<1>. QED
  BY <1>1, <1>2 DEF Contains, NextSender

\* A waiter that leaves is gone, and the others stay.
LEMMA RemovedOnce ==
    ASSUME NEW ws \in Seq(Senders), Unique(ws), NEW s, Contains(ws, s)
    PROVE  LET rest == RemoveFirst(ws, s)
           IN  /\ rest \in Seq(Senders) /\ Unique(rest)
               /\ \A c : Contains(rest, c) <=> Contains(ws, c) /\ c # s
<1>. DEFINE rest == RemoveFirst(ws, s)
<1>1. PICK i \in 1 .. Len(ws) : ws[i] = s /\ WithoutAt(ws, i, rest)
  BY RemoveFirstProperties
<1>2. rest \in Seq(Senders) /\ Len(rest) = Len(ws) - 1 /\ Len(ws) \in Nat
  BY RemoveFirstProperties
<1>. HIDE DEF rest
\* Position j of the rest is position from(j) of the queue.
<1>. DEFINE from(j) == IF j < i THEN j ELSE j + 1
<1>3. \A j \in 1 .. Len(rest) : from(j) \in 1 .. Len(ws) /\ from(j) # i /\ rest[j] = ws[from(j)]
  BY <1>1, <1>2 DEF WithoutAt
<1>4. \A j, k \in 1 .. Len(rest) : from(j) = from(k) => j = k
  BY <1>2
<1>5. \A k \in 1 .. Len(ws) : k # i => \E j \in 1 .. Len(rest) : from(j) = k
  <2>1. ASSUME NEW k \in 1 .. Len(ws), k < i PROVE k \in 1 .. Len(rest) /\ from(k) = k
    BY <1>2, <2>1
  <2>2. ASSUME NEW k \in 1 .. Len(ws), k > i PROVE k - 1 \in 1 .. Len(rest) /\ from(k - 1) = k
    BY <1>2, <2>2
  <2>. QED
    BY <2>1, <2>2
<1>6. Unique(rest)
  <2>1. ASSUME NEW j \in 1 .. Len(rest), NEW k \in 1 .. Len(rest), rest[j] = rest[k]
        PROVE  j = k
    <3>1. from(j) = from(k)
      BY <1>3, <2>1 DEF Unique
    <3>. QED
      BY <1>4, <3>1
  <2>. QED
    BY <2>1 DEF Unique
<1>7. ASSUME NEW c PROVE Contains(rest, c) <=> Contains(ws, c) /\ c # s
  <2>1. ASSUME NEW j \in 1 .. Len(rest), rest[j] = c PROVE Contains(ws, c) /\ c # s
    BY <1>1, <1>3, <2>1 DEF Unique, Contains
  <2>2. ASSUME NEW k \in 1 .. Len(ws), ws[k] = c, c # s PROVE Contains(rest, c)
    <3>1. PICK j \in 1 .. Len(rest) : from(j) = k
      BY <1>1, <1>5, <2>2
    <3>. QED
      BY <1>3, <2>2, <3>1 DEF Contains
  <2>. QED
    BY <2>1, <2>2 DEF Contains
<1>. QED
  BY <1>2, <1>6, <1>7 DEF rest

LEMMA AppendedOnce ==
    ASSUME NEW ws \in Seq(Senders), Unique(ws), NEW s \in Senders, ~Contains(ws, s)
    PROVE  /\ Unique(Append(ws, s))
           /\ \A c : Contains(Append(ws, s), c) <=> Contains(ws, c) \/ c = s
           /\ ws # <<>> => Head(Append(ws, s)) = Head(ws)
<1>1. /\ Len(Append(ws, s)) = Len(ws) + 1 /\ Len(ws) \in Nat
      /\ \A i \in 1 .. Len(ws) : Append(ws, s)[i] = ws[i]
      /\ Append(ws, s)[Len(ws) + 1] = s
  OBVIOUS
<1>2. Unique(Append(ws, s))
  BY <1>1 DEF Unique, Contains
<1>3. \A c : Contains(Append(ws, s), c) <=> Contains(ws, c) \/ c = s
  <2>1. ASSUME NEW c, Contains(Append(ws, s), c) PROVE Contains(ws, c) \/ c = s
    BY <1>1, <2>1 DEF Contains
  <2>2. Contains(Append(ws, s), s)
    <3>1. Len(ws) + 1 \in 1 .. Len(Append(ws, s))
      BY <1>1
    <3>. QED
      BY <1>1, <3>1 DEF Contains
  <2>3. ASSUME NEW c, Contains(ws, c) PROVE Contains(Append(ws, s), c)
    BY <1>1, <2>3 DEF Contains
  <2>. QED
    BY <2>1, <2>2, <2>3
<1>4. ws # <<>> => Head(Append(ws, s)) = Head(ws)
  BY <1>1
<1>. QED
  BY <1>2, <1>3, <1>4

WakeInv == SafeInv /\ Waiting /\ NoLostSenderWake /\ Receiving /\ Dropping

\* A step that leaves the waiters alone, and wakes the first when it frees a
\* slot.
LEMMA WaitersKept ==
    ASSUME SafeInv, Waiting, NoLostSenderWake,
           UNCHANGED <<waiters, closed>>,
           \A c \in Senders : pc'[c] = "reserving" <=> pc[c] = "reserving",
           \A c \in Senders : c \in woken => c \in woken',
           \A b \in Actors : wakes[b] \subseteq wakes'[b],
           HasCapacity(queue', reserved') =>
              HasCapacity(queue, reserved) \/ \E b \in Actors : NextSender(waiters) \subseteq wakes'[b]
    PROVE  Waiting' /\ NoLostSenderWake'
<1>1. \A c \in Senders : WillPoll(c) => WillPoll(c)'
  BY DEF WillPoll
<1>2. Waiting'
  BY <1>1 DEF Waiting
<1>3. ASSUME waiters # <<>>, HasCapacity(queue', reserved')
      PROVE  WillPoll(Head(waiters))'
  <2>1. Head(waiters) \in Senders /\ NextSender(waiters) = {Head(waiters)}
    BY <1>3, HeadWaits DEF SafeInv, TypeOK
  <2>2. CASE HasCapacity(queue, reserved)
    BY <1>1, <1>3, <2>1, <2>2 DEF NoLostSenderWake
  <2>3. CASE \E b \in Actors : NextSender(waiters) \subseteq wakes'[b]
    BY <2>1, <2>3 DEF WillPoll
  <2>. QED
    BY <1>3, <2>2, <2>3
<1>. QED
  BY <1>2, <1>3 DEF NoLostSenderWake

\* A step of a sender that takes the receiver's waker, ...
LEMMA ReceiverWoken ==
    ASSUME Receiving, NEW s \in Actors, recvWaker' = FALSE, pc'[Recv] = pc[Recv],
           Recv \in woken => Recv \in woken',
           \A b \in Actors : wakes[b] \subseteq wakes'[b],
           RecvTaken \subseteq wakes'[s]
    PROVE  Receiving'
<1>1. WillPoll(Recv) => WillPoll(Recv)'
  BY DEF WillPoll
<1>2. recvWaker => WillPoll(Recv)'
  BY DEF RecvTaken, WillPoll
<1>. QED
  BY <1>1, <1>2 DEF Receiving

\* ... and one that leaves it.
LEMMA ReceiverKept ==
    ASSUME Receiving, recvWaker' = recvWaker, pc'[Recv] = pc[Recv],
           Recv \in woken => Recv \in woken',
           \A b \in Actors : wakes[b] \subseteq wakes'[b],
           \A c \in Senders : pc[c] = "dropping" => pc'[c] = "dropping",
           queue' = <<>> \/ queue' = queue,
           Disconnected' => Disconnected \/ \E c \in Senders : pc'[c] = "dropping"
    PROVE  Receiving'
<1>1. WillPoll(Recv) => WillPoll(Recv)'
  BY DEF WillPoll
<1>. QED
  BY <1>1 DEF Receiving

\* A waiter leaves, with or without a slot, and passes the wake on.
LEMMA WaiterLeaves ==
    ASSUME SafeInv, Waiting, NoLostSenderWake, NEW s \in Senders, ~closed,
           UNCHANGED closed, waiters' = RemoveFirst(waiters, s),
           pc'[s] # "reserving", \A c \in Senders \ {s} : pc'[c] = pc[c],
           woken' = woken \ {s}, \A b \in Actors : wakes[b] \subseteq wakes'[b],
           HasCapacity(queue', reserved') => HasCapacity(queue, reserved),
           Contains(waiters, s) /\ HasCapacity(queue', reserved') =>
              NextSender(RemoveFirst(waiters, s)) \subseteq wakes'[s]
    PROVE  Waiting' /\ NoLostSenderWake'
<1>1. waiters \in Seq(Senders) /\ waiters' \in Seq(Senders)
  BY RemovedWaiters DEF SafeInv, TypeOK
<1>2. ~Contains(waiters, s) => waiters' = waiters
  BY DEF RemoveFirst, Contains
<1>3. Unique(waiters') /\ \A c : Contains(waiters', c) <=> Contains(waiters, c) /\ c # s
  <2>1. CASE Contains(waiters, s)
    BY <1>1, <2>1, RemovedOnce DEF Waiting
  <2>2. CASE ~Contains(waiters, s)
    BY <1>2, <2>2 DEF Waiting
  <2>. QED
    BY <2>1, <2>2
<1>4. \A c \in Senders \ {s} : WillPoll(c) => WillPoll(c)'
  BY DEF WillPoll
<1>5. Waiting'
  BY <1>3, <1>4 DEF Waiting
<1>6. ASSUME waiters' # <<>>, HasCapacity(queue', reserved')
      PROVE  WillPoll(Head(waiters))'
  <2>1. Head(waiters') \in Senders /\ Contains(waiters', Head(waiters'))
        /\ NextSender(waiters') = {Head(waiters')}
    BY <1>1, <1>6, HeadWaits
  <2>2. CASE Contains(waiters, s)
    <3>1. Head(waiters') \in wakes'[s]
      BY <1>6, <2>1, <2>2
    <3>. QED
      BY <3>1 DEF WillPoll, Actors
  <2>3. CASE ~Contains(waiters, s)
    <3>1. WillPoll(Head(waiters)) /\ Head(waiters) # s
      BY <1>2, <1>3, <1>6, <2>1, <2>3 DEF NoLostSenderWake
    <3>. QED
      BY <1>2, <1>4, <2>1, <2>3, <3>1
  <2>. QED
    BY <2>2, <2>3
<1>. QED
  BY <1>5, <1>6 DEF NoLostSenderWake

\* The waiters are drained and all of them are woken.
LEMMA WaitersReleased ==
    ASSUME Waiting, NEW a \in Actors, waiters' = <<>>, ToSet(waiters) \subseteq wakes'[a],
           \A c \in Senders : pc'[c] = "reserving" <=> pc[c] = "reserving",
           \A c \in Senders : c \in woken => c \in woken',
           \A b \in Actors : wakes[b] \subseteq wakes'[b]
    PROVE  Waiting' /\ NoLostSenderWake'
<1>1. \A c : ~Contains(waiters', c)
  BY DEF Contains
<1>2. \A c : Contains(waiters, c) => c \in ToSet(waiters)
  BY DEF Contains, ToSet
<1>3. \A c \in Senders : WillPoll(c) \/ Contains(waiters, c) => WillPoll(c)'
  BY <1>2 DEF WillPoll
<1>4. Unique(waiters')
  BY DEF Unique
<1>. QED
  BY <1>1, <1>3, <1>4 DEF Waiting, NoLostSenderWake

\* What a step of a sender leaves to the others.
LEMMA SenderActs ==
    ASSUME WakeInv, NEW s \in Senders, NEW state \in States \ {"receiving"}, Goto(s, state),
           wakes[s] = {}, wakes' = wakes \/ \E set : WillWake(s, set)
    PROVE  /\ pc'[s] = state /\ pc'[Recv] = pc[Recv]
           /\ \A c \in Senders \ {s} : pc'[c] = pc[c]
           /\ \A b \in Actors : wakes[b] \subseteq wakes'[b]
           /\ \A set : WillWake(s, set) => wakes'[s] = set
           /\ state # "dropping" \/ wakes' = wakes => Dropping'
<1>1. /\ pc'[s] = state /\ pc'[Recv] = pc[Recv]
      /\ \A c \in Senders \ {s} : pc'[c] = pc[c]
  BY SenderMoves, MpscAssumption DEF MpscAssumption, WakeInv, SafeInv, Actors
<1>2. \A b \in Actors \ {s} : wakes'[b] = wakes[b]
  BY DEF WillWake, WakeInv, SafeInv, TypeOK
<1>3. \A set : WillWake(s, set) => wakes'[s] = set
  BY DEF WillWake, WakeInv, SafeInv, TypeOK, Actors
<1>4. \A b \in Actors : wakes[b] \subseteq wakes'[b]
  BY <1>2
<1>5. state # "dropping" \/ wakes' = wakes => Dropping'
  BY <1>1, <1>2 DEF Dropping, WakeInv, Actors
<1>. QED
  BY <1>1, <1>3, <1>4, <1>5

LEMMA HandlesWake ==
    ASSUME WakeInv, NEW s \in Senders,
           \/ \E c \in Senders : Clone(s, c)
           \/ Upgrade(s) \/ DropSender(s) \/ TakeRecvWaker(s)
    PROVE  WakeInv'
<1> USE DEF WakeInv
<1>1. SafeInv'
  BY HandlesSafe
<1>2. ASSUME NEW c \in Senders, pc[c] = "none", Goto(c, "idle"), count' = count + 1,
             UNCHANGED <<queue, reserved, waiters, recvWaker, closed, woken, wakes>>
      PROVE  WakeInv'
  <2>1. /\ pc'[c] = "idle" /\ pc'[Recv] = pc[Recv] /\ \A d \in Senders \ {c} : pc'[d] = pc[d]
    BY <1>2, SenderMoves, MpscAssumption DEF MpscAssumption, SafeInv, Actors, States
  <2>2. Waiting' /\ NoLostSenderWake'
    BY <1>2, <2>1, WaitersKept
  <2>3. Disconnected' => Disconnected
    BY <1>2, SetsFinite DEF Disconnected, SafeInv, TypeOK
  <2>4. Receiving'
    BY <1>2, <2>1, <2>3, ReceiverKept
  <2>5. Dropping'
    BY <1>2, <2>1 DEF Dropping
  <2>. QED
    BY <1>1, <2>2, <2>4, <2>5
<1>3. CASE \E c \in Senders : Clone(s, c)
  BY <1>2, <1>3 DEF Clone
<1>4. CASE Upgrade(s)
  BY <1>2, <1>4 DEF Upgrade
<1>5. CASE DropSender(s)
  <2>. DEFINE state == IF count = 1 THEN "dropping" ELSE "none"
  <2>1. /\ pc[s] = "idle" /\ wakes[s] = {} /\ Goto(s, state) /\ count' = count - 1
        /\ UNCHANGED <<queue, reserved, waiters, recvWaker, closed, woken, wakes>>
    BY <1>5 DEF DropSender, At
  <2>2. state \in States \ {"receiving", "reserving"}
    BY DEF States
  <2>3. count' = 0 => state = "dropping"
    BY <2>1, SetsFinite DEF SafeInv, TypeOK
  <2>. HIDE DEF state
  <2>4. /\ pc'[s] = state /\ pc'[Recv] = pc[Recv] /\ Dropping'
        /\ \A c \in Senders \ {s} : pc'[c] = pc[c]
    BY <2>1, <2>2, SenderActs
  <2>5. Waiting' /\ NoLostSenderWake'
    BY <2>1, <2>2, <2>4, WaitersKept
  <2>6. Disconnected' => Disconnected \/ \E c \in Senders : pc'[c] = "dropping"
    BY <2>1, <2>3, <2>4 DEF Disconnected
  <2>7. Receiving'
    BY <2>1, <2>4, <2>6, ReceiverKept
  <2>. QED
    BY <1>1, <2>4, <2>5, <2>7
<1>6. CASE TakeRecvWaker(s)
  <2>1. /\ pc[s] = "dropping" /\ wakes[s] = {} /\ Goto(s, "none") /\ WillWake(s, RecvTaken)
        /\ recvWaker' = FALSE /\ UNCHANGED <<queue, reserved, waiters, closed, woken>>
    BY <1>6 DEF TakeRecvWaker, Dropping
  <2>2. /\ pc'[s] = "none" /\ pc'[Recv] = pc[Recv] /\ Dropping' /\ wakes'[s] = RecvTaken
        /\ \A c \in Senders \ {s} : pc'[c] = pc[c]
        /\ \A b \in Actors : wakes[b] \subseteq wakes'[b]
    BY <2>1, SenderActs DEF States
  <2>3. Waiting' /\ NoLostSenderWake'
    BY <2>1, <2>2, WaitersKept
  <2>4. Receiving'
    BY <2>1, <2>2, ReceiverWoken DEF Actors
  <2>. QED
    BY <1>1, <2>2, <2>3, <2>4
<1>. QED
  BY <1>3, <1>4, <1>5, <1>6

LEMMA ReserveWakes ==
    ASSUME WakeInv, NEW s \in Senders,
           Reserve(s) \/ PollReserve(s) \/ DropReserve(s) \/ TryReserve(s)
    PROVE  WakeInv'
<1> USE DEF WakeInv
<1>1. SafeInv'
  BY ReserveSafe
\* None of them touches the receiver's waker.
<1>2. ASSUME NEW state \in {"idle", "reserving", "permit"}, Goto(s, state), wakes[s] = {},
             pc[s] # "dropping", wakes' = wakes \/ \E set : WillWake(s, set),
             Recv \in woken => Recv \in woken',
             UNCHANGED <<queue, recvWaker, count, closed>>
      PROVE  /\ Receiving' /\ Dropping'
             /\ pc'[s] = state /\ \A c \in Senders \ {s} : pc'[c] = pc[c]
             /\ \A b \in Actors : wakes[b] \subseteq wakes'[b]
             /\ \A set : WillWake(s, set) => wakes'[s] = set
  <2>1. /\ pc'[s] = state /\ pc'[Recv] = pc[Recv] /\ Dropping'
        /\ \A c \in Senders \ {s} : pc'[c] = pc[c]
        /\ \A b \in Actors : wakes[b] \subseteq wakes'[b]
        /\ \A set : WillWake(s, set) => wakes'[s] = set
    BY <1>2, SenderActs DEF States
  <2>2. Disconnected' => Disconnected
    BY <1>2 DEF Disconnected
  <2>3. Receiving'
    BY <1>2, <2>1, <2>2, ReceiverKept
  <2>. QED
    BY <2>1, <2>3
<1>3. s # Recv /\ (Recv \in woken => Recv \in woken \ {s})
  BY MpscAssumption DEF MpscAssumption
<1>4. CASE Reserve(s)
  <2>1. /\ pc[s] = "idle" /\ wakes[s] = {} /\ Goto(s, "reserving") /\ woken' = woken \cup {s}
        /\ UNCHANGED <<queue, reserved, waiters, recvWaker, count, closed, wakes>>
    BY <1>4 DEF Reserve, At, chan
  <2>2. Receiving' /\ Dropping' /\ pc'[s] = "reserving" /\ \A c \in Senders \ {s} : pc'[c] = pc[c]
    BY <1>2, <2>1
  <2>3. \A c : (WillPoll(c) => WillPoll(c)') /\ WillPoll(s)'
    BY <2>1 DEF WillPoll
  <2>4. Waiting'
    BY <2>1, <2>2, <2>3 DEF Waiting
  <2>5. NoLostSenderWake'
    BY <2>1, <2>3 DEF NoLostSenderWake
  <2>. QED
    BY <1>1, <2>2, <2>4, <2>5
\* The future fails or is dropped while the channel is open, ...
<1>5. ASSUME pc[s] = "reserving", wakes[s] = {}, Goto(s, "idle"), Cleanup(s),
             woken' = woken \ {s}, ~closed
      PROVE  WakeInv'
  <2>1. UNCHANGED <<queue, reserved, recvWaker, count, closed>>
        /\ waiters' = RemoveFirst(waiters, s) /\ (wakes' = wakes \/ \E set : WillWake(s, set))
    BY <1>5 DEF Cleanup
  <2>2. /\ Receiving' /\ Dropping' /\ pc'[s] = "idle" /\ \A c \in Senders \ {s} : pc'[c] = pc[c]
        /\ \A b \in Actors : wakes[b] \subseteq wakes'[b]
        /\ \A set : WillWake(s, set) => wakes'[s] = set
    BY <1>2, <1>3, <1>5, <2>1
  <2>3. Contains(waiters, s) /\ HasCapacity(queue, reserved) =>
            wakes'[s] = NextSender(RemoveFirst(waiters, s))
    BY <1>5, <2>2 DEF Cleanup
  <2>4. Waiting' /\ NoLostSenderWake'
    BY <1>5, <2>1, <2>2, <2>3, WaiterLeaves
  <2>. QED
    BY <1>1, <2>2, <2>4
\* ... or after it was closed, when there are no waiters.
<1>6. ASSUME pc[s] = "reserving", wakes[s] = {}, Goto(s, "idle"), woken' = woken \ {s}, closed,
             wakes' = wakes \/ \E set : WillWake(s, set),
             UNCHANGED <<queue, reserved, waiters, recvWaker, count, closed>>
      PROVE  WakeInv'
  <2>1. /\ Receiving' /\ Dropping' /\ pc'[s] = "idle" /\ \A c \in Senders \ {s} : pc'[c] = pc[c]
        /\ \A b \in Actors : wakes[b] \subseteq wakes'[b]
    BY <1>2, <1>3, <1>6
  <2>2. \A c \in Senders \ {s} : WillPoll(c) => WillPoll(c)'
    BY <1>6, <2>1 DEF WillPoll
  <2>3. waiters = <<>> /\ \A c : ~Contains(waiters, c)
    BY <1>6 DEF Waiting, Contains
  <2>4. Waiting' /\ NoLostSenderWake'
    BY <1>6, <2>1, <2>2, <2>3 DEF Waiting, NoLostSenderWake
  <2>. QED
    BY <1>1, <2>1, <2>4
<1>7. ASSUME pc[s] = "reserving", wakes[s] = {}, Goto(s, "idle"), Cleanup(s), woken' = woken \ {s}
      PROVE  WakeInv'
  BY <1>5, <1>6, <1>7 DEF Cleanup
<1>8. CASE DropReserve(s)
  BY <1>7, <1>8 DEF DropReserve, At
<1>9. CASE TryReserve(s)
  <2>1. /\ pc[s] = "idle" /\ wakes[s] = {} /\ Goto(s, "permit") /\ waiters = <<>>
        /\ UNCHANGED <<queue, waiters, recvWaker, count, closed, woken, wakes>>
    BY <1>9 DEF TryReserve, At
  <2>2. Receiving' /\ Dropping' /\ pc'[s] = "permit" /\ \A c \in Senders \ {s} : pc'[c] = pc[c]
    BY <1>2, <2>1
  <2>3. \A c : WillPoll(c) <=> WillPoll(c)'
    BY <2>1 DEF WillPoll
  <2>4. Waiting' /\ NoLostSenderWake'
    BY <2>1, <2>2, <2>3 DEF Waiting, NoLostSenderWake, Contains
  <2>. QED
    BY <1>1, <2>2, <2>4
<1>10. CASE PollReserve(s)
  <2>1. pc[s] = "reserving" /\ wakes[s] = {} /\ woken' = woken \ {s}
    BY <1>10 DEF PollReserve, At
  <2>2. CASE Cleanup(s) /\ Goto(s, "idle")
    BY <1>7, <2>1, <2>2
  <2>3. CASE closed /\ Goto(s, "idle") /\ UNCHANGED <<chan, wakes>>
    BY <1>6, <2>1, <2>3 DEF chan
  <2>4. CASE ~closed /\ HasCapacity(queue, reserved) /\ GrantSlot(s) /\ Goto(s, "permit")
    <3>1. /\ UNCHANGED <<queue, recvWaker, count, closed>> /\ reserved' = reserved + 1
          /\ waiters' = RemoveFirst(waiters, s) /\ \E set : WillWake(s, set)
      BY <2>4 DEF GrantSlot
    <3>2. /\ Receiving' /\ Dropping' /\ pc'[s] = "permit" /\ \A c \in Senders \ {s} : pc'[c] = pc[c]
          /\ \A b \in Actors : wakes[b] \subseteq wakes'[b]
          /\ \A set : WillWake(s, set) => wakes'[s] = set
      BY <1>2, <1>3, <2>1, <2>4, <3>1
    <3>3. Contains(waiters, s) /\ HasCapacity(queue', reserved') =>
              wakes'[s] = NextSender(RemoveFirst(waiters, s))
      BY <2>4, <3>1, <3>2 DEF GrantSlot
    <3>4. Waiting' /\ NoLostSenderWake'
      BY <2>1, <2>4, <3>1, <3>2, <3>3, WaiterLeaves
    <3>. QED
      BY <1>1, <3>2, <3>4
  <2>5. CASE /\ ~closed
             /\ HasCapacity(queue, reserved) =>
                  ~(IF Contains(waiters, s) THEN Head(waiters) = s ELSE waiters = <<>>)
             /\ waiters' = IF Contains(waiters, s) THEN waiters ELSE Append(waiters, s)
             /\ UNCHANGED <<queue, reserved, recvWaker, count, closed, pc, wakes>>
    <3>1. Receiving' /\ Dropping'
      <4>1. Goto(s, "reserving")
        BY <2>1, <2>5 DEF Goto, SafeInv, TypeOK
      <4>. QED
        BY <1>2, <1>3, <2>1, <2>5, <4>1
    <3>2. \A c \in Actors \ {s} : WillPoll(c) => WillPoll(c)'
      BY <2>1, <2>5 DEF WillPoll
    <3>3. waiters \in Seq(Senders)
      BY DEF SafeInv, TypeOK
    <3>4. /\ Unique(waiters')
          /\ \A c : Contains(waiters', c) <=> Contains(waiters, c) \/ c = s
          /\ waiters # <<>> => Head(waiters') = Head(waiters)
      BY <2>5, <3>3, AppendedOnce DEF Waiting
    <3>5. Waiting'
      BY <2>1, <2>5, <3>2, <3>4 DEF Waiting, Actors
    <3>6. ASSUME HasCapacity(queue, reserved)
          PROVE  waiters # <<>> /\ Head(waiters) # s
      BY <2>5, <3>3, <3>6, HeadWaits DEF Contains
    <3>7. NoLostSenderWake'
      <4>1. ASSUME HasCapacity(queue, reserved)
            PROVE  WillPoll(Head(waiters))'
        <5>1. WillPoll(Head(waiters)) /\ Head(waiters) # s /\ Head(waiters) \in Actors
          BY <3>3, <3>6, <4>1, HeadWaits DEF NoLostSenderWake, Actors
        <5>2. Head(waiters') = Head(waiters)
          BY <3>4, <3>6, <4>1
        <5>. QED
          BY <3>2, <5>1, <5>2
      <4>. QED
        BY <2>5, <4>1 DEF NoLostSenderWake
    <3>. QED
      BY <1>1, <3>1, <3>5, <3>7
  <2>. QED
    BY <1>10, <2>2, <2>3, <2>4, <2>5 DEF PollReserve
<1>. QED
  BY <1>4, <1>8, <1>9, <1>10

LEMMA SendWakes ==
    ASSUME WakeInv, NEW s \in Senders,
           Commit(s) \/ Abort(s) \/ TrySend(s) \/ SendEvict(s) \/ WakeReceiver(s)
    PROVE  WakeInv'
<1> USE DEF WakeInv
<1>1. SafeInv'
  BY SendSafe, OthersSafe
<1>2. pc[s] \in {"idle", "permit"} /\ wakes[s] = {}
      /\ UNCHANGED <<waiters, count, closed, woken>>
  BY DEF Commit, Abort, TrySend, SendEvict, WakeReceiver, At
<1>3. Goto(s, "idle")
  <2>1. pc[s] = "idle" /\ pc' = pc => Goto(s, "idle")
    BY DEF Goto, SafeInv, TypeOK
  <2>. QED
    BY <2>1 DEF Commit, Abort, TrySend, SendEvict, WakeReceiver, At
<1>4. wakes' = wakes \/ \E set : WillWake(s, set)
  BY DEF Commit, Abort, TrySend, SendEvict, WakeReceiver, Push
<1>5. /\ pc'[s] = "idle" /\ pc'[Recv] = pc[Recv] /\ Dropping'
      /\ \A c \in Senders \ {s} : pc'[c] = pc[c]
      /\ \A b \in Actors : wakes[b] \subseteq wakes'[b]
      /\ \A set : WillWake(s, set) => wakes'[s] = set
  BY <1>2, <1>3, <1>4, SenderActs DEF States
<1>6. \A c \in Senders : pc'[c] = "reserving" <=> pc[c] = "reserving"
  BY <1>2, <1>5
<1>7. Disconnected' => Disconnected
  BY <1>2 DEF Disconnected
\* The receiver is woken when there is a message.
<1>8. ASSUME WillWake(s, RecvTaken), recvWaker' = FALSE
      PROVE  Receiving'
  BY <1>2, <1>5, <1>8, ReceiverWoken DEF Actors
<1>9. Receiving'
  <2>1. CASE Commit(s)
    BY <1>2, <1>5, <1>7, <1>8, <2>1, ReceiverKept DEF Commit, Push
  <2>2. CASE Abort(s)
    BY <1>2, <1>5, <1>7, <2>2, ReceiverKept DEF Abort
  <2>3. CASE TrySend(s) \/ SendEvict(s) \/ WakeReceiver(s)
    BY <1>8, <2>3 DEF TrySend, SendEvict, WakeReceiver, Push
  <2>. QED
    BY <2>1, <2>2, <2>3
\* Room is made by giving a permit up, and the first waiter is woken; or the
\* channel is closed and there is none.
<1>10. \/ HasCapacity(queue', reserved') => HasCapacity(queue, reserved)
       \/ NextSender(waiters) \subseteq wakes'[s]
  <2>1. queue \in Seq(Senders) /\ Len(queue) \in Nat /\ reserved \in Nat /\ Capacity \in Nat
    BY MpscAssumption DEF MpscAssumption, SafeInv, TypeOK
  <2>2. CASE Abort(s)
    BY <1>5, <2>2 DEF Abort
  <2>3. CASE Commit(s) /\ closed
    BY <2>3 DEF Waiting, NextSender
  <2>4. CASE Commit(s) /\ ~closed
    <3>1. reserved' = reserved - 1 /\ Len(queue') = Len(queue) + 1
      BY <2>1, <2>4 DEF Commit, Push
    <3>. QED
      BY <2>1, <3>1 DEF HasCapacity
  <2>5. ASSUME reserved' = reserved, Push(s, queue)
        PROVE  HasCapacity(queue', reserved') => HasCapacity(queue, reserved)
    BY <2>1, <2>5 DEF Push, HasCapacity
  <2>6. ASSUME reserved' = reserved, NEW i \in 1 .. Len(queue), Push(s, RemoveAt(queue, i))
        PROVE  HasCapacity(queue', reserved') => HasCapacity(queue, reserved)
    <3>1. RemoveAt(queue, i) \in Seq(Senders) /\ Len(RemoveAt(queue, i)) = Len(queue) - 1
      BY <2>1, <2>6, RemoveAtProperties
    <3>2. Len(queue') = Len(queue)
      BY <2>1, <2>6, <3>1 DEF Push
    <3>. QED
      BY <2>6, <3>2 DEF HasCapacity
  <2>7. CASE TrySend(s) \/ SendEvict(s) \/ WakeReceiver(s)
    BY <2>5, <2>6, <2>7 DEF TrySend, SendEvict, WakeReceiver
  <2>. QED
    BY <2>2, <2>3, <2>4, <2>7
<1>11. Waiting' /\ NoLostSenderWake'
  BY <1>2, <1>5, <1>6, <1>10, WaitersKept DEF Actors
<1>. QED
  BY <1>1, <1>5, <1>9, <1>11

LEMMA CloseReceiverWakes ==
    ASSUME WakeInv, NEW s \in Senders, CloseReceiver(s)
    PROVE  WakeInv'
<1> USE DEF WakeInv
<1>1. SafeInv'
  BY OthersSafe
<1>2. /\ pc[s] = "idle" /\ wakes[s] = {} /\ WillWake(s, ToSet(waiters) \cup RecvTaken)
      /\ recvWaker' = FALSE /\ waiters' = <<>> /\ UNCHANGED <<pc, woken>>
  BY DEF CloseReceiver, At
<1>3. Goto(s, "idle")
  BY <1>2 DEF Goto, SafeInv, TypeOK
<1>4. /\ pc'[Recv] = pc[Recv] /\ Dropping'
      /\ \A b \in Actors : wakes[b] \subseteq wakes'[b]
      /\ wakes'[s] = ToSet(waiters) \cup RecvTaken
  BY <1>2, <1>3, SenderActs DEF States
<1>5. Waiting' /\ NoLostSenderWake'
  BY <1>2, <1>4, WaitersReleased DEF Actors
<1>6. Receiving'
  BY <1>2, <1>4, ReceiverWoken DEF Actors
<1>. QED
  BY <1>1, <1>4, <1>5, <1>6

LEMMA ReceiverWakes ==
    ASSUME WakeInv, ReceiverSteps
    PROVE  WakeInv'
<1> USE DEF WakeInv
<1>1. SafeInv'
  BY ReceiverSafe
<1>2. Recv \in Actors /\ Recv \notin Senders
  BY MpscAssumption DEF MpscAssumption, Actors
<1>3. /\ wakes[Recv] = {} /\ (pc' = pc \/ \E state : Goto(Recv, state))
      /\ (wakes' = wakes \/ \E set : WillWake(Recv, set))
  BY DEF ReceiverSteps, StartRecv, PollRecv, DropRecv, TryRecv, Close, PopFront, At
<1>4. \A c \in Senders : pc'[c] = pc[c] /\ wakes'[c] = wakes[c]
  BY <1>2, <1>3 DEF Goto, WillWake, SafeInv, TypeOK, Actors
<1>5. \A b \in Actors : wakes[b] \subseteq wakes'[b]
  BY <1>3, <1>4 DEF Actors
<1>6. \A c \in Senders : c \in woken => c \in woken'
  BY <1>2 DEF ReceiverSteps, StartRecv, PollRecv, DropRecv, TryRecv, Close
<1>7. Dropping'
  BY <1>4 DEF Dropping
<1>8. \A set : WillWake(Recv, set) => wakes'[Recv] = set
  BY <1>2 DEF WillWake, SafeInv, TypeOK
<1>9. \A state : Goto(Recv, state) => pc'[Recv] = state
  BY <1>2 DEF Goto, SafeInv, TypeOK
\* A receiver that does not wait has no waker.
<1>10. ASSUME ~recvWaker', pc'[Recv] # "receiving"
       PROVE  Receiving'
  BY <1>10 DEF Receiving
<1>11. pc[Recv] = "idle" => ~recvWaker
  BY DEF Receiving
<1>12. ASSUME UNCHANGED <<queue, reserved, waiters, closed>> \/ PopFront
       PROVE  Waiting' /\ NoLostSenderWake'
  <2>1. CASE UNCHANGED <<queue, reserved, waiters, closed>>
    BY <1>4, <1>5, <1>6, <2>1, WaitersKept
  <2>2. CASE PopFront
    <3>1. NextSender(waiters) \subseteq wakes'[Recv] /\ UNCHANGED <<waiters, closed>>
      BY <1>8, <2>2 DEF PopFront
    <3>. QED
      BY <1>2, <1>4, <1>5, <1>6, <3>1, WaitersKept
  <2>. QED
    BY <1>12, <2>1, <2>2
<1>13. CASE StartRecv
  <2>1. Waiting' /\ NoLostSenderWake'
    BY <1>12, <1>13 DEF StartRecv, chan
  <2>2. pc'[Recv] = "receiving" /\ WillPoll(Recv)' /\ ~recvWaker'
    BY <1>2, <1>9, <1>11, <1>13 DEF StartRecv, At, chan, WillPoll
  <2>. QED
    BY <1>1, <1>7, <2>1, <2>2 DEF Receiving
<1>14. CASE PollRecv
  <2>1. Waiting' /\ NoLostSenderWake'
    BY <1>12, <1>14 DEF PollRecv
  <2>2. CASE recvWaker' = FALSE /\ Goto(Recv, "idle")
    BY <1>1, <1>7, <1>9, <1>10, <2>1, <2>2
  <2>3. CASE /\ queue = <<>> /\ ~Disconnected /\ recvWaker' = TRUE
             /\ UNCHANGED <<queue, count, closed, pc>>
    <3>1. pc[Recv] = "receiving"
      BY <1>14 DEF PollRecv, At
    <3>2. queue' = <<>> /\ ~Disconnected' /\ pc'[Recv] = "receiving"
      BY <2>3, <3>1 DEF Disconnected
    <3>. QED
      BY <1>1, <1>7, <2>1, <2>3, <3>2 DEF Receiving
  <2>. QED
    BY <1>14, <2>2, <2>3 DEF PollRecv, PopFront
<1>15. CASE DropRecv
  <2>1. Waiting' /\ NoLostSenderWake'
    BY <1>12, <1>15 DEF DropRecv
  <2>. QED
    BY <1>1, <1>7, <1>9, <1>10, <1>15, <2>1 DEF DropRecv
<1>16. CASE TryRecv
  <2>1. Waiting' /\ NoLostSenderWake'
    BY <1>12, <1>16 DEF TryRecv
  <2>2. pc'[Recv] = "idle" /\ recvWaker' = FALSE
    BY <1>16 DEF TryRecv, PopFront, At
  <2>. QED
    BY <1>1, <1>7, <1>10, <2>1, <2>2
<1>17. ASSUME NEW drops \in BOOLEAN, Close(drops)
       PROVE  WakeInv'
  <2>1. waiters' = <<>> /\ wakes'[Recv] = ToSet(waiters)
    BY <1>8, <1>17 DEF Close
  <2>2. Waiting' /\ NoLostSenderWake'
    BY <1>2, <1>4, <1>5, <1>6, <2>1, WaitersReleased
  <2>3. pc'[Recv] # "receiving" /\ ~recvWaker'
    BY <1>9, <1>11, <1>17 DEF Close, At
  <2>. QED
    BY <1>1, <1>7, <1>10, <2>2, <2>3
<1>. QED
  BY <1>13, <1>14, <1>15, <1>16, <1>17 DEF ReceiverSteps

LEMMA WakesWake ==
    ASSUME WakeInv, (\E a \in Actors : Cancel(a)) \/ (\E a, b \in Actors : Wake(a, b))
                    \/ UNCHANGED vars
    PROVE  WakeInv'
<1> USE DEF WakeInv
<1>1. SafeInv'
  BY OthersSafe
<1>2. UNCHANGED <<queue, reserved, waiters, recvWaker, count, closed, pc>>
  BY DEF Cancel, Wake, vars, chan, tasks
\* A wake is passed to the task it is for, if that still waits.
<1>3. ASSUME NEW c \in Actors, pc[c] \in {"reserving", "receiving"}, WillPoll(c)
      PROVE  WillPoll(c)'
  <2>1. CASE \E a \in Actors : Cancel(a)
    BY <1>3, <2>1 DEF Cancel, WillPoll
  <2>2. ASSUME NEW a \in Actors, NEW b \in Actors, Wake(a, b)
        PROVE  WillPoll(c)'
    <3>1. c = b => c \in woken'
      BY <1>3, <2>2 DEF Wake
    <3>2. c # b => \A d \in Actors : c \in wakes[d] => c \in wakes'[d]
      BY <2>2 DEF Wake, SafeInv, TypeOK
    <3>3. c \in woken => c \in woken'
      BY <2>2 DEF Wake
    <3>. QED
      BY <1>3, <3>1, <3>2, <3>3 DEF WillPoll
  <2>3. CASE UNCHANGED vars
    BY <1>3, <2>3 DEF vars, tasks, WillPoll
  <2>. QED
    BY <2>1, <2>2, <2>3
<1>4. Waiting'
  BY <1>2, <1>3 DEF Waiting, Actors
<1>5. NoLostSenderWake'
  <2>1. ASSUME waiters # <<>>, WillPoll(Head(waiters))
        PROVE  WillPoll(Head(waiters))'
    <3>1. Head(waiters) \in Actors /\ pc[Head(waiters)] = "reserving"
      BY <2>1, HeadWaits DEF SafeInv, TypeOK, Waiting, Actors
    <3>. QED
      BY <1>2, <1>3, <2>1, <3>1
  <2>. QED
    BY <1>2, <2>1 DEF NoLostSenderWake
<1>6. Receiving'
  BY <1>2, <1>3 DEF Receiving, Disconnected, Actors
<1>7. Dropping'
  <2>1. \A c \in Actors : wakes'[c] \subseteq wakes[c]
    BY DEF Cancel, Wake, vars, tasks, SafeInv, TypeOK
  <2>. QED
    BY <1>2, <2>1 DEF Dropping, Actors
<1>. QED
  BY <1>1, <1>4, <1>5, <1>6, <1>7

LEMMA WakeInvInvariant == Spec => []WakeInv
<1>1. Init => WakeInv
  <2>. SUFFICES ASSUME Init
                PROVE  WakeInv
    OBVIOUS
  <2>1. SafeInv
    BY SafeInitially
  <2>2. waiters = <<>> /\ \A c : ~Contains(waiters, c)
    BY DEF Init, Contains
  <2>3. \A a \in Actors : pc[a] \in {"idle", "none"}
    BY DEF Init
  <2>4. Unique(waiters)
    BY <2>2 DEF Unique
  <2>5. Waiting /\ NoLostSenderWake
    BY <2>2, <2>3, <2>4 DEF Waiting, NoLostSenderWake, Actors
  <2>6. Receiving /\ Dropping
    BY <2>3 DEF Init, Receiving, Dropping, Actors
  <2>. QED
    BY <2>1, <2>5, <2>6 DEF WakeInv
<1>2. ASSUME WakeInv, [Next]_vars
      PROVE  WakeInv'
  BY <1>2, HandlesWake, ReserveWakes, SendWakes, CloseReceiverWakes, ReceiverWakes, WakesWake
     DEF Next, SenderSteps
<1>. QED
  BY <1>1, <1>2, PTL DEF Spec

\* A free slot is never left to a waiter that sleeps, although the wake is
\* called after the lock is released and the waiter that was woken may be
\* dropped, be cancelled or lose the slot to try_send before it polls.
THEOREM SenderWakeups == Spec => []NoLostSenderWake
BY WakeInvInvariant, PTL DEF WakeInv

\* Every sender that waits on a closed channel is woken: the waiter queue is
\* drained when the channel is closed, and nobody enters it afterwards.
THEOREM CloseReleasesSenders == Spec => []ClosedReleases
<1>1. WakeInv => ClosedReleases
  BY DEF WakeInv, Waiting, ClosedReleases, Contains
<1>. QED
  BY <1>1, WakeInvInvariant, PTL

\* The receiver does not sleep on a message, on a closed channel, or on the
\* loss of the last sender, which is counted outside the lock.
THEOREM ReceiverWakeups == Spec => []NoLostRecvWake
<1>1. WakeInv => NoLostRecvWake
  BY DEF WakeInv, Receiving, NoLostRecvWake
<1>. QED
  BY <1>1, WakeInvInvariant, PTL
=============================================================================
