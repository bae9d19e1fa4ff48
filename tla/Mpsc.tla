-------------------------------- MODULE Mpsc --------------------------------
(***************************************************************************)
(* The two-phase channel of src/src/channel/mpsc.rs: a sender reserves a   *)
(* slot, then commits a message to it or gives it up.                      *)
(*                                                                         *)
(* Everything done under the channel's lock is one step; the wakers taken  *)
(* there are called afterwards, one step each.  A task is polled whenever  *)
(* it likes, but can be relied on to poll only after a wake.  The waiter   *)
(* queue and the slab of wakers always hold the same waiters and are one   *)
(* sequence.  A message is named by its sender.                            *)
(***************************************************************************)
EXTENDS Naturals, Sequences, FiniteSets, SequencesExt

CONSTANTS
    Senders,   \* the Sender handles, each used by one task
    Recv,      \* the task of the receiver
    Capacity   \* the capacity of the channel

ASSUME MpscAssumption ==
    /\ IsFiniteSet(Senders) /\ Recv \notin Senders
    /\ Capacity \in Nat \ {0}

Actors == Senders \cup {Recv}

VARIABLES
    queue,     \* the messages
    reserved,  \* the number of outstanding permits
    waiters,   \* waiter_queue, with the wakers of send_wakers
    recvWaker, \* the receiver's waker is registered
    count,     \* sender_count
    closed,    \* receiver_dropped
    pc,        \* what each task is doing
    cancelled, \* the tasks whose checkpoint() fails
    woken,     \* the tasks that were woken since their last poll
    wakes,     \* the wakers each task took and has not called yet
    ended      \* the receiver has been told Disconnected

chan == <<queue, reserved, waiters, recvWaker, count, closed>>
tasks == <<pc, cancelled, woken, wakes, ended>>
vars == <<chan, tasks>>

\* "none": no handle (any more); "reserving", "receiving": has a future;
\* "dropping": the last handle is dropped and the waker not yet taken.
States == {"none", "idle", "reserving", "permit", "dropping", "receiving"}

Init ==
    /\ queue = <<>> /\ reserved = 0 /\ waiters = <<>>
    /\ recvWaker = FALSE /\ count = 1 /\ closed = FALSE
    /\ \E first \in Senders :
          pc = [a \in Actors |-> IF a \in {first, Recv} THEN "idle" ELSE "none"]
    /\ cancelled = {}
    /\ woken = {}
    /\ wakes = [a \in Actors |-> {}]
    /\ ended = FALSE

\* The task is not inside an earlier call, calling wakers.
At(a, state) == pc[a] = state /\ wakes[a] = {}
Goto(a, state) == pc' = [pc EXCEPT ![a] = state]

-----------------------------------------------------------------------------
(* ChannelInner.                                                           *)

\* has_capacity
HasCapacity(q, r) == Len(q) + r < Capacity

\* take_next_sender_waker: the waiter stays in the queue.
NextSender(ws) == IF ws = <<>> THEN {} ELSE {Head(ws)}

\* The waker that recv_waker.take() leaves to the caller.
RecvTaken == IF recvWaker THEN {Recv} ELSE {}

WillWake(a, set) == wakes' = [wakes EXCEPT ![a] = set]

\* waker.wake(), after the lock was released.
Wake(a, b) ==
    /\ b \in wakes[a]
    /\ wakes' = [wakes EXCEPT ![a] = @ \ {b}]
    /\ woken' = woken \cup ({b} \cap {c \in Actors : pc[c] \in {"reserving", "receiving"}})
    /\ UNCHANGED <<chan, pc, cancelled, ended>>

\* Cancellation is requested: checkpoint() fails from now on, and the task is
\* woken.
Cancel(a) ==
    /\ a \notin cancelled /\ pc[a] # "none"
    /\ cancelled' = cancelled \cup {a}
    /\ woken' = woken \cup ({a} \cap {c \in Actors : pc[c] \in {"reserving", "receiving"}})
    /\ UNCHANGED <<chan, pc, wakes, ended>>

-----------------------------------------------------------------------------
(* Sender handles.                                                         *)

Clone(s, c) ==
    /\ At(s, "idle") /\ pc[c] = "none"
    /\ count' = count + 1
    /\ Goto(c, "idle")
    /\ UNCHANGED <<queue, reserved, waiters, recvWaker, closed, cancelled, woken, wakes, ended>>

\* Mutant: a dead channel gets a sender again.
UpgradeAlways(c) ==
    /\ pc[c] = "none"
    /\ count' = count + 1
    /\ Goto(c, "idle")
    /\ UNCHANGED <<queue, reserved, waiters, recvWaker, closed, cancelled, woken, wakes, ended>>

\* WeakSender::upgrade
Upgrade(c) ==
    /\ pc[c] = "none"
    /\ count > 0
    /\ count' = count + 1
    /\ Goto(c, "idle")
    /\ UNCHANGED <<queue, reserved, waiters, recvWaker, closed, cancelled, woken, wakes, ended>>

\* Mutant: the last handle does not wake the receiver.
DropSenderSilently(s) ==
    /\ At(s, "idle")
    /\ count' = count - 1
    /\ Goto(s, "none")
    /\ UNCHANGED <<queue, reserved, waiters, recvWaker, closed, cancelled, woken, wakes, ended>>

\* Sender::drop decrements the count without the lock ...
DropSender(s) ==
    /\ At(s, "idle")
    /\ count' = count - 1
    /\ Goto(s, IF count = 1 THEN "dropping" ELSE "none")
    /\ UNCHANGED <<queue, reserved, waiters, recvWaker, closed, cancelled, woken, wakes, ended>>

\* ... and the last one takes the receiver's waker under it.
TakeRecvWaker(s) ==
    /\ pc[s] = "dropping"
    /\ recvWaker' = FALSE
    /\ WillWake(s, RecvTaken)
    /\ Goto(s, "none")
    /\ UNCHANGED <<queue, reserved, waiters, count, closed, cancelled, woken, ended>>

-----------------------------------------------------------------------------
(* Phase 1: reserve.                                                       *)

Reserve(s) ==
    /\ At(s, "idle")
    /\ Goto(s, "reserving")
    /\ woken' = woken \cup {s}
    /\ UNCHANGED <<chan, cancelled, wakes, ended>>

\* Mutant: the waiter leaves without passing the baton.
CleanupSilently(s) ==
    /\ waiters' = IF closed THEN waiters ELSE RemoveFirst(waiters, s)
    /\ WillWake(s, {})
    /\ UNCHANGED <<queue, reserved, recvWaker, count, closed>>

\* cleanup_waiter: a waiter may leave with the wake that was meant for the
\* one that is first in line, and passes it on.
Cleanup(s) ==
    /\ waiters' = IF closed THEN waiters ELSE RemoveFirst(waiters, s)
    /\ WillWake(s, IF Contains(waiters, s) /\ ~closed /\ HasCapacity(queue, reserved)
                   THEN NextSender(RemoveFirst(waiters, s)) ELSE {})
    /\ UNCHANGED <<queue, reserved, recvWaker, count, closed>>

\* The slot is granted, and the next waiter woken if there is another.
GrantSlot(s) ==
    /\ reserved' = reserved + 1
    /\ waiters' = RemoveFirst(waiters, s)
    /\ WillWake(s, IF Contains(waiters, s) /\ HasCapacity(queue, reserved + 1)
                   THEN NextSender(RemoveFirst(waiters, s)) ELSE {})
    /\ UNCHANGED <<queue, recvWaker, count, closed>>

\* Mutant: a waiter that is in the queue only yields, whatever is free.
PollReserveSpins(s) ==
    /\ At(s, "reserving")
    /\ \/ /\ Contains(waiters, s) /\ s \notin cancelled
          /\ woken' = woken \cup {s}
          /\ UNCHANGED <<chan, pc, wakes>>
       \/ /\ s \in cancelled \/ closed
          /\ Cleanup(s)
          /\ Goto(s, "idle")
          /\ woken' = woken \ {s}
       \/ /\ s \notin cancelled /\ ~closed /\ waiters = <<>> /\ HasCapacity(queue, reserved)
          /\ GrantSlot(s)
          /\ Goto(s, "permit")
          /\ woken' = woken \ {s}
       \/ /\ s \notin cancelled /\ ~closed /\ ~Contains(waiters, s)
          /\ ~HasCapacity(queue, reserved)
          /\ waiters' = Append(waiters, s)
          /\ woken' = woken \ {s}
          /\ UNCHANGED <<queue, reserved, recvWaker, count, closed, pc, wakes>>
    /\ UNCHANGED <<cancelled, ended>>

\* Reserve::poll: cancelled, disconnected, granted or pending.
PollReserve(s) ==
    /\ At(s, "reserving")
    /\ woken' = woken \ {s}
    /\ LET isFirst == IF Contains(waiters, s) THEN Head(waiters) = s ELSE waiters = <<>>
       IN  \/ /\ s \in cancelled
              /\ Cleanup(s)
              /\ Goto(s, "idle")
           \/ /\ s \notin cancelled /\ closed
              /\ Goto(s, "idle")
              /\ UNCHANGED <<chan, wakes>>
           \/ /\ s \notin cancelled /\ ~closed
              /\ isFirst /\ HasCapacity(queue, reserved)
              /\ GrantSlot(s)
              /\ Goto(s, "permit")
           \/ /\ s \notin cancelled /\ ~closed
              /\ ~(isFirst /\ HasCapacity(queue, reserved))
              /\ waiters' = IF Contains(waiters, s) THEN waiters ELSE Append(waiters, s)
              /\ UNCHANGED <<queue, reserved, recvWaker, count, closed, pc, wakes>>
    /\ UNCHANGED <<cancelled, ended>>

\* Reserve::drop, for example in a select.
DropReserve(s) ==
    /\ At(s, "reserving")
    /\ Cleanup(s)
    /\ Goto(s, "idle")
    /\ woken' = woken \ {s}
    /\ UNCHANGED <<cancelled, ended>>

\* try_reserve does not overtake the waiters.
TryReserve(s) ==
    /\ At(s, "idle")
    /\ ~closed /\ waiters = <<>> /\ HasCapacity(queue, reserved)
    /\ reserved' = reserved + 1
    /\ Goto(s, "permit")
    /\ UNCHANGED <<queue, waiters, recvWaker, count, closed, cancelled, woken, wakes, ended>>

-----------------------------------------------------------------------------
(* Phase 2: commit or give up; and the sends without a permit.             *)

\* A message is in the queue, and the receiver's waker taken.
Push(s, rest) ==
    /\ queue' = Append(rest, s)
    /\ recvWaker' = FALSE
    /\ WillWake(s, RecvTaken)

\* SendPermit::try_send
Commit(s) ==
    /\ At(s, "permit")
    /\ reserved' = reserved - 1
    /\ Goto(s, "idle")
    /\ \/ closed /\ UNCHANGED <<queue, recvWaker, wakes>>
       \/ ~closed /\ Push(s, queue)
    /\ UNCHANGED <<waiters, count, closed, cancelled, woken, ended>>

\* SendPermit::abort and SendPermit::drop
Abort(s) ==
    /\ At(s, "permit")
    /\ reserved' = reserved - 1
    /\ WillWake(s, NextSender(waiters))
    /\ Goto(s, "idle")
    /\ UNCHANGED <<queue, waiters, recvWaker, count, closed, cancelled, woken, ended>>

\* Sender::try_send overtakes the waiters if there is a slot.
TrySend(s) ==
    /\ At(s, "idle")
    /\ ~closed /\ HasCapacity(queue, reserved)
    /\ Push(s, queue)
    /\ UNCHANGED <<reserved, waiters, count, closed, pc, cancelled, woken, ended>>

\* send_evict_oldest_where evicts the oldest message its predicate allows, which
\* may be any, if the channel is full, and never a reservation.
SendEvict(s) ==
    /\ At(s, "idle")
    /\ ~closed
    /\ \/ HasCapacity(queue, reserved) /\ Push(s, queue)
       \/ /\ ~HasCapacity(queue, reserved)
          /\ \E i \in 1 .. Len(queue) : Push(s, RemoveAt(queue, i))
    /\ UNCHANGED <<reserved, waiters, count, closed, pc, cancelled, woken, ended>>

\* wake_receiver
WakeReceiver(s) ==
    /\ At(s, "idle")
    /\ recvWaker' = FALSE
    /\ WillWake(s, RecvTaken)
    /\ UNCHANGED <<queue, reserved, waiters, count, closed, pc, cancelled, woken, ended>>

\* Mutant: waiting senders are forgotten.
CloseReceiverSilently(s) ==
    /\ At(s, "idle") /\ ~closed
    /\ closed' = TRUE
    /\ waiters' = <<>>
    /\ recvWaker' = FALSE
    /\ WillWake(s, RecvTaken)
    /\ UNCHANGED <<queue, reserved, count, pc, cancelled, woken, ended>>

\* close_receiver drains the waiters and wakes them, and the receiver.
CloseReceiver(s) ==
    /\ At(s, "idle") /\ ~closed
    /\ closed' = TRUE
    /\ waiters' = <<>>
    /\ recvWaker' = FALSE
    /\ WillWake(s, ToSet(waiters) \cup RecvTaken)
    /\ UNCHANGED <<queue, reserved, count, pc, cancelled, woken, ended>>

-----------------------------------------------------------------------------
(* The receiver.                                                           *)

StartRecv ==
    /\ At(Recv, "idle")
    /\ Goto(Recv, "receiving")
    /\ woken' = woken \cup {Recv}
    /\ UNCHANGED <<chan, cancelled, wakes, ended>>

Disconnected == count = 0 \/ closed

\* A message is taken and its slot offered to the first waiter.
PopFront ==
    /\ queue # <<>>
    /\ queue' = Tail(queue)
    /\ recvWaker' = FALSE
    /\ WillWake(Recv, NextSender(waiters))
    /\ UNCHANGED <<reserved, waiters, count, closed, ended>>

\* poll_recv: cancelled, a message, disconnected or pending.
PollRecv ==
    /\ At(Recv, "receiving")
    /\ woken' = woken \ {Recv}
    /\ \/ /\ Recv \in cancelled
          /\ recvWaker' = FALSE
          /\ Goto(Recv, "idle")
          /\ UNCHANGED <<queue, reserved, waiters, count, closed, wakes, ended>>
       \/ Recv \notin cancelled /\ PopFront /\ Goto(Recv, "idle")
       \/ /\ Recv \notin cancelled /\ queue = <<>> /\ Disconnected
          /\ recvWaker' = FALSE
          /\ ended' = TRUE
          /\ Goto(Recv, "idle")
          /\ UNCHANGED <<queue, reserved, waiters, count, closed, wakes>>
       \/ /\ Recv \notin cancelled /\ queue = <<>> /\ ~Disconnected
          /\ recvWaker' = TRUE
          /\ UNCHANGED <<queue, reserved, waiters, count, closed, wakes, pc, ended>>
    /\ UNCHANGED <<cancelled>>

\* Recv::drop.  A future that was not polled leaves the waker alone, which is
\* then not registered: the polls of a Recv are the only calls of poll_recv here.
DropRecv ==
    /\ At(Recv, "receiving")
    /\ recvWaker' = FALSE
    /\ Goto(Recv, "idle")
    /\ woken' = woken \ {Recv}
    /\ UNCHANGED <<queue, reserved, waiters, count, closed, cancelled, wakes, ended>>

TryRecv ==
    /\ At(Recv, "idle")
    /\ \/ PopFront
       \/ /\ queue = <<>> /\ Disconnected
          /\ recvWaker' = FALSE
          /\ ended' = TRUE
          /\ UNCHANGED <<queue, reserved, waiters, count, closed, wakes>>
    /\ UNCHANGED <<pc, cancelled, woken>>

\* Receiver::close keeps the messages, Receiver::drop does not.
Close(drops) ==
    /\ At(Recv, "idle")
    /\ drops \/ ~closed
    /\ closed' = TRUE
    /\ waiters' = <<>>
    /\ WillWake(Recv, ToSet(waiters))
    /\ queue' = IF drops THEN <<>> ELSE queue
    /\ recvWaker' = IF drops THEN FALSE ELSE recvWaker
    /\ Goto(Recv, IF drops THEN "none" ELSE "idle")
    /\ UNCHANGED <<reserved, count, cancelled, woken, ended>>

-----------------------------------------------------------------------------
SenderSteps(s) ==
    \/ \E c \in Senders : Clone(s, c)
    \/ Upgrade(s) \/ DropSender(s) \/ TakeRecvWaker(s)
    \/ Reserve(s) \/ PollReserve(s) \/ DropReserve(s) \/ TryReserve(s)
    \/ Commit(s) \/ Abort(s) \/ TrySend(s) \/ SendEvict(s)
    \/ WakeReceiver(s) \/ CloseReceiver(s)

ReceiverSteps ==
    StartRecv \/ PollRecv \/ DropRecv \/ TryRecv \/ \E drops \in BOOLEAN : Close(drops)

Next ==
    \/ \E s \in Senders : SenderSteps(s)
    \/ ReceiverSteps
    \/ \E a \in Actors : Cancel(a)
    \/ \E a, b \in Actors : Wake(a, b)

Spec == Init /\ [][Next]_vars

\* A call that took wakers calls them, a woken task is polled, a permit is
\* used or given up, and a receiver receives, or is dropped once cancelled.
Fairness ==
    /\ \A a, b \in Actors : WF_vars(Wake(a, b))
    /\ \A s \in Senders :
        /\ WF_vars(TakeRecvWaker(s))
        /\ WF_vars(s \in woken /\ PollReserve(s))
        /\ WF_vars(Commit(s) \/ Abort(s))
    /\ WF_vars(StartRecv)
    /\ SF_vars(Recv \in woken /\ PollRecv)
    /\ SF_vars(Recv \in cancelled /\ Close(TRUE))

FairSpec == Spec /\ Fairness

-----------------------------------------------------------------------------
\* Every field holds a value of its type.
TypeOK ==
    /\ queue \in Seq(Senders)
    /\ reserved \in 0 .. Capacity
    /\ waiters \in Seq(Senders)
    /\ recvWaker \in BOOLEAN /\ closed \in BOOLEAN /\ ended \in BOOLEAN
    /\ count \in 0 .. Cardinality(Senders)
    /\ pc \in [Actors -> States]
    /\ cancelled \subseteq Actors /\ woken \subseteq Actors
    /\ wakes \in [Actors -> SUBSET Actors]

\* The task polls again without anybody's doing, or somebody is about to wake it.
WillPoll(a) == a \in woken \/ \E b \in Actors : a \in wakes[b]

\* A free slot is never left to a waiter that sleeps: whoever frees a slot, or
\* leaves with the wake for one, has woken the first in line, although the wake
\* is called after the lock is released and the waiter may be dropped,
\* cancelled or robbed of the slot by try_send before it polls.
NoLostSenderWake ==
    waiters # <<>> /\ HasCapacity(queue, reserved) => WillPoll(Head(waiters))

\* No sender waits for a receiver that is gone.
ClosedReleases ==
    closed => \A s \in Senders : pc[s] = "reserving" => WillPoll(s)

\* A receiver does not sleep on a message, a closed channel or the loss of the
\* last sender, whose count is decremented outside the lock.
NoLostRecvWake ==
    pc[Recv] = "receiving" /\ (queue # <<>> \/ Disconnected) =>
        WillPoll(Recv) \/ \E s \in Senders : pc[s] = "dropping"

\* The channel is a bounded queue with permits: the count of reservations
\* stands for the permits held, no message is lost, reordered or duplicated
\* (close and close_receiver keep what is queued, only the drop of the receiver
\* discards it), and nothing is accepted after the receiver was told
\* Disconnected.
Abstract == INSTANCE BoundedChannel WITH
    chan <- queue, permits <- {s \in Senders : pc[s] = "permit"}, sealed <- closed,
    gone <- pc[Recv] = "none"
ImplementsChannel == Abstract!CSpec

\* A send without a permit takes a slot that is free while others wait for one.
Overtakes ==
    /\ waiters # <<>> /\ HasCapacity(queue, reserved)
    /\ \E s \in Senders : TrySend(s) \/ SendEvict(s)

\* Every reservation is granted or fails if the receiver goes on receiving and
\* try_send and send_evict_oldest do not for ever take the slots it frees, which
\* the channel does not prevent.  No other calls can starve a reservation,
\* although there is no bound on how many there are.
ReserveResolves ==
    \/ []<><<Overtakes>>_vars
    \/ \A s \in Senders : pc[s] = "reserving" ~> pc[s] # "reserving"
=============================================================================
