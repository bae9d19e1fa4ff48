---------------------------- MODULE ReadyInjector ---------------------------
(***************************************************************************)
(* The ready lane of GlobalInjector (src/src/runtime/scheduler/            *)
(* global_injector.rs) over FaaFifoQueue (global_queue.rs): the combiner   *)
(* that gathers injections under contention, and the two counters that     *)
(* make the lock-free queue answer len and pop.                            *)
(*                                                                         *)
(* One process per injection, named by the entry it injects, and one per   *)
(* worker that pops.  Every atomic operation and every critical section of *)
(* the pending buffer is a step.  The FAA queue itself is external: a      *)
(* linearizable FIFO.                                                      *)
(***************************************************************************)
EXTENDS Naturals, Sequences, FiniteSets

CONSTANTS
    Entries,           \* the ready injections
    Workers,           \* threads that pop
    InFlightThreshold, \* READY_COMBINER_IN_FLIGHT_THRESHOLD
    BacklogThreshold,  \* READY_COMBINER_BACKLOG_THRESHOLD
    MaxBatch,          \* READY_COMBINER_MAX_BATCH
    MaxPop             \* the largest max that pop_batch_into is called with

ASSUME ReadyInjectorAssumption ==
    /\ IsFiniteSet(Entries) /\ IsFiniteSet(Workers)
    /\ InFlightThreshold \in Nat /\ BacklogThreshold \in Nat
    /\ MaxBatch \in Nat \ {0} /\ MaxPop \in Nat \ {0}

VARIABLES
    ipc,       \* where each injection is
    seen,      \* the in_flight count each injection observed, until it is used
    batch,     \* the batch each combiner publishes
    inFlight,  \* ReadyCombiner::in_flight
    active,    \* ReadyCombiner::active
    lock,      \* the injection that holds the lock of `pending'
    pending,   \* ReadyCombiner::pending
    queue,     \* FaaFifoQueue::inner
    count,     \* FaaFifoQueue::count
    published, \* FaaFifoQueue::published
    wpc,       \* where each popping worker is
    want,      \* the max of its pop
    reserved,  \* what it took from `published'
    got,       \* what it dequeued
    popped     \* history: the entries handed to workers

combiner == <<inFlight, active, lock, pending>>
counters == <<count, published>>
popVars == <<wpc, want, reserved, got, popped>>
vars == <<ipc, seen, batch, combiner, queue, counters, popVars>>

\* The injections that hold the pending lock, and the ones that are the
\* combiner.
Locking == {"check", "append", "recheck"}
Combining == {"fill", "reserve", "batchEnqueue", "batchPublish", "drain"}
InjectStates ==
    {"idle", "begun", "claim", "tryLock", "count", "enqueue", "publish", "finish", "done"}
    \cup Locking \cup Combining
PopStates == {"idle", "reserve", "dequeue", "settle"}

Init ==
    /\ ipc = [e \in Entries |-> "idle"]
    /\ seen = [e \in Entries |-> 0]
    /\ batch = [e \in Entries |-> <<>>]
    /\ inFlight = 0
    /\ active = FALSE
    /\ lock = {}
    /\ pending = <<>>
    /\ queue = <<>>
    /\ count = 0
    /\ published = 0
    /\ wpc = [w \in Workers |-> "idle"]
    /\ want = [w \in Workers |-> 0]
    /\ reserved = [w \in Workers |-> 0]
    /\ got = [w \in Workers |-> 0]
    /\ popped = {}

Goto(e, state) == ipc' = [ipc EXCEPT ![e] = state]

\* The first n elements of a sequence, and the others.
Front(s, n) == SubSeq(s, 1, n)
Rest(s, n) == SubSeq(s, n + 1, Len(s))
Least(m, n) == IF m <= n THEN m ELSE n

\* ReadyCombiner::should_combine.
ShouldCombine(n, backlog) ==
    n >= InFlightThreshold \/ (n > 1 /\ backlog >= BacklogThreshold)

-----------------------------------------------------------------------------
(* inject_ready.                                                           *)

\* begin_injection.
BeginInjection(e) ==
    /\ ipc[e] = "idle"
    /\ inFlight' = inFlight + 1
    /\ seen' = [seen EXCEPT ![e] = inFlight + 1]
    /\ Goto(e, "begun")
    /\ UNCHANGED <<batch, active, lock, pending, queue, counters, popVars>>

\* The backlog is read, and the path chosen.
ChoosePath(e) ==
    /\ ipc[e] = "begun"
    /\ Goto(e, IF ShouldCombine(seen[e], count) THEN "claim" ELSE "count")
    /\ seen' = [seen EXCEPT ![e] = 0]
    /\ UNCHANGED <<batch, combiner, queue, counters, popVars>>

\* finish_injection.
FinishInjection(e) ==
    /\ ipc[e] = "finish"
    /\ inFlight' = inFlight - 1
    /\ Goto(e, "done")
    /\ UNCHANGED <<seen, batch, active, lock, pending, queue, counters, popVars>>

\* Mutants of FaaFifoQueue::push: the count is forgotten, or the entry
\* published before it is in the queue.
CountForgotten(e) ==
    /\ ipc[e] = "count"
    /\ Goto(e, "enqueue")
    /\ UNCHANGED <<seen, batch, combiner, queue, counters, popVars>>
CountPublishes(e) ==
    /\ ipc[e] = "count"
    /\ count' = count + 1
    /\ published' = published + 1
    /\ Goto(e, "enqueue")
    /\ UNCHANGED <<seen, batch, combiner, queue, popVars>>

\* FaaFifoQueue::push: count, enqueue, publish.
Count(e) ==
    /\ ipc[e] = "count"
    /\ count' = count + 1
    /\ Goto(e, "enqueue")
    /\ UNCHANGED <<seen, batch, combiner, queue, published, popVars>>

Enqueue(e) ==
    /\ ipc[e] = "enqueue"
    /\ queue' = Append(queue, e)
    /\ Goto(e, "publish")
    /\ UNCHANGED <<seen, batch, combiner, counters, popVars>>

Publish(e) ==
    /\ ipc[e] = "publish"
    /\ published' = published + 1
    /\ Goto(e, "finish")
    /\ UNCHANGED <<seen, batch, combiner, queue, count, popVars>>

-----------------------------------------------------------------------------
(* inject_ready_contentious.                                               *)

\* The compare_exchange on `active' makes this injection the combiner, or ...
Claim(e) ==
    /\ ipc[e] = "claim"
    /\ active' = TRUE
    /\ \/ /\ ~active
          /\ batch' = [batch EXCEPT ![e] = <<e>>]
          /\ Goto(e, "fill")
       \/ /\ active
          /\ Goto(e, "tryLock")
          /\ UNCHANGED batch
    /\ UNCHANGED <<seen, inFlight, lock, pending, queue, counters, popVars>>

\* ... it tries to leave its entry to the combiner, and pushes it itself when
\* the buffer is locked, by another injection or for a moment by the combiner ...
TryLock(e) ==
    /\ ipc[e] = "tryLock"
    /\ \/ lock = {} /\ lock' = {e} /\ Goto(e, "check")
       \/ /\ lock # {} \/ \E c \in Entries : ipc[c] \in {"fill", "drain"}
          /\ Goto(e, "count")
          /\ UNCHANGED lock
    /\ UNCHANGED <<seen, batch, inFlight, active, pending, queue, counters, popVars>>

\* Mutant: the entry is kept for a combiner that has gone.
CheckWaits(e) ==
    /\ ipc[e] = "check"
    /\ active
    /\ Goto(e, "append")
    /\ UNCHANGED <<seen, batch, combiner, queue, counters, popVars>>

\* ... or the combiner has gone.
Check(e) ==
    /\ ipc[e] = "check"
    /\ \/ active /\ Goto(e, "append") /\ UNCHANGED lock
       \/ ~active /\ lock' = {} /\ Goto(e, "count")
    /\ UNCHANGED <<seen, batch, inFlight, active, pending, queue, counters, popVars>>

AppendPending(e) ==
    /\ ipc[e] = "append"
    /\ pending' = Append(pending, e)
    /\ Goto(e, "recheck")
    /\ UNCHANGED <<seen, batch, inFlight, active, lock, queue, counters, popVars>>

\* Mutant: a deferred entry is pushed as well.
RecheckFallsThrough(e) ==
    /\ ipc[e] = "recheck"
    /\ lock' = {}
    /\ Goto(e, "count")
    /\ UNCHANGED <<seen, batch, inFlight, active, pending, queue, counters, popVars>>

\* The second look at `active': deferred, or "race detected", the entry taken
\* back if it is the last one, and pushed.
Recheck(e) ==
    /\ ipc[e] = "recheck"
    /\ lock' = {}
    /\ Goto(e, IF active THEN "finish" ELSE "count")
    /\ pending' = IF ~active /\ pending # <<>> /\ pending[Len(pending)] = e
                  THEN Front(pending, Len(pending) - 1)
                  ELSE pending
    /\ UNCHANGED <<seen, batch, inFlight, active, queue, counters, popVars>>

\* flush_ready_combiner_with: the batch is topped up under the lock ...
Fill(e) ==
    /\ ipc[e] = "fill"
    /\ lock = {}
    /\ LET n == Least(MaxBatch - Len(batch[e]), Len(pending))
       IN  /\ batch' = [batch EXCEPT ![e] = batch[e] \o Front(pending, n)]
           /\ pending' = Rest(pending, n)
    /\ Goto(e, "reserve")
    /\ UNCHANGED <<seen, inFlight, active, lock, queue, counters, popVars>>

\* ... counted at once (reserve_count) ...
Reserve(e) ==
    /\ ipc[e] = "reserve"
    /\ count' = count + Len(batch[e])
    /\ Goto(e, "batchEnqueue")
    /\ UNCHANGED <<seen, batch, combiner, queue, published, popVars>>

\* ... and published entry by entry (push_uncounted); the reservation that is
\* dropped at the end has nothing left to roll back ...
BatchEnqueue(e) ==
    /\ ipc[e] = "batchEnqueue"
    /\ queue' = Append(queue, Head(batch[e]))
    /\ batch' = [batch EXCEPT ![e] = Tail(@)]
    /\ Goto(e, "batchPublish")
    /\ UNCHANGED <<seen, combiner, counters, popVars>>

BatchPublish(e) ==
    /\ ipc[e] = "batchPublish"
    /\ published' = published + 1
    /\ Goto(e, IF batch[e] = <<>> THEN "drain" ELSE "batchEnqueue")
    /\ UNCHANGED <<seen, batch, combiner, queue, count, popVars>>

\* Mutants: the combiner leaves after one batch, or without the lock.
DrainOnce(e) ==
    /\ ipc[e] = "drain"
    /\ lock = {}
    /\ active' = FALSE
    /\ Goto(e, "finish")
    /\ UNCHANGED <<seen, batch, inFlight, lock, pending, queue, counters, popVars>>

DrainUnlocked(e) ==
    /\ ipc[e] = "drain"
    /\ pending = <<>>
    /\ active' = FALSE
    /\ Goto(e, "finish")
    /\ UNCHANGED <<seen, batch, inFlight, lock, pending, queue, counters, popVars>>

\* ... until, under the lock, nothing is pending and `active' is cleared.
Drain(e) ==
    /\ ipc[e] = "drain"
    /\ lock = {}
    /\ \/ /\ pending = <<>>
          /\ active' = FALSE
          /\ Goto(e, "finish")
          /\ UNCHANGED <<batch, pending>>
       \/ /\ pending # <<>>
          /\ LET n == Least(MaxBatch, Len(pending))
             IN  /\ batch' = [batch EXCEPT ![e] = Front(pending, n)]
                 /\ pending' = Rest(pending, n)
          /\ Goto(e, "fill")
          /\ UNCHANGED active
    /\ UNCHANGED <<seen, inFlight, lock, queue, counters, popVars>>

-----------------------------------------------------------------------------
(* FaaFifoQueue::pop (max = 1) and pop_batch_into.                         *)

\* try_reserve_published succeeds for the first time; while it fails, pop
\* returns None and changes nothing.
ReservePublished(w, max) ==
    /\ wpc[w] = "idle"
    /\ published > 0
    /\ published' = published - 1
    /\ want' = [want EXCEPT ![w] = max]
    /\ reserved' = [reserved EXCEPT ![w] = 1]
    /\ wpc' = [wpc EXCEPT ![w] = "reserve"]
    /\ UNCHANGED <<ipc, seen, batch, combiner, queue, count, got, popped>>

ReserveMore(w) ==
    /\ wpc[w] = "reserve"
    /\ \/ /\ reserved[w] < want[w] /\ published > 0
          /\ published' = published - 1
          /\ reserved' = [reserved EXCEPT ![w] = @ + 1]
          /\ UNCHANGED wpc
       \/ /\ reserved[w] = want[w] \/ published = 0
          /\ wpc' = [wpc EXCEPT ![w] = "dequeue"]
          /\ UNCHANGED <<published, reserved>>
    /\ UNCHANGED <<ipc, seen, batch, combiner, queue, count, want, got, popped>>

\* One dequeue; an empty queue, which no reservation should meet, ends it.
Dequeue(w) ==
    /\ wpc[w] = "dequeue"
    /\ got' = [got EXCEPT ![w] = IF queue = <<>> THEN @ ELSE @ + 1]
    /\ popped' = IF queue = <<>> THEN popped ELSE popped \cup {Head(queue)}
    /\ queue' = IF queue = <<>> THEN queue ELSE Tail(queue)
    /\ wpc' = [wpc EXCEPT ![w] = IF queue = <<>> \/ got'[w] = reserved[w]
                                 THEN "settle" ELSE "dequeue"]
    /\ UNCHANGED <<ipc, seen, batch, combiner, counters, want, reserved>>

\* Mutant: a batch counts as one.
SettleOne(w) ==
    /\ wpc[w] = "settle"
    /\ published' = published + (reserved[w] - got[w])
    /\ count' = IF count >= 1 THEN count - 1 ELSE 0
    /\ wpc' = [wpc EXCEPT ![w] = "idle"]
    /\ want' = [want EXCEPT ![w] = 0]
    /\ reserved' = [reserved EXCEPT ![w] = 0]
    /\ got' = [got EXCEPT ![w] = 0]
    /\ UNCHANGED <<ipc, seen, batch, combiner, queue, popped>>

\* Unused reservations go back, and the count is reduced by what was dequeued
\* (saturating_sub).
Settle(w) ==
    /\ wpc[w] = "settle"
    /\ published' = published + (reserved[w] - got[w])
    /\ count' = IF count >= got[w] THEN count - got[w] ELSE 0
    /\ wpc' = [wpc EXCEPT ![w] = "idle"]
    /\ want' = [want EXCEPT ![w] = 0]
    /\ reserved' = [reserved EXCEPT ![w] = 0]
    /\ got' = [got EXCEPT ![w] = 0]
    /\ UNCHANGED <<ipc, seen, batch, combiner, queue, popped>>

-----------------------------------------------------------------------------
\* What an injection does once it has begun.
InjectSteps(e) ==
    \/ ChoosePath(e) \/ FinishInjection(e) \/ Count(e) \/ Enqueue(e) \/ Publish(e)
    \/ Claim(e) \/ TryLock(e) \/ Check(e) \/ AppendPending(e) \/ Recheck(e)
    \/ Fill(e) \/ Reserve(e) \/ BatchEnqueue(e) \/ BatchPublish(e) \/ Drain(e)

PopSteps(w) ==
    \/ \E max \in 1..MaxPop : ReservePublished(w, max)
    \/ ReserveMore(w) \/ Dequeue(w) \/ Settle(w)

Next ==
    \/ \E e \in Entries : BeginInjection(e) \/ InjectSteps(e)
    \/ \E w \in Workers : PopSteps(w)

Spec == Init /\ [][Next]_vars

\* Fairness: a thread inside inject_ready keeps running, and the workers keep
\* popping while something is published.
Fairness ==
    /\ \A e \in Entries : WF_vars(InjectSteps(e))
    /\ \A w \in Workers : WF_vars(PopSteps(w))

FairSpec == Spec /\ Fairness

-----------------------------------------------------------------------------
\* Every field holds a value of its type; no counter goes below zero.
TypeOK ==
    /\ ipc \in [Entries -> InjectStates]
    /\ seen \in [Entries -> Nat]
    /\ batch \in [Entries -> Seq(Entries)]
    /\ inFlight \in Nat /\ count \in Nat /\ published \in Nat
    /\ active \in BOOLEAN
    /\ lock \subseteq Entries
    /\ pending \in Seq(Entries)
    /\ queue \in Seq(Entries)
    /\ wpc \in [Workers -> PopStates]
    /\ want \in [Workers -> 0..MaxPop]
    /\ reserved \in [Workers -> 0..MaxPop]
    /\ got \in [Workers -> 0..MaxPop]
    /\ popped \subseteq Entries

\* The injections whose entry is still in their own hands.
InHand == {"idle", "begun", "claim", "tryLock", "check", "append", "count", "enqueue"}

Occurrences(e, s) == Cardinality({i \in DOMAIN s : s[i] = e})

\* inject_ready neither loses nor duplicates an entry: it is with its
\* injector, pending, in a combiner's batch, in the queue, or handed to a
\* worker, and in one of them only.
OnePlace ==
    \A e \in Entries :
        Occurrences(e, pending) + Occurrences(e, queue)
        + Cardinality({f \in Entries : Occurrences(e, batch[f]) > 0})
        + (IF ipc[e] \in InHand THEN 1 ELSE 0)
        + (IF e \in popped THEN 1 ELSE 0) = 1

\* There is one combiner while `active' is set and none otherwise; it does not
\* go away while something is pending, so no deferred entry is stranded.
DeferralSafe ==
    /\ \A e, f \in Entries : ipc[e] \in Combining /\ ipc[f] \in Combining => e = f
    /\ active <=> \E e \in Entries : ipc[e] \in Combining
    /\ pending # <<>> => active

\* `active' cannot be cleared between an injector's append and its second
\* look, which both happen under the pending lock: the branch of
\* inject_ready_contentious for a detected race is never taken.
NoRaceDetected == \A e \in Entries : ipc[e] \in {"append", "recheck"} => active

\* The count leads the queue: is_empty is never true of a queue that holds an
\* entry, so a worker that relies on it does not go to sleep on work.
CountCovers == count >= Len(queue)

\* A worker that took its reservations from `published' finds an entry for
\* each, so the None branch of pop is never taken.
ReservationBacked ==
    \A w \in Workers : wpc[w] = "dequeue" => queue # <<>>

\* Nobody is inside inject_ready or pop.
Quiet ==
    /\ \A e \in Entries : ipc[e] \in {"idle", "done"}
    /\ \A w \in Workers : wpc[w] = "idle"

\* When everybody has left, the counters are exact (no phantom count on an
\* empty queue) and the combiner is switched off.
CountersSettle ==
    Quiet => /\ count = Len(queue) /\ published = Len(queue)
             /\ pending = <<>> /\ ~active /\ lock = {} /\ inFlight = 0

\* Every entry whose injection began is eventually handed to a worker.
EventuallyPopped == \A e \in Entries : ipc[e] = "begun" ~> e \in popped
=============================================================================
