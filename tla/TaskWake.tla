------------------------------ MODULE TaskWake ------------------------------
(***************************************************************************)
(* How a wakeup of one task reaches a poll: TaskWakeState                  *)
(* (src/src/record/task.rs), the wakers and injection methods of the three *)
(* lane scheduler, and ThreeLaneWorker::execute (src/src/runtime/          *)
(* scheduler/three_lane.rs).                                               *)
(*                                                                         *)
(* The task is a global (Send) one; its queue entries are counted per      *)
(* lane.  Callers and workers run concurrently: each atomic operation on   *)
(* the wake state, each push or pop and each critical section of the task  *)
(* table is a step.  That a pushed entry is popped by some worker is       *)
(* fairness here; the parking of workers is Parker's business.             *)
(***************************************************************************)
EXTENDS Naturals, FiniteSets

CONSTANTS
    Callers,     \* threads that wake or cancel the task
    Workers,     \* worker threads
    CancelPaths, \* which cancel paths the callers use
    MaxEntries   \* bound on the queue entries a run may accumulate

\* CancelLaneWaker::schedule and ThreeLaneScheduler::inject_cancel.
AllCancelPaths == {"waker", "inject_cancel"}

ASSUME TaskWakeAssumption ==
    /\ IsFiniteSet(Callers) /\ IsFiniteSet(Workers)
    /\ CancelPaths \subseteq AllCancelPaths
    /\ MaxEntries \in Nat

VARIABLES
    wake,        \* TaskWakeState::state
    stored,      \* the future is in TaskTable::stored_futures
    done,        \* the task has completed
    cancelled,   \* CxInner::cancel_requested and fast_cancel
    registered,  \* CxInner::cancel_waker is set
    ready,       \* entries of the task in the ready lane
    cancel,      \* entries of the task in the cancel lane
    cpc,         \* where each caller is
    wpc,         \* where each worker is
    owed,        \* history: something happened that no poll has seen
    cancelOwed,  \* history: the paths of announced cancels no poll has seen
    duplicated   \* history: a cancel waker injected the task unconditionally

vars == <<wake, stored, done, cancelled, registered, ready, cancel, cpc, wpc,
          owed, cancelOwed, duplicated>>

\* A caller is about to call notify ("wake", "cancelWake", "injectCancel"), to
\* choose a lane ("route") or to push ("pushReady", "pushCancel").
CallerStates == {"idle", "wake", "cancelWake", "injectCancel", "route",
                 "pushReady", "pushCancel"}
\* A worker has popped an entry ("popped"), taken the future ("taken"), set up
\* the cancel waker ("polling"), got Pending ("pending"), stored the future
\* back ("stored"), found a wakeup ("again") or completed the task ("clear").
WorkerStates == {"idle", "popped", "taken", "polling", "pending", "stored",
                 "again", "clear"}

\* The task was created and its future stored; its spawner has yet to
\* schedule it.
Init ==
    /\ wake = "Idle"
    /\ stored = TRUE
    /\ done = FALSE
    /\ cancelled = FALSE
    /\ registered = FALSE
    /\ ready = 0
    /\ cancel = 0
    /\ \E c \in Callers : cpc = [k \in Callers |-> IF k = c THEN "wake" ELSE "idle"]
    /\ wpc = [w \in Workers |-> "idle"]
    /\ owed = TRUE
    /\ cancelOwed = {}
    /\ duplicated = FALSE

\* Entries queued, or held by a caller or a worker.
Entries ==
    ready + cancel
    + Cardinality({c \in Callers : cpc[c] # "idle"})
    + Cardinality({w \in Workers : wpc[w] \in {"popped", "again"}})

-----------------------------------------------------------------------------
(* Callers.                                                                *)

\* Something the task waits for happens and its waker is called.
Wake(c) ==
    /\ cpc[c] = "idle"
    /\ Entries < MaxEntries
    /\ cpc' = [cpc EXCEPT ![c] = "wake"]
    /\ owed' = TRUE
    /\ UNCHANGED <<wake, stored, done, cancelled, registered, ready, cancel, wpc,
                   cancelOwed, duplicated>>

\* TaskHandle::abort or request_cancel_with_budget: the flags are set and the
\* cancel waker called, if the first poll has set it; or the flags are set and
\* the task handed to inject_cancel.
Cancel(c, path) ==
    /\ cpc[c] = "idle"
    /\ Entries < MaxEntries
    /\ ~done
    /\ cancelled' = TRUE
    /\ owed' = TRUE
    /\ cpc' = [cpc EXCEPT ![c] = IF path = "inject_cancel" THEN "injectCancel"
                                 ELSE IF registered THEN "cancelWake"
                                 ELSE "idle"]
    /\ cancelOwed' = IF path = "inject_cancel" \/ registered THEN cancelOwed \cup {path}
                   ELSE cancelOwed
    /\ UNCHANGED <<wake, stored, done, registered, ready, cancel, wpc, duplicated>>

\* TaskWakeState::notify: TRUE when the caller has to schedule.
ShouldSchedule == wake = "Idle"

\* Mutant: a wake during a poll is left to the poll, without a mark.
NotifyIdleOnly(c) ==
    /\ cpc[c] = "wake"
    /\ wake' = IF wake = "Polling" THEN wake ELSE "Notified"
    /\ cpc' = [cpc EXCEPT ![c] = IF ShouldSchedule THEN "route" ELSE "idle"]
    /\ UNCHANGED <<stored, done, cancelled, registered, ready, cancel, wpc, owed,
                   cancelOwed, duplicated>>

\* Mutant: the result of notify is ignored.
NotifyUnchecked(c) ==
    /\ cpc[c] = "wake"
    /\ wake' = "Notified"
    /\ cpc' = [cpc EXCEPT ![c] = "route"]
    /\ UNCHANGED <<stored, done, cancelled, registered, ready, cancel, wpc, owed,
                   cancelOwed, duplicated>>

\* ThreeLaneWaker::schedule, schedule_internal, wake_dependents_locked: notify
\* and go on only if the task was idle.
NotifyWake(c) ==
    /\ cpc[c] = "wake"
    /\ wake' = "Notified"
    /\ cpc' = [cpc EXCEPT ![c] = IF ShouldSchedule THEN "route" ELSE "idle"]
    /\ UNCHANGED <<stored, done, cancelled, registered, ready, cancel, wpc, owed,
                   cancelOwed, duplicated>>

\* fast_cancel decides the lane of a ThreeLaneWaker; inject_ready and
\* schedule_internal push to the ready lane without looking at it.
Route(c) ==
    /\ cpc[c] = "route"
    /\ \E lane \in (IF cancelled THEN {"pushCancel", "pushReady"} ELSE {"pushReady"}) :
          cpc' = [cpc EXCEPT ![c] = lane]
    /\ UNCHANGED <<wake, stored, done, cancelled, registered, ready, cancel, wpc,
                   owed, cancelOwed, duplicated>>

\* Mutant: the cancel waker schedules an idle task only.
NotifyCancelDeduplicated(c) ==
    /\ cpc[c] = "cancelWake"
    /\ wake' = "Notified"
    /\ cpc' = [cpc EXCEPT ![c] = IF ShouldSchedule THEN "pushCancel" ELSE "idle"]
    /\ UNCHANGED <<stored, done, cancelled, registered, ready, cancel, wpc, owed,
                   cancelOwed, duplicated>>

\* CancelLaneWaker::schedule: notify, then always inject.
NotifyCancelWaker(c) ==
    /\ cpc[c] = "cancelWake"
    /\ wake' = "Notified"
    /\ cpc' = [cpc EXCEPT ![c] = "pushCancel"]
    /\ duplicated' = TRUE
    /\ UNCHANGED <<stored, done, cancelled, registered, ready, cancel, wpc, owed, cancelOwed>>

\* ... unless the task is gone and its context with it.
CancelWakerExpired(c) ==
    /\ cpc[c] = "cancelWake"
    /\ done
    /\ cpc' = [cpc EXCEPT ![c] = "idle"]
    /\ UNCHANGED <<wake, stored, done, cancelled, registered, ready, cancel, wpc,
                   owed, cancelOwed, duplicated>>

\* ThreeLaneScheduler::inject_cancel: inject only if the task was idle, or its
\* record is gone.
NotifyInjectCancel(c) ==
    /\ cpc[c] = "injectCancel"
    /\ wake' = IF done THEN wake ELSE "Notified"
    /\ cpc' = [cpc EXCEPT ![c] = IF done \/ ShouldSchedule THEN "pushCancel" ELSE "idle"]
    /\ UNCHANGED <<stored, done, cancelled, registered, ready, cancel, wpc, owed,
                   cancelOwed, duplicated>>

PushReady(c) ==
    /\ cpc[c] = "pushReady"
    /\ ready' = ready + 1
    /\ cpc' = [cpc EXCEPT ![c] = "idle"]
    /\ UNCHANGED <<wake, stored, done, cancelled, registered, cancel, wpc, owed,
                   cancelOwed, duplicated>>

PushCancel(c) ==
    /\ cpc[c] = "pushCancel"
    /\ cancel' = cancel + 1
    /\ cpc' = [cpc EXCEPT ![c] = "idle"]
    /\ UNCHANGED <<wake, stored, done, cancelled, registered, ready, wpc, owed,
                   cancelOwed, duplicated>>

-----------------------------------------------------------------------------
(* Workers.                                                                *)

\* next_task pops an entry of the task; the fairness limits of the lanes may
\* let either lane go first.
PopReady(w) ==
    /\ wpc[w] = "idle"
    /\ ready > 0
    /\ ready' = ready - 1
    /\ wpc' = [wpc EXCEPT ![w] = "popped"]
    /\ UNCHANGED <<wake, stored, done, cancelled, registered, cancel, cpc, owed,
                   cancelOwed, duplicated>>

PopCancel(w) ==
    /\ wpc[w] = "idle"
    /\ cancel > 0
    /\ cancel' = cancel - 1
    /\ wpc' = [wpc EXCEPT ![w] = "popped"]
    /\ UNCHANGED <<wake, stored, done, cancelled, registered, ready, cpc, owed,
                   cancelOwed, duplicated>>

\* Mutant: the future is used and left in the table.
TakeCopy(w) ==
    /\ wpc[w] = "popped"
    /\ stored
    /\ wake' = "Polling"
    /\ wpc' = [wpc EXCEPT ![w] = "taken"]
    /\ UNCHANGED <<stored, done, cancelled, registered, ready, cancel, cpc, owed,
                   cancelOwed, duplicated>>

\* execute, under the task table lock: the future is taken and begin_poll
\* overwrites the wake state ...
TakeFuture(w) ==
    /\ wpc[w] = "popped"
    /\ stored
    /\ stored' = FALSE
    /\ wake' = "Polling"
    /\ wpc' = [wpc EXCEPT ![w] = "taken"]
    /\ UNCHANGED <<done, cancelled, registered, ready, cancel, cpc, owed,
                   cancelOwed, duplicated>>

\* ... or the future is not there, because another worker polls the task or it
\* has completed, and the entry is dropped.
DropEntry(w) ==
    /\ wpc[w] = "popped"
    /\ ~stored
    /\ wpc' = [wpc EXCEPT ![w] = "idle"]
    /\ UNCHANGED <<wake, stored, done, cancelled, registered, ready, cancel, cpc,
                   owed, cancelOwed, duplicated>>

\* The cancel waker is registered before the poll.
Register(w) ==
    /\ wpc[w] = "taken"
    /\ registered' = TRUE
    /\ wpc' = [wpc EXCEPT ![w] = "polling"]
    /\ UNCHANGED <<wake, stored, done, cancelled, ready, cancel, cpc, owed,
                   cancelOwed, duplicated>>

\* The poll sees everything that happened before it.
PollPending(w) ==
    /\ wpc[w] = "polling"
    /\ owed' = FALSE
    /\ cancelOwed' = {}
    /\ wpc' = [wpc EXCEPT ![w] = "pending"]
    /\ UNCHANGED <<wake, stored, done, cancelled, registered, ready, cancel, cpc,
                   duplicated>>

\* Poll::Ready, or a panic: task_completed under the runtime lock.
PollReady(w) ==
    /\ wpc[w] = "polling"
    /\ done' = TRUE
    /\ registered' = FALSE
    /\ owed' = FALSE
    /\ cancelOwed' = {}
    /\ wpc' = [wpc EXCEPT ![w] = "clear"]
    /\ UNCHANGED <<wake, stored, cancelled, ready, cancel, cpc, duplicated>>

Clear(w) ==
    /\ wpc[w] = "clear"
    /\ wake' = "Idle"
    /\ wpc' = [wpc EXCEPT ![w] = "idle"]
    /\ UNCHANGED <<stored, done, cancelled, registered, ready, cancel, cpc, owed,
                   cancelOwed, duplicated>>

\* Poll::Pending: store_spawned_task, then, without the lock, finish_poll.
StoreBack(w) ==
    /\ wpc[w] = "pending"
    /\ stored' = TRUE
    /\ wpc' = [wpc EXCEPT ![w] = "stored"]
    /\ UNCHANGED <<wake, done, cancelled, registered, ready, cancel, cpc, owed,
                   cancelOwed, duplicated>>

\* Mutant: the compare-exchange of finish_poll is retried until it finds
\* Polling.
FinishPollSpins(w) ==
    /\ wpc[w] = "stored"
    /\ wake # "Notified"
    /\ wake' = "Idle"
    /\ wpc' = [wpc EXCEPT ![w] = "idle"]
    /\ UNCHANGED <<stored, done, cancelled, registered, ready, cancel, cpc, owed,
                   cancelOwed, duplicated>>

\* TaskWakeState::finish_poll.
FinishPoll(w) ==
    /\ wpc[w] = "stored"
    /\ wake' = IF wake = "Polling" THEN "Idle" ELSE wake
    /\ wpc' = [wpc EXCEPT ![w] = IF wake = "Notified" THEN "again" ELSE "idle"]
    /\ UNCHANGED <<stored, done, cancelled, registered, ready, cancel, cpc, owed,
                   cancelOwed, duplicated>>

\* The worker reads cancel_requested and injects the task again.
Reschedule(w) ==
    /\ wpc[w] = "again"
    /\ wpc' = [wpc EXCEPT ![w] = "idle"]
    /\ \/ cancelled /\ cancel' = cancel + 1 /\ UNCHANGED ready
       \/ ~cancelled /\ ready' = ready + 1 /\ UNCHANGED cancel
    /\ UNCHANGED <<wake, stored, done, cancelled, registered, cpc, owed,
                   cancelOwed, duplicated>>

-----------------------------------------------------------------------------
CallerSteps(c) ==
    \/ NotifyWake(c) \/ Route(c) \/ NotifyCancelWaker(c) \/ CancelWakerExpired(c)
    \/ NotifyInjectCancel(c) \/ PushReady(c) \/ PushCancel(c)

WorkerSteps(w) ==
    \/ PopReady(w) \/ PopCancel(w) \/ TakeFuture(w) \/ DropEntry(w) \/ Register(w)
    \/ PollPending(w) \/ PollReady(w) \/ Clear(w) \/ StoreBack(w) \/ FinishPoll(w)
    \/ Reschedule(w)

Next ==
    \/ \E c \in Callers : Wake(c)
    \/ \E c \in Callers, path \in CancelPaths : Cancel(c, path)
    \/ \E c \in Callers : CallerSteps(c)
    \/ \E w \in Workers : WorkerSteps(w)

Spec == Init /\ [][Next]_vars

\* Fairness: a caller finishes what it began and a worker keeps popping and
\* executing; nothing makes an event happen.
Fairness ==
    /\ \A c \in Callers : WF_vars(CallerSteps(c))
    /\ \A w \in Workers : WF_vars(WorkerSteps(w))

FairSpec == Spec /\ Fairness

-----------------------------------------------------------------------------
\* Every field holds a value of its type; the lanes never go below empty.
TypeOK ==
    /\ wake \in {"Idle", "Polling", "Notified"}
    /\ stored \in BOOLEAN /\ done \in BOOLEAN
    /\ cancelled \in BOOLEAN /\ registered \in BOOLEAN
    /\ owed \in BOOLEAN /\ duplicated \in BOOLEAN
    /\ cancelOwed \subseteq AllCancelPaths
    /\ ready \in Nat /\ cancel \in Nat
    /\ cpc \in [Callers -> CallerStates]
    /\ wpc \in [Workers -> WorkerStates]

\* The worker holds the future.
Holds(w) == wpc[w] \in {"taken", "polling", "pending"}

\* The future of a live task is in exactly one place, so that it is never
\* polled twice at once, duplicates in the lanes notwithstanding.
FutureInOnePlace ==
    /\ \A v, w \in Workers : Holds(v) /\ Holds(w) => v = w
    /\ stored => ~done /\ \A w \in Workers : ~Holds(w)
    /\ ~stored /\ ~done => \E w \in Workers : Holds(w)
    /\ done => \A w \in Workers : ~Holds(w)

\* Something that is going to turn a notified task into a poll: an entry, its
\* pusher, a worker that will find the future, or one whose finish_poll is
\* still to come.
Carried ==
    \/ ready > 0 \/ cancel > 0
    \/ \E c \in Callers : cpc[c] \in {"route", "pushReady", "pushCancel"}
    \/ \E w \in Workers : wpc[w] = "popped" /\ stored
    \/ \E w \in Workers : wpc[w] \in {"taken", "polling", "pending", "stored", "again"}

\* No wakeup is lost between TaskWakeState::notify and finish_poll: what no
\* poll has seen yet is about to be notified, or about to be polled, or the
\* task is notified and something carries it to its next poll.
NoLostWake ==
    owed /\ ~done =>
        \/ \E c \in Callers : cpc[c] \in {"wake", "cancelWake", "injectCancel"}
        \/ \E w \in Workers : wpc[w] \in {"taken", "polling"}
        \/ wake = "Notified" /\ Carried

\* What announces a cancel is still there: an entry of the cancel lane, a
\* caller or worker that will push one, or a worker about to poll the task.
Promoted ==
    \/ cancel > 0
    \/ \E c \in Callers : cpc[c] \in {"cancelWake", "pushCancel"}
    \/ \E w \in Workers : wpc[w] = "popped" /\ stored
    \/ \E w \in Workers : wpc[w] \in {"taken", "polling", "again"}
    \/ wake = "Notified" /\ \E w \in Workers : wpc[w] \in {"pending", "stored"}

\* A cancel announced through CancelLaneWaker promotes the task, whatever wakes
\* and cancels of the other path it races with.
CancelPromoted == "waker" \in cancelOwed /\ ~done => Promoted

\* A cancel handed to inject_cancel promotes the task, as the comment on
\* schedule_local_cancel says ("`inject_cancel` always injects") and the tests
\* test_inject_cancel_promotes_ready_task and
\* test_inject_cancel_allows_duplicates_for_priority expect.  (The
\* documentation of inject_cancel itself calls it a no-op for a task that is
\* already scheduled.)
InjectCancelPromoted ==
    "inject_cancel" \in cancelOwed /\ ~done =>
        Promoted \/ \E c \in Callers : cpc[c] = "injectCancel"

\* Deduplication is exact: until a cancel waker injects it unconditionally, a
\* live task has at most one entry, counting the ones callers and workers are
\* about to push or have just popped.  So inject_cancel pushes no second entry,
\* which test_inject_cancel_allows_duplicates_for_priority expects it to do: see
\* InjectCancelPromoted.
SingleEntry ==
    ~done /\ ~duplicated =>
        ready + cancel
        + Cardinality({c \in Callers : cpc[c] \in {"route", "pushReady", "pushCancel"}})
        + Cardinality({w \in Workers : wpc[w] \in {"popped", "again"}}) <= 1

\* Every wakeup is eventually followed by a poll that sees it.
EventuallyPolled == owed ~> ~owed \/ done
=============================================================================
