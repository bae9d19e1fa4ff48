# TLA+ verification of the asupersync runtime core

asupersync is an async runtime built on structured concurrency: every task belongs
to a region, cancellation is a protocol of request, drain and finalize, and a region
closes only when nothing of it is left. This directory holds TLA+ models of its core,
TLC configurations that check them on small instances, and TLAPS proofs of the most
important properties for every instance.

`PROJECT.json` lists the components, the runs, the source lines behind every
definition, the hazards and the theorems. A cfg is run with
`tlc -config X.cfg M`, a proof module is checked with `tlapm M.tla`.

## 1. Inventory of the system

The crate is `src/src`. The directories `tests`, `benches`, `fuzz`, `examples`, the
conformance suites and the franken_* crates are tests and users of it.

| Component | State it keeps | Operations | What is hard | What makes it correct |
|---|---|---|---|---|
| Region lifecycle, `runtime/state.rs`, `record/region.rs` | region tree, close stage, cancel reason, close outcome | create, cancel subtree, begin close, advance | one walk up the tree is started from a dozen places; a walk may find nothing to do | close implies quiescence; no region is forgotten; cancel reaches everything below |
| Task lifecycle, `record/task.rs`, `task_table.rs` | task state, reason, acknowledgement | create, start, checkpoint, complete, recycle | completion may unwind half way; cancel races completion | cancelled tasks never end Ok; tree and table agree |
| Obligations, `record/obligation.rs`, `obligation_table.rs` | reserved records, a counter per region | reserve, commit, abort, leak | the counter saturates; leak response may panic | counter exact; none survives its region |
| Finalizers, `record/finalizer.rs` | LIFO stack per region, async barrier | register, run sync, spawn async | an async one is a task and a barrier while other steps advance the region | LIFO, none lost, close waits |
| Scopes and `Cx`, `cx/scope.rs`, `cx/cx.rs` | a region, a factory closure holding the runtime | region, factory panic, checkpoint | panicking factory leaves tasks never polled | nothing stranded |
| Task wakeups and execution, `scheduler/three_lane.rs` | wake state, stored future, lane entries | wake, cancel wake, inject, execute | notify, push, pop, poll and finish_poll are separate steps of many threads | no lost wake, one poll at a time, cancel promoted |
| Worker parking, `scheduler/worker.rs` | permit flag, waiter count, mutex, condvar | park, park_timeout, unpark | Dekker handshake, timeouts | no lost wakeup |
| Global injection queue, `global_injector.rs`, `global_queue.rs` | combiner, FAA queue, two counters | inject, combine, pop batch | three atomics for one queue, deferral to a combiner that may leave | no entry lost, counters safe to sleep on |
| Lanes of a worker, `three_lane.rs`, `priority.rs` | streak counters, three heaps | next_task | four counters, each reset by other paths; limits that change between calls | no lane waits longer than its limit |
| Local queues, stealing | intrusive queues | push, pop, steal | owner and thieves | no entry lost or duplicated |
| Worker pool, I/O driver | parked workers, leader flag, shutdown | run_loop, wake_one, wake_all, try_turn_with | check-then-park, the leader's role outliving the poll, deadlines that only the leader watches | some worker looks while there is work, a deadline or ready I/O |
| Timers, `time/wheel.rs` | wheel levels, overflow heap | insert, cancel, advance | rollover, cascade | fires once, never early |
| Channels, `channel/*` | queue, reservations, waiters | reserve, send, recv, close | cancelled waiters, two-phase send | capacity, no message lost, no waiter lost |
| Sync primitives, `sync/*` | permits, waiter queues | acquire, release, notify | cancelled waiter holding the baton | no lost permit |
| Combinators, `combinator/*` | state of race, retry, breaker | poll, tick | losers must be drained | every loser ends before the race does |
| Blocking pool, sharded state | threads, shard locks | spawn, retire, shutdown; guard | retirement races a submit; lock order | no job lost; no deadlock |
| Supervision, actors, ledger, remote, lab, RaptorQ, network | see `PROJECT.json` | | built on the above | |

How they interact. Callers and workers change the region, task, obligation and
finalizer records under the runtime lock (`RuntimeState` methods take `&mut self`).
`ThreeLaneWorker::execute` takes a task's future out of the task table, polls it
without the lock, and either stores it back or calls `task_completed`. Wakers change
the atomic wake state and push the task into a lane of the global injector, then
`wake_one` unparks a worker. A worker that finds all lanes empty drains ready async
finalizers and parks.

## 2. Modules

```
Permit          <-- Parker          <-- ParkerProofs
RegionPromise   <-- RegionRuntime   <-- MCRegionRuntime, RegionRuntimeProofs <-- RegionCancelProofs
                    TaskWake        <-- TaskWakeProofs
                    ReadyInjector   <-- ReadyInjectorProofs
                    Lanes           <-- LanesProofs
                    WorkerPool      <-- WorkerPoolProofs
BoundedChannel  <-- Mpsc            <-- MpscProofs
```

Down the scheduler, each module takes what the others establish as given: WorkerPool
uses a parker that is the flag `Permit` promises and a queue that loses nothing
(ReadyInjector); TaskWake leaves open which lane goes first, which is Lanes' subject,
and lets workers pop whenever there is an entry, which WorkerPool justifies.

Each component module declares its state as variables named after the Rust fields,
with one action per operation. Definitions introduced by a comment "Mutant" are
deliberately wrong variants of the definition that follows them; no specification
uses them. They show that a property would notice the bug.

### RegionRuntime and RegionPromise

`RuntimeState` over the region, task, obligation and finalizer records. A method of
`RuntimeState` is one critical section, and most methods end in
`advance_region_state`, a loop up the tree. One iteration of the loop is one
`Advance` action; `todo` holds the regions the running critical section has still to
advance and `drain` is TRUE while its `drain_ready_async_finalizers` is to come. All
other actions wait for both, so a critical section stays atomic although it takes
several steps. Between the iterations of the loop the state can be observed by the
invariants, which makes them stronger than at lock boundaries only.

| Actions | Code |
|---|---|
| `CreateRootRegion`, `CreateChildRegion`, `CreateTask`, `CreateObligation`, `RegisterFinalizer` | the methods of the same names, admission limits included |
| `OpenScope`, `FactoryReturns`, `FactoryPanics`, `CloseRegion` | `Scope::region` and the drop of its runner; `factory` is the scope whose closure holds the runtime, during which no worker can take the lock |
| `CancelRequest`, `CancelAndClose`, `CancelTask`, `CancelSiblings` | `cancel_request` and its callers, `cancel_sibling_tasks`, the cancel of one task |
| `ResolveObligation` | `commit_obligation`, `abort_obligation`, `mark_obligation_leaked` |
| `StartRunning`, `Checkpoint`, `PollPending`, `PollReady` | `execute` around one poll, `Cx::checkpoint` |
| `PollReadyUnwinds`, `GuardRetries` | `task_completed` panicking in `handle_obligation_leaks` under the `Panic` response, and the second attempt by the drop guard of `execute` |
| `AdvanceToFinalizing`, `AdvanceToDraining`, `RunSyncFinalizer`, `AdvanceLeaks`, `AdvanceToClosed`, `AdvanceStops`, `DrainVisits` | the branches of `advance_region_state` |
| `ScheduleReadyFinalizers`, `SpawnFinalizer`, `DrainEnds` | `drain_ready_async_finalizers`, `spawn_finalizer_task` |

Data abstractions: identifiers are never reused (the arenas count generations); a
cancel reason is its severity and an outcome is its severity, as the lattices of the
code compare them; a poll may return any outcome. `leakCount` is counted up to the
threshold `EscalateAfter` of `leak_escalation`, at which the leak response becomes
`EscalateTo`; 0 stands for a runtime without an escalation. What depends on the response
(`LeakState`, `LeakPanics`, `AdvanceLeaks`) asks `Response`, which counts the leaks at hand
first, as `handle_obligation_leaks` does. Left out: budgets and deadlines,
the region heap, resource-pressure admission, waiters and join results, traces,
metrics, protocol validators (they log and change nothing).

`RegionPromise` says what callers rely on, without the loop, the stacks and the
counters: regions form one tree; tasks and children join open regions only; cleanup
(a sync finalizer or the task of an async one) runs when nothing else is left in the
region, one at a time; a cancel takes a region and everything below it in one step; a
region closes when nothing is left, with the worst outcome that ended in it. In the
mapping `Stage` makes Closing, Draining and Finalizing one stage, and `Life` makes all
states of a task in the arena one, the terminal task that an unwinding completion leaves
behind included. Obligations and the number of finalizers are below the promise;
`QuiescentClose` is about them.

### Parker and Permit

`Permit` is the promise: one permit, made available by `unpark`, consumed by `park`,
and by `park_timeout` unless it times out. `Parker` has one step per atomic
operation, lock acquisition and condition variable call, with spurious wakeups and
time-outs. The fences of the code are sequentially consistent and stand between each
side's store and its load of the other's variable; interleaving is the memory model
they buy. `Promise == INSTANCE Permit WITH ...` is the refinement mapping.

### TaskWake

One global task, any number of callers that wake or cancel it and any number of workers
that pop its entries. The lanes are counters, because entries of one task are equal.
`ThreeLaneWaker` looks at the cancel flag to choose the lane, while `schedule_internal`
and `inject_ready` always choose ready; `Route` allows both. `owed` and `cancelOwed` are
history: something happened that no poll has seen yet. The order of the lanes is left
open, since the fairness limits of `next_task` let either go first. The race that makes
this module worth having is in `execute`: the future goes back into the table before
`finish_poll` runs, so a worker with a duplicate entry may start a second poll in
between.

### ReadyInjector

`GlobalInjector::inject_ready` with its combiner, over `FaaFifoQueue`. Every
injection is a process named by its entry. The queue inside `FaaFifoQueue` comes from
another crate and is taken to be a linearizable FIFO; the `try_lock` of an injector fails
against another injector and against the combiner; the counters `count` and
`published` around it are modelled operation by operation, the saturating
subtraction included. The branch for a detected race in `inject_ready_contentious`
is part of `Recheck`; `NoRaceDetected`, proved for every instance, says that it is
dead code.

### WorkerPool

The workers between two tasks: `run_loop`, `drive_io_phase`, `try_turn_with`,
`process_timers`, the backoff loop with `select_backoff_deadline`, and whoever makes a
task runnable: a thread that wakes it, a worker that fires its timer or delivers its
I/O. Looking at the lanes, looking at the local queues and parking are separate steps,
and so are the push, the choice of a worker by `wake_one`, and the wake of the
reactor.

| Actions | Code |
|---|---|
| `Wake`, `PushGlobal`, `PushLocal` | `ThreeLaneWaker`, `ThreeLaneLocalWaker`, `inject_ready`, `schedule_internal` |
| `WakeOne`, `UnparkOwner`, `WakeAll`, `WakeIo`, `Shutdown` | `WorkerCoordinator`, `ThreeLaneScheduler::shutdown` |
| `Top`, `NextGlobal`, `NextPinned`, `NextNone`, `EndPoll` | one turn of `run_loop`, with `process_timers` at the head of `next_task` |
| `DriveIo`, `TryTurn`, `PollReturns`, `PollTimesOut`, `PollFails`, `Release` | `drive_io_phase` and the election in `try_turn_with` |
| `CheckGlobal`, `Commit`, `Unparked`, `ParkTimesOut` | the backoff loop; a worker keeps its `IoPhaseOutcome` through it |

Time is reduced to the deadlines that pass. A wait has the timeout that was computed when
it was begun: `covers` holds the timers that were armed then, and the wait is over when the
deadline of one of them passes, never because of a timer registered later (`unseen`), since
`TimerDriver::register` wakes nobody. A poll of the reactor without a timer to wait for
ends by itself (`IDLE_IO_POLL_MAX_TIMEOUT`). Tasks are pinned to worker 0. Left
out because they need no wake or no other worker sees them: pushes to a worker's own
fast queue and heap, stealing, and `enable_parking = false`, where no worker sleeps.
`wake_many` is, with two workers, `wake_one` or `wake_all`. The spawn throttling in
`inject_global_ready_checked` asks workers that have been moved out of the scheduler
by then, and never throttles.

`DeadlineWatched` says of every timer that some worker comes back by itself no later than
its deadline (`Watches`). There are two exceptions, both in the code. A timer registered
while a worker is in the reactor, by a task of another worker that then parks as a
follower, is seen only when the poll under way ends (`ArmedSince`). And while a worker that
met an error of the reactor waits as a follower like the others (`Failed`), nothing is
said: if all workers are followers, a timer waits for the next wake.

### Lanes

`next_task` as a function of which lanes have work, the governor's suggestion and the
base limit, all of which may change from call to call, with one action per way it
returns. The counters of the code (`cancel_streak` and so on) are state; next to them
an observer counts what happened while which work was eligible, and the properties
compare the two. The global and local queues of the cancel lane, and of the timed
lane, are tried together and counted alike and are one lane each; the four sources of
ready work are kept apart, since their order depends on `fast_queue_dispatch_streak`.
`ready_priority_inversions`, the third part of the certificate's invariant, compares
task priorities and is not modelled.

What the code does not promise, and the model shows: under `MeetDeadlines` with timed
and ready work always there, the cancel lane may wait for ever (`CancelResumes`
excludes deadline pressure); sustained global ready work may keep the heap waiting, only
the fast queue is limited.

`TimedBound` is the timed-lane clause of the module's contract (`three_lane.rs:49-52`) for
the ready work `R`, the worker's own ready lanes. For stealable work, the `S` of the same
clause, the code does not keep it: when the limit is reached `try_phase3_ready_work` looks
at the own lanes only, and with timed work due the call never comes to the stealing. The
observer's `timedRun` counts timed dispatches under `MeetDeadlines` and is not reset by
calls under another suggestion, which the code neither counts nor limits.

### Mpsc and BoundedChannel

All of `channel/mpsc.rs`. What is done under the channel's lock is one step, and each
waker taken there is called in a step of its own afterwards; the sender count, which is
an atomic outside the lock, has its own step in `Sender::drop`. A task polls whenever it
likes but can be relied on only when woken, so a lost wake shows as a violation. Waiters
leave by being granted, cancelled, dropped or closed. `cleanup_waiter` has a branch for
a waiter that somebody else took off the queue of an open channel; nobody does, and the
model has no such state. `try_send` and `send_evict_oldest` look at the physical
capacity only, in the code and in the model, so they may take the slot a waiter was
woken for; the documentation and a test of `send_evict_oldest` say otherwise (section
5). The receiver's waker belongs to its one `Recv`; that an unpolled `Recv` leaves a
waker registered by a direct `poll_recv` alone is not modelled.

`BoundedChannel` is the promise: a queue of bounded size, permits that hold a slot,
a close that keeps the messages, a drop of the receiver that discards them, and an end
after which nothing is accepted. `permits` maps to the set of senders that hold
a permit, so the refinement also says that the counter `reserved` is exact.

## 3. Runs

Every module states a type invariant, proved for every instance as `TypeCorrect`. The
runs do not repeat it, except that of WorkerPool, where it says that `next_wake` modulo
the number of workers stays a slot of a parker.

All bounds are in the cfg files. `MaxEntries` (TaskWake) bounds the entries in
circulation; the sets bound the rest. The messages sent through Mpsc and the errors of the
reactor in WorkerPool are not bounded.

| Run | Instance | States | What it shows |
|---|---|---|---|
| `region_tree` | 3 regions, 2 tasks, at most 2 children and tasks a region | 494,699 | `TreeConsistent`, `CancelReachesSubtree`, `CloseOutcomeDominates`, `CancelMonotone` |
| `region_obligations` | 2 regions, 2 tasks, 2 obligations, response Recover, Panic from the second leak on | 1,000,126 | `ObligationAccounting`, `QuiescentClose` |
| `region_finalizers` | 2 regions, 1 task, 1 obligation, 2 finalizers, response Panic | 200,167 | `FinalizersTracked`, `FinalizersLIFO`, `NoStrandedRegion`, `ImplementsPromise`, `CancelledRegionCloses` |
| `region_close_outcome` | 1 region, 1 task | violation | see Findings |
| `parker` | 3 unparking threads | 1,386 | `PermitNotLost`, `ImplementsPermit` with its liveness |
| `task_wakes` | 3 callers, 2 workers, 4 entries, both cancel paths | 628,898 | `FutureInOnePlace`, `NoLostWake`, `CancelPromoted`, `SingleEntry`, `EventuallyPolled` |
| `inject_cancel_promotion` | 2 callers, 1 worker | violation | see Findings |
| `ready_injector` | 3 entries, 2 workers, thresholds 2 and 1, batch 2 | 111,469 | `OnePlace`, `DeferralSafe`, `NoRaceDetected`, `CountCovers`, `ReservationBacked`, `CountersSettle`, `EventuallyPopped` |
| `worker_pool` | 2 workers, 1 thread, 2 tasks of which 1 pinned, reactor errors, with and without I/O | 2,963,645 | `TypeOK` (`next_wake` stays a slot), `NoSleepOnWork`, `DeadlineWatched`, `PinnedNoticed`, `ShutdownWakes` |
| `worker_pool_io` | 2 workers, 1 thread, 2 tasks, no reactor error | violation | see Findings |
| `lanes` | limits 2 and 0 (which counts as 1), handoff on and off | 8,207 | `CancelBound`, `CancelResumes`, `TimedBound`, `StolenBound`, `CertificateHolds` |
| `mpsc` | 2 senders, capacity 2 | 20,082 | `NoLostSenderWake`, `ClosedReleases`, `NoLostRecvWake`, `ImplementsChannel`, `ReserveResolves` |

Why the bounds are enough for the cases of interest. Three regions give a chain and a
fork, so a close walks up two levels and a cancel walks down two. Two tasks give a
sibling to be cancelled and a task that outlives another; `region_finalizers` has one,
which may run a body or an async finalizer, since a finalizer runs alone in its region.
Two finalizers give an order, and an async one above or below a sync one. Two
obligations give one resolved and one leaked by the same holder. Three callers and two
workers hold a duplicate entry, a worker between the store back and `finish_poll`, and a
second poll at once. Three injections at threshold 2 take the direct path, become the
combiner, defer, and leave a second batch; two popping workers with `max` up to 2
compete for `published`. Two workers are a leader and a follower, and one thread beside
them wakes and shuts down; a second task lets one be awaited while the other waits for a
timer or for I/O. Limits of 1 and 2 with their doubles under a drain let a streak
outlive the limit it started under. Two senders at capacity 2 fill the channel, queue
two waiters, and let `try_send` take the slot of a woken one. Symmetry is declared only
over sets of model values whose members the module never tells apart, and never in a run
with a liveness property.

Deadlock is not checked where a system may come to rest: all regions closed and no
identifier left, the task done, all entries popped, all workers exited, or the channel
closed. The parker and `next_task` never stop, and there deadlock is checked.

### Fairness

Only what the code's scheduling gives, and never an event from outside:

* RegionRuntime: weak fairness of `Advance` and `DrainEnds` (a critical section goes
  on); strong fairness of the scheduler's own steps (`StartRunning`, `GuardRetries`, the
  end of a poll), because other callers may hold the runtime lock again and again but the
  worker keeps asking for it, and strong fairness of a factory closure's return.
  `ScheduleReadyFinalizers` has none: `run_loop` asks for ready finalizers only when it
  finds no task (`three_lane.rs:3977`), a worker parked in the backoff loop does not, and
  a cancel from outside of a region without tasks wakes nobody. So
  `CancelledRegionCloses` is that a cancelled region closes or, in it or below it, an
  async finalizer waits for a worker to come by. That a cancelled task ends when it is
  polled is an assumption on tasks, the one the cancel protocol is built on.
* Parker: weak fairness inside park and unpark, strong fairness of the mutex.
  Nobody has to park or unpark, no spurious wakeup has to come.
* TaskWake: a caller finishes what it began, and a worker keeps popping and
  executing. The parking of workers is not part of this module.
* ReadyInjector: a thread inside `inject_ready` keeps running; workers keep popping
  while something is published.
* Mpsc: a call that took wakers calls them, a woken task is polled, a permit is used
  or given up (its drop does so at the latest), and the receiver keeps receiving or is
  dropped once it is cancelled; strong fairness for the receiver, because its future
  may be dropped and made again in between. Nobody has to send, and nothing obliges
  the senders that hold no permit. `ReserveResolves` excepts the behaviours in which
  `try_send` or `send_evict_oldest` take a free slot in front of a waiter again and again
  (`Overtakes`), which the code does not prevent; without the exception TLC refutes it.

WorkerPool and Lanes have safety properties only. That a worker which "will look" does
look is the fairness of threads; with it `NoSleepOnWork` is what TaskWake's fairness of
the workers rests on.

## 4. Proofs

TLAPS checks each of these for every value of the constants that satisfies the
named assumptions (`ConstantsAssumption`, `OwnerAssumption`, `TaskWakeAssumption`,
`ReadyInjectorAssumption`, `WorkerPoolAssumption`, `LanesAssumption`, `MpscAssumption`),
all of them types, finiteness and distinctness.

**RegionRuntimeProofs.** `IndInv` is `TypeOK`, `TreeConsistent`,
`ObligationAccounting`, `FinalizersTracked` and two facts on what is not created yet.
None of the main parts is inductive alone: that an obligation's counter belongs to a
region still there follows from the tree (its holder keeps its region in the arena),
and that a finalizer's region is still there from the barrier task being a task of the
tree. One lemma per action group preserves it. `QuiescentClose` then follows without
further induction: a closed region is not in the arena, and whatever is not finished
names a region that is. Theorems: `TypeCorrect`, `TreeIsConsistent`,
`ObligationsAccounted`, `NoFinalizerLost`, `CloseIsQuiescent`.

The order of the finalizers rests on `OrderInv`: they are registered in the order of
their numbers (`RegisteredInOrder`), a stack holds waiting ones in that order
(`StacksAscend`), what waits below a barrier is older than it (`BarriersOnTop`), a
finalizer task is the barrier of its region and of no other
(`FinalizerTasksAreBarriers`), and the list that the drain walks is exact
(`FinalizingListed`). So the top of a stack, or the barrier above it, is the youngest
that has not run. Theorem: `FinalizersRunLastInFirstOut`, an action property.

**RegionCancelProofs.** `CancelInv` adds that a region has no reason before it
exists, and is preserved relative to `IndInv`; the step that matters is
`cancel_request`, where the downward closed set of the walk covers the children of
everything already cancelled. The outcome invariant relates recorded outcomes to
`close_outcome` through `Outcome::join`, and gives the action property
`CancelMonotone` as well. Theorems: `CancellationReaches`, `CloseOutcomeIsJoin`,
`CancellationIsMonotone`.

`NoRegionForgotten` needs an invariant of the inside of a critical section. A region is
`Unsettled` if nothing but the running section will advance it; `UnsettledQueued` says
that such a region is in `todo`, which is empty at the end. One step is not harmless: a
leak response that panics drops the rest of the queue, so there must be nothing
unsettled in it. Most sections walk up one path and have one unsettled region at a time
(`Chain`). Those that cancel a subtree have many (`Fan`), but a region without tasks
leaks only what a panicked factory orphaned, orphans are in cancelled regions only
(`OrphansCancelled`), and what had been cancelled before is settled; so only the root of
the subtree can leak, and by then it has no children left (`FinalizingEmpty`).
`AdvanceInv` is the conjunction, relative to `IndInv`, `OrderInv` and `CancelInv`.

`RuntimeKeepsPromise` is the step simulation of `RegionPromise`, one lemma per action
group. Cleanup alone in its region is `FinalizingEmpty`; a cancel of one subtree is the
walk of `collect_region_and_descendants_with_depth`, shown to hold exactly the regions
reachable over parents (`SubtreeClosed`, `SubtreeParent`). Two facts more are needed:
`OneRoot`, and `EndedWithOutcome` for the retry of an unwound completion.

**ParkerProofs.** `IndInv` strengthens `PermitNotLost` by `WaitingExact` (a thread
that looks at `waiting` sees the sleeper), `MutexHeld` (no signal falls between the
check and the sleep) and `RecheckTimed`. Theorems: `TypeCorrect`, `NoLostUnpark` and
`ParkerImplementsPermit`, the step simulation of the safety part of `Permit`.

**TaskWakeProofs.** `IndInv` strengthens `NoLostWake` by `FutureInOnePlace`,
`NotifiedCarried` (a notified live task has a carrier), `OwedNoticed` and
`FirstPollOwed` (before the first poll, when no cancel waker is registered, something
is owed). Theorems: `TypeCorrect`, `FutureHasOnePlace`, `NoWakeLost` and
`CancelWakerPromotes`. The last is about cancels through the cancel waker; the run
`inject_cancel_promotion` shows that those through `inject_cancel` have no such theorem.
`WakesAreDeduplicated` counts the worker that polls as well and adds that an idle task
has no entry at all (`SingleInv`): `finish_poll` turns the one into the other.

**ReadyInjectorProofs.** `IndInv` is `DeferralSafe` and `NoRaceDetected` with
`LockExact`: an injector that saw `active` set appends later, and only the pending
lock keeps the combiner from leaving meanwhile. `CountInv` is `TypeOK` with
`InFlightExact` (`in_flight` is the number of injections inside), `BatchHeld` and
`PopBounded`: that no counter falls below zero rests on every decrement undoing an
increment of the same thread. `QueueInv` says what the counters count: `count` is the
queue with what is counted and not yet enqueued and what is dequeued and not yet taken
off (`CountExact`), the queue is `published` with the reservations and what is not yet
published (`PublishedExact`), and no reservation is given back (`AllUsed`), so a pop
that reserved never finds the queue empty. `PlaceInv` is `OnePlace` as five disjoint
sets, with sequences that hold nothing twice. Theorems: `NoDeferredEntryStranded`,
`RaceBranchDead`, `TypeCorrect`, `CountLeads`, `ReservationsAreBacked`,
`CountersAreExactWhenQuiet`, `NothingLostOrDuplicated`.

**WorkerPoolProofs.** `WorkInv` strengthens `NoSleepOnWork` where it is not inductive:
a thread that has still to wake the reactor counts only while a worker is on its way
into it (`WorkNoticed`); with `LoopExact`, no worker leaves before a shutdown.
`DeadlineInv` adds `LeaderExact`: `is_polling` is held by a worker inside
`try_turn_with`, so a worker that loses the election, and will ignore deadlines, leaves
one that does not; and `PollExact`: a worker in the reactor whose time is
not up computed its timeout from every timer but those registered since.
`PinnedNoticed` and `ShutdownWakes` are inductive with the types.
The number of workers is arbitrary, and so is the order in which `wake_one` takes them.
Theorems: `TypeCorrect`, `WorkIsNoticed`, `DeadlineIsWatched`, `PinnedIsNoticed`,
`ShutdownReachesAll`.

**LanesProofs.** Each bound is an invariant that ties the observer's count to the
counter of the code. `cancelRun` is at most `cancel_streak` except after a fallback or
an idle call, when it is at most what the restarted streak allows; a run of other
dispatches implies a streak of zero, which is below every limit (the base limit is at
least 1), so the next call takes the cancel lane; a run of timed dispatches is at most
`timed_dispatch_streak`, and a run of the fast queue at most its streak. Theorems:
`TypeCorrect`, `CancelFairness`, `CancelPriority`, `TimedFairness`, `StolenFairness`,
`CertificateSound`, and `HandoffHarmless` (`HandoffOnlyReady`, which is proved only).

**MpscProofs.** `SafeInv` is `TypeOK`, `Roles` (only senders reserve, only the receiver
receives), `Counts` (`reserved` is the number of permits, `sender_count` the number of
live handles, and queue and permits fit the capacity) and `EndFinal` (once the receiver
was told Disconnected the channel is closed or has no handle, and is empty). It gives
the step simulation of `BoundedChannel`. `WakeInv` adds `Waiting` (the queue holds each
waiting sender once and no other), `Receiving` (a receiver that sleeps is registered)
and `Dropping` to the wakeup invariants: that the first in line is woken follows only
if it is a sender that waits. Theorems: `TypeCorrect`, `Refinement`, `SenderWakeups`,
`CloseReleasesSenders`, `ReceiverWakeups`.

Only model-checked: the liveness properties (`CancelledRegionCloses`,
`EventuallyPolled`, `EventuallyPopped`, `ReserveResolves` and the fairness part of
`ImplementsPermit`), which are out of the prover's reach. Every invariant and every
action property that a passing run checks is also proved.

## 5. Findings

* `region_close_outcome`. `complete_close` sets `close_outcome` with `get_or_insert`.
  A task that ended Ok has already filled it, so a region that is cancelled
  afterwards closes Ok, while the comment of the same function says that observers
  need `close_outcome` to agree with `cancel_reason`.
* `inject_cancel_promotion`. `ThreeLaneScheduler::inject_cancel` injects a global
  task only if `notify` found it idle. A task waiting in the ready lane is not
  promoted, which a test and two comments of the same file expect. The cancel waker,
  the path of `TaskHandle::abort`, always injects and does promote.
* `worker_pool_io`. A worker that becomes I/O leader while a timer is due polls the
  reactor with timeout zero; if it finds nothing it is neither follower nor in the
  reactor and goes on to the backoff loop. If another worker has fired that timer
  meanwhile and parked as a follower, with no deadline left the first parks without a
  timeout too. A task that waits for I/O is then noticed only when something else wakes
  a worker, although the comment before the park says that a leader "shouldn't even be
  here" and another that followers may sleep because the leader handles what comes.

Further places where a text of the repository and the code differ, met while modelling.
They have no run of their own; the models follow the code.

* The contract of the module (`three_lane.rs:49-52`) extends timed-lane fairness to
  stealable work, and the documentation of `timed_fairness_limit` (2508-2512) states it
  without the condition `MeetDeadlines`. The code counts and compares the streak under
  `MeetDeadlines` only and does not steal while timed work is due.
* Followers ignore shared deadlines because "the leader handles those deadlines"
  (`three_lane.rs:192-194`). A timer registered while the leader polls does not shorten
  its timeout (`time/driver.rs:450`), so it may be late by as much as that poll
  (`DeadlineWatched`).
* The test `send_evict_oldest_does_not_drop_messages_when_waiter_owns_free_slot`
  (`mpsc.rs:2108-2139`) expects `Err(Full(99))` when a waiter was woken for the free slot,
  as the documentation of `send_evict_oldest_where` says. The code finds the capacity
  free, enqueues and returns `Ok(None)`; the waiter stays in the queue (`NoLostSenderWake`)
  and may be overtaken again (`Overtakes`).
* A region cancelled from outside whose async finalizers are all that is left waits for a
  worker to pass `schedule_ready_finalizers`; the cancel itself wakes none
  (`AwaitsIdleLoop`).

## 6. Plan

Done, in this order: RegionRuntime under RegionPromise, Parker under Permit, TaskWake,
ReadyInjector, WorkerPool, Lanes, Mpsc under BoundedChannel; then the proofs of all
their invariants and action properties. To come, most important first:

1. **Semaphore**, **Notify** and **Mutex**: hand-over of the baton by a cancelled
   waiter; **Oneshot** beside Mpsc.
2. The join side of `TaskHandle`: waiters across the unwind of `task_completed`
   (hazard `state.rs:3174`).
3. The timed lane and the timer wheel, local queues and stealing, race and the
   draining of its losers, the circuit breaker.

## 7. Not modelled

Codecs, network protocols, RaptorQ, the lab runtime, traces and replay: data
transformations, operating system I/O or observers of the state modelled here. The
cancellation protocol monitors and progress certificates observe and log. Budgets and
deadlines enter the core only as further sources of the cancels and polls that
RegionRuntime already takes at any time. Actors, supervision, sagas and the remote
runtime are built on regions and channels and come after the plan above. Of the crate's
1.7 million lines the greater part are such protocol stacks, command line tools,
conformance suites and tests in the source files; the models cover the core on which
all of it runs.
