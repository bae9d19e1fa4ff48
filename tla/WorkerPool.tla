----------------------------- MODULE WorkerPool -----------------------------
(***************************************************************************)
(* The worker threads of the three lane scheduler between two tasks:       *)
(* ThreeLaneWorker::run_loop, drive_io_phase and WorkerCoordinator         *)
(* (src/src/runtime/scheduler/three_lane.rs).  A worker looks for work,    *)
(* then polls the reactor as leader, or backs off and parks; whoever makes *)
(* a task runnable must find a worker that will look again.                *)
(*                                                                         *)
(* Each worker's Parker is what Permit promises: a flag set by unpark.     *)
(* The lanes are one queue of global tasks and one of pinned tasks (their  *)
(* order is Lanes' business) and a task is what it waits for or where it   *)
(* is.  Time makes deadlines due; a wait has the timeout that the deadlines *)
(* it saw gave it, whatever is registered later.                           *)
(***************************************************************************)
EXTENDS Naturals, Sequences, FiniteSets

CONSTANTS
    NumWorkers,  \* the number of workers, which are 0 .. NumWorkers - 1
    Threads,     \* other threads: they wake tasks and shut down
    Tasks,       \* the tasks
    Pinned,      \* the local (!Send) tasks, which are pinned to worker 0
    ReactorFails \* whether the reactor may return errors

Workers == 0 .. NumWorkers - 1
Actors == Workers \cup Threads

ASSUME WorkerPoolAssumption ==
    /\ NumWorkers \in Nat \ {0}
    /\ Threads \cap Workers = {}
    /\ Pinned \subseteq Tasks
    /\ ReactorFails \in BOOLEAN

VARIABLES
    hasIo,    \* the runtime was built with an I/O driver
    shutdown, \* ThreeLaneScheduler::shutdown
    st,       \* what each task waits for, or where it is
    queue,    \* the global lanes
    pinned,   \* local_ready of worker 0
    permit,   \* the permit of each worker's Parker
    nextWake, \* WorkerCoordinator::next_wake, modulo the number of workers
    notified, \* Reactor::wake was called since the last poll
    polling,  \* IoDriverHandle::is_polling, as the set of its holder
    wpc,      \* where each worker is in run_loop
    task,     \* the tasks each worker executes
    phase,    \* the IoPhaseOutcome of each worker, NoProgress before it has one
    timed,    \* the timeout of the poll or the park: "no", "zero", "timed", or "over"
    covers,   \* the tasks whose timers it was computed from
    unseen,   \* the tasks whose timers were registered after that
    todo,     \* the tasks each actor has taken over and not yet scheduled
    at        \* where each actor is in scheduling a task

tasks == <<st, queue, pinned>>
reactor == <<notified, polling>>
timeout == <<timed, covers, unseen>>
loop == <<wpc, task, phase, timeout>>
calls == <<todo, at>>
vars == <<hasIo, shutdown, tasks, permit, nextWake, reactor, loop, calls>>

\* A task waits for another thread, for a timer or for I/O; the timer may be
\* due and the I/O ready; or it is being scheduled, queued or executed.
TaskStates == {"event", "timer", "due", "io", "ioReady", "waking", "queued", "running"}
WorkerStates == {"top", "next", "run", "io", "turn", "poll", "release", "backoff",
                 "commit", "parked", "exited"}
CallStates == {"idle", "wakeOne", "unparkOwner", "wakeWorker", "wakeAll", "wakeIo"}

Init ==
    /\ hasIo \in BOOLEAN
    /\ shutdown = FALSE
    /\ st = [t \in Tasks |-> "event"]
    /\ queue = <<>>
    /\ pinned = <<>>
    /\ permit = [w \in Workers |-> FALSE]
    /\ nextWake = 0
    /\ notified = FALSE
    /\ polling = {}
    /\ wpc = [w \in Workers |-> "top"]
    /\ task = [w \in Workers |-> {}]
    /\ phase = [w \in Workers |-> "NoProgress"]
    /\ timed = [w \in Workers |-> "no"]
    /\ covers = [w \in Workers |-> {}]
    /\ unseen = [w \in Workers |-> {}]
    /\ todo = [a \in Actors |-> {}]
    /\ at = [a \in Actors |-> "idle"]

In(state) == {t \in Tasks : st[t] = state}
Goto(w, state) == wpc' = [wpc EXCEPT ![w] = state]
\* The wait of w gets a timeout from the timers of S, or has none any more.
SetTimeout(w, kind, S) ==
    /\ timed' = [timed EXCEPT ![w] = kind]
    /\ covers' = [covers EXCEPT ![w] = S]
    /\ unseen' = [unseen EXCEPT ![w] = {}]
ClearTimeout(w) == SetTimeout(w, "no", {})
\* A worker goes back to the head of run_loop, where it has no IoPhaseOutcome
\* yet, or on to another state.
BackOr(w, back, state) ==
    /\ Goto(w, IF back THEN "top" ELSE state)
    /\ phase' = IF back THEN [phase EXCEPT ![w] = "NoProgress"] ELSE phase
Follows(w) == phase[w] \in {"Follower", "Failed"}
\* The actor has nothing left to schedule.
Free(a) == at[a] = "idle" /\ todo[a] = {}

-----------------------------------------------------------------------------
(* Scheduling a task: push, then wake a worker.                            *)

\* A thread wakes a task.  A worker does the same for the task it executes, in
\* which case the thread stands for that worker.
Wake(a, t) ==
    /\ Free(a)
    /\ st[t] = "event"
    /\ st' = [st EXCEPT ![t] = "waking"]
    /\ todo' = [todo EXCEPT ![a] = {t}]
    /\ UNCHANGED <<hasIo, shutdown, queue, pinned, permit, nextWake, reactor, loop, at>>

\* ThreeLaneWaker::schedule and inject_ready push to the global lanes and call
\* wake_one ...
PushGlobal(a, t) ==
    /\ at[a] = "idle"
    /\ t \in todo[a] \ Pinned
    /\ todo' = [todo EXCEPT ![a] = @ \ {t}]
    /\ st' = [st EXCEPT ![t] = "queued"]
    /\ queue' = Append(queue, t)
    /\ at' = [at EXCEPT ![a] = "wakeOne"]
    /\ UNCHANGED <<hasIo, shutdown, pinned, permit, nextWake, reactor, loop>>

\* Mutant: the owner is not the worker that is woken.
PushLocalWakesAny(a, t, how) ==
    /\ at[a] = "idle"
    /\ t \in todo[a] \cap Pinned
    /\ todo' = [todo EXCEPT ![a] = @ \ {t}]
    /\ st' = [st EXCEPT ![t] = "queued"]
    /\ pinned' = Append(pinned, t)
    /\ at' = [at EXCEPT ![a] = "wakeOne"]
    /\ UNCHANGED <<hasIo, shutdown, queue, permit, nextWake, reactor, loop>>

\* ... ThreeLaneLocalWaker::schedule pushes to the owner's queue and unparks
\* it, and schedule_internal calls wake_worker instead.
PushLocal(a, t, how) ==
    /\ at[a] = "idle"
    /\ t \in todo[a] \cap Pinned
    /\ todo' = [todo EXCEPT ![a] = @ \ {t}]
    /\ st' = [st EXCEPT ![t] = "queued"]
    /\ pinned' = Append(pinned, t)
    /\ at' = [at EXCEPT ![a] = how]
    /\ UNCHANGED <<hasIo, shutdown, queue, permit, nextWake, reactor, loop>>

\* Mutant: the index is not reduced to a slot.
WakeOneUnwrapped(a) ==
    /\ at[a] = "wakeOne"
    /\ permit' = [permit EXCEPT ![nextWake] = TRUE]
    /\ nextWake' = nextWake + 1
    /\ at' = [at EXCEPT ![a] = "wakeIo"]
    /\ UNCHANGED <<hasIo, shutdown, tasks, reactor, loop, todo>>

\* wake_one: next_wake.fetch_add(1) chooses the parker that is unparked; who
\* sleeps is not asked.
WakeOne(a) ==
    /\ at[a] = "wakeOne"
    /\ permit' = [permit EXCEPT ![nextWake] = TRUE]
    /\ nextWake' = (nextWake + 1) % NumWorkers
    /\ at' = [at EXCEPT ![a] = "wakeIo"]
    /\ UNCHANGED <<hasIo, shutdown, tasks, reactor, loop, todo>>

\* wake_worker wakes the reactor too, the local waker does not.
UnparkOwner(a) ==
    /\ at[a] \in {"unparkOwner", "wakeWorker"}
    /\ permit' = [permit EXCEPT ![0] = TRUE]
    /\ at' = [at EXCEPT ![a] = IF @ = "wakeWorker" THEN "wakeIo" ELSE "idle"]
    /\ UNCHANGED <<hasIo, shutdown, tasks, nextWake, reactor, loop, todo>>

\* ThreeLaneScheduler::shutdown stores the flag, then calls wake_all.
Shutdown(a) ==
    /\ Free(a)
    /\ ~shutdown
    /\ shutdown' = TRUE
    /\ at' = [at EXCEPT ![a] = "wakeAll"]
    /\ UNCHANGED <<hasIo, tasks, permit, nextWake, reactor, loop, todo>>

WakeAll(a) ==
    /\ at[a] = "wakeAll"
    /\ permit' = [w \in Workers |-> TRUE]
    /\ at' = [at EXCEPT ![a] = "wakeIo"]
    /\ UNCHANGED <<hasIo, shutdown, tasks, nextWake, reactor, loop, todo>>

\* Mutant: the leader is left in the reactor.
WakeIoSkipped(a) ==
    /\ at[a] = "wakeIo"
    /\ at' = [at EXCEPT ![a] = "idle"]
    /\ UNCHANGED <<hasIo, shutdown, tasks, permit, nextWake, reactor, loop, todo>>

\* The last step of each: io.wake(), if there is an I/O driver.
WakeIo(a) ==
    /\ at[a] = "wakeIo"
    /\ notified' = (notified \/ hasIo)
    /\ at' = [at EXCEPT ![a] = "idle"]
    /\ UNCHANGED <<hasIo, shutdown, tasks, permit, nextWake, polling, loop, todo>>

CallSteps(a) ==
    \/ \E t \in Tasks : PushGlobal(a, t)
    \/ \E t \in Tasks, how \in {"unparkOwner", "wakeWorker"} : PushLocal(a, t, how)
    \/ WakeOne(a) \/ UnparkOwner(a) \/ WakeAll(a) \/ WakeIo(a)

-----------------------------------------------------------------------------
(* run_loop: shutdown, timers, tasks.                                      *)

\* The shutdown flag, then process_timers, which collects the expired timers
\* and calls their wakers.
Top(w) ==
    /\ wpc[w] = "top" /\ Free(w)
    /\ \/ /\ shutdown
          /\ Goto(w, "exited")
          /\ UNCHANGED <<st, unseen, todo>>
       \/ /\ ~shutdown
          /\ todo' = [todo EXCEPT ![w] = In("due")]
          /\ st' = [t \in Tasks |-> IF st[t] = "due" THEN "waking" ELSE st[t]]
          /\ unseen' = [v \in Workers |-> unseen[v] \ In("due")]
          /\ Goto(w, "next")
    /\ UNCHANGED <<hasIo, shutdown, queue, pinned, permit, nextWake, reactor, task, phase, timed,
                   covers, at>>

Execute(w, t) ==
    /\ st' = [st EXCEPT ![t] = "running"]
    /\ task' = [task EXCEPT ![w] = {t}]
    /\ Goto(w, "run")

\* next_task finds a task ...
NextGlobal(w) ==
    /\ wpc[w] = "next" /\ Free(w)
    /\ queue # <<>>
    /\ queue' = Tail(queue)
    /\ Execute(w, Head(queue))
    /\ UNCHANGED <<hasIo, shutdown, pinned, permit, nextWake, reactor, phase, timeout,
                   calls>>

NextPinned(w) ==
    /\ wpc[w] = "next" /\ Free(w)
    /\ w = 0 /\ pinned # <<>>
    /\ pinned' = Tail(pinned)
    /\ Execute(w, Head(pinned))
    /\ UNCHANGED <<hasIo, shutdown, queue, permit, nextWake, reactor, phase, timeout,
                   calls>>

\* ... or none.
NextNone(w) ==
    /\ wpc[w] = "next" /\ Free(w)
    /\ queue = <<>>
    /\ w = 0 => pinned = <<>>
    /\ Goto(w, "io")
    /\ UNCHANGED <<hasIo, shutdown, tasks, permit, nextWake, reactor, task, phase, timeout,
                   calls>>

\* A poll of the task ends, having registered what the task now waits for.
\* TimerDriver::register wakes nobody: a worker on its way into the reactor, or
\* in it, keeps the timeout it has.
EndPoll(w, wait) ==
    /\ wpc[w] = "run" /\ Free(w)
    /\ wait = "io" => hasIo
    /\ st' = [t \in Tasks |-> IF t \in task[w] THEN wait ELSE st[t]]
    /\ unseen' = [v \in Workers |-> IF /\ wait = "timer"
                                      /\ wpc[v] \in {"turn", "poll"} /\ timed[v] = "timed"
                                   THEN unseen[v] \cup task[w] ELSE unseen[v]]
    /\ task' = [task EXCEPT ![w] = {}]
    /\ Goto(w, "top")
    /\ UNCHANGED <<hasIo, shutdown, queue, pinned, permit, nextWake, reactor, phase, timed,
                   covers, calls>>

-----------------------------------------------------------------------------
(* drive_io_phase.                                                         *)

\* The timeout is what the earliest deadline leaves, zero if it is due and
\* IDLE_IO_POLL_MAX_TIMEOUT if there is none; without an I/O driver, or after
\* a shutdown, there is no poll.
DriveIo(w) ==
    /\ wpc[w] = "io"
    /\ \/ /\ ~hasIo \/ shutdown
          /\ phase' = [phase EXCEPT ![w] = "NoProgress"]
          /\ Goto(w, "backoff")
          /\ UNCHANGED timeout
       \/ /\ hasIo /\ ~shutdown
          /\ IF In("due") # {} THEN SetTimeout(w, "zero", {})
             ELSE SetTimeout(w, "timed", In("timer"))
          /\ Goto(w, "turn")
          /\ UNCHANGED phase
    /\ UNCHANGED <<hasIo, shutdown, tasks, permit, nextWake, reactor, task, calls>>

\* try_turn_with: the compare_exchange on is_polling makes a leader or a
\* follower.
TryTurn(w) ==
    /\ wpc[w] = "turn"
    /\ \/ /\ polling = {}
          /\ polling' = {w}
          /\ Goto(w, "poll")
          /\ UNCHANGED <<phase, timeout>>
       \/ /\ polling # {}
          /\ phase' = [phase EXCEPT ![w] = "Follower"]
          /\ ClearTimeout(w)
          /\ Goto(w, "backoff")
          /\ UNCHANGED polling
    /\ UNCHANGED <<hasIo, shutdown, tasks, permit, nextWake, notified, task, calls>>

\* Reactor::poll returns with the events, or because it was notified ...
PollReturns(w) ==
    /\ wpc[w] = "poll"
    /\ notified \/ In("ioReady") # {}
    /\ notified' = FALSE
    /\ st' = [t \in Tasks |-> IF st[t] = "ioReady" THEN "waking" ELSE st[t]]
    /\ todo' = [todo EXCEPT ![w] = In("ioReady")]
    /\ phase' = [phase EXCEPT ![w] = IF In("ioReady") # {} \/ timed[w] # "zero"
                                     THEN "Progress" ELSE "NoProgress"]
    /\ ClearTimeout(w)
    /\ Goto(w, "release")
    /\ UNCHANGED <<hasIo, shutdown, queue, pinned, permit, nextWake, polling, task, at>>

\* ... or its time is up: at once, at the earliest deadline it was given, or
\* after IDLE_IO_POLL_MAX_TIMEOUT ...
PollTimesOut(w) ==
    /\ wpc[w] = "poll"
    /\ timed[w] \in {"zero", "over"} \/ covers[w] = {}
    /\ ~notified /\ In("ioReady") = {}
    /\ phase' = [phase EXCEPT ![w] = IF timed[w] = "zero" THEN "NoProgress" ELSE "Progress"]
    /\ ClearTimeout(w)
    /\ Goto(w, "release")
    /\ UNCHANGED <<hasIo, shutdown, tasks, permit, nextWake, reactor, task, calls>>

\* ... or it fails, and the worker carries on as a follower.  "Failed" is a
\* Follower that is one for this reason.
PollFails(w) ==
    /\ wpc[w] = "poll"
    /\ ReactorFails
    /\ phase' = [phase EXCEPT ![w] = "Failed"]
    /\ ClearTimeout(w)
    /\ Goto(w, "release")
    /\ UNCHANGED <<hasIo, shutdown, tasks, permit, nextWake, notified, polling, task, calls>>

\* The guard clears is_polling before the wakers are called; progress goes
\* back to the lanes, anything else backs off.
Release(w) ==
    /\ wpc[w] = "release"
    /\ polling' = {}
    /\ BackOr(w, phase[w] = "Progress", "backoff")
    /\ UNCHANGED <<hasIo, shutdown, tasks, permit, nextWake, notified, task, timeout, calls>>

-----------------------------------------------------------------------------
(* The backoff loop.                                                       *)

\* Mutant: the backoff loop does not look at the flag.
CheckQueueOnly(w) ==
    /\ wpc[w] = "backoff" /\ Free(w)
    /\ BackOr(w, queue # <<>>, "commit")
    /\ UNCHANGED <<hasIo, shutdown, tasks, permit, nextWake, reactor, task, timeout, calls>>

\* The shutdown flag and the global lanes, as often as it spins and yields ...
CheckGlobal(w) ==
    /\ wpc[w] = "backoff" /\ Free(w)
    /\ BackOr(w, shutdown \/ queue # <<>>, "commit")
    /\ UNCHANGED <<hasIo, shutdown, tasks, permit, nextWake, reactor, task, timeout, calls>>

\* Mutant: every worker ignores the shared deadlines.
CommitUntimed(w) ==
    /\ wpc[w] = "commit"
    /\ BackOr(w, w = 0 /\ pinned # <<>>, "parked")
    /\ UNCHANGED <<hasIo, shutdown, tasks, permit, nextWake, reactor, task, timeout, calls>>

\* ... then the local queues, and select_backoff_deadline: a follower parks
\* without a timeout, the others until the earliest deadline, unless it is due.
Commit(w) ==
    /\ wpc[w] = "commit"
    /\ LET shared == ~Follows(w)
           breaks == (w = 0 /\ pinned # <<>>) \/ (shared /\ In("due") # {})
       IN  /\ BackOr(w, breaks, "parked")
           /\ IF ~breaks /\ shared /\ In("timer") # {}
              THEN SetTimeout(w, "timed", In("timer")) ELSE ClearTimeout(w)
    /\ UNCHANGED <<hasIo, shutdown, tasks, permit, nextWake, reactor, task, calls>>

\* park and park_timeout return with the permit, and the loop looks again with
\* the IoPhaseOutcome it has.
Unparked(w) ==
    /\ wpc[w] = "parked" /\ permit[w]
    /\ permit' = [permit EXCEPT ![w] = FALSE]
    /\ ClearTimeout(w)
    /\ Goto(w, "backoff")
    /\ UNCHANGED <<hasIo, shutdown, tasks, nextWake, reactor, task, phase, calls>>

ParkTimesOut(w) ==
    /\ wpc[w] = "parked" /\ timed[w] = "over"
    /\ ClearTimeout(w)
    /\ Goto(w, "backoff")
    /\ UNCHANGED <<hasIo, shutdown, tasks, permit, nextWake, reactor, task, phase, calls>>

-----------------------------------------------------------------------------
(* The environment: time passes, I/O becomes ready.                        *)

\* The deadline of t passes, and the waits that were computed from it are over.
TimePasses(t) ==
    /\ st[t] = "timer"
    /\ st' = [st EXCEPT ![t] = "due"]
    /\ timed' = [w \in Workers |-> IF t \in covers[w] THEN "over" ELSE timed[w]]
    /\ covers' = [w \in Workers |-> IF t \in covers[w] THEN {} ELSE covers[w]]
    /\ unseen' = [w \in Workers |-> IF t \in covers[w] THEN {} ELSE unseen[w]]
    /\ UNCHANGED <<hasIo, shutdown, queue, pinned, permit, nextWake, reactor, wpc, task, phase,
                   calls>>

IoBecomesReady(t) ==
    /\ st[t] = "io"
    /\ st' = [st EXCEPT ![t] = "ioReady"]
    /\ UNCHANGED <<hasIo, shutdown, queue, pinned, permit, nextWake, reactor, loop, calls>>

WorkerSteps(w) ==
    \/ Top(w) \/ NextGlobal(w) \/ NextPinned(w) \/ NextNone(w)
    \/ \E wait \in {"event", "timer", "io"} : EndPoll(w, wait)
    \/ DriveIo(w) \/ TryTurn(w) \/ PollReturns(w) \/ PollTimesOut(w) \/ PollFails(w)
    \/ Release(w) \/ CheckGlobal(w) \/ Commit(w) \/ Unparked(w) \/ ParkTimesOut(w)

Next ==
    \/ \E a \in Threads, t \in Tasks : Wake(a, t)
    \/ \E a \in Threads : Shutdown(a)
    \/ \E a \in Actors : CallSteps(a)
    \/ \E w \in Workers : WorkerSteps(w)
    \/ \E t \in Tasks : TimePasses(t) \/ IoBecomesReady(t)

Spec == Init /\ [][Next]_vars

-----------------------------------------------------------------------------
\* Every field holds a value of its type.
TypeOK ==
    /\ hasIo \in BOOLEAN /\ shutdown \in BOOLEAN /\ notified \in BOOLEAN
    /\ st \in [Tasks -> TaskStates]
    /\ queue \in Seq(Tasks) /\ pinned \in Seq(Pinned)
    /\ permit \in [Workers -> BOOLEAN]
    /\ nextWake \in Workers
    /\ polling \subseteq Workers
    /\ wpc \in [Workers -> WorkerStates]
    /\ task \in [Workers -> SUBSET Tasks]
    /\ phase \in [Workers -> {"Progress", "Follower", "Failed", "NoProgress"}]
    /\ timed \in [Workers -> {"no", "zero", "timed", "over"}]
    /\ covers \in [Workers -> SUBSET Tasks]
    /\ unseen \in [Workers -> SUBSET Tasks]
    /\ todo \in [Actors -> SUBSET Tasks]
    /\ at \in [Actors -> CallStates]

\* The worker looks at the global lanes again before it waits for anything, or
\* its wait is over: the permit is there, or the reactor is notified.
WillLook(w) ==
    \/ wpc[w] \in {"top", "next", "run", "release", "backoff"}
    \/ wpc[w] \in {"commit", "parked"} /\ permit[w]
    \/ wpc[w] \in {"io", "turn", "poll"} /\ notified
    \/ wpc[w] = "io" /\ ~hasIo

\* The check of the lanes and the park are separate steps, and wake_one chooses
\* a worker without knowing who sleeps: still, work in the global lanes always
\* has a worker that will look at it, or somebody about to wake one, and
\* nobody has to wait for a timeout.
NoSleepOnWork ==
    queue # <<>> /\ ~shutdown =>
        \/ \E w \in Workers : WillLook(w)
        \/ \E a \in Actors : at[a] \in {"wakeOne", "wakeIo"}

\* The worker comes back to process_timers by itself, and no later than the
\* deadline of t: its wait is over, or was computed from the timer of t.
Watches(w, t) ==
    CASE wpc[w] \in {"turn", "poll"} -> timed[w] \in {"zero", "over"} \/ t \in covers[w]
      [] wpc[w] \in {"backoff", "commit"} -> ~Follows(w)
      [] wpc[w] = "parked" ->
            ~Follows(w) /\ (permit[w] \/ timed[w] = "over" \/ t \in covers[w])
      [] OTHER -> wpc[w] # "exited"

\* The timer of t was registered after w had computed the timeout of its poll:
\* w comes back when that timeout ends, which may be after the deadline.
ArmedSince(w, t) == wpc[w] \in {"turn", "poll"} /\ t \in unseen[w]

\* No worker waits as a follower because the reactor failed.
NoneFailed == \A w \in Workers : phase[w] # "Failed"

\* A follower ignores the shared deadlines because the leader handles them:
\* every deadline has a worker that comes back in time, unless an error of the
\* reactor makes a worker a follower that nobody leads, or the timer was
\* registered while the reactor was being polled, and then it waits no longer
\* than that poll.  Without an I/O driver there is
\* no such poll and no exception.
DeadlineWatched ==
    ~shutdown /\ NoneFailed =>
        \A t \in In("timer") \cup In("due") :
            \E w \in Workers : Watches(w, t) \/ ArmedSince(w, t)

\* Nothing but another thread can set the pool in motion again.
AllAsleep ==
    /\ \A w \in Workers : wpc[w] = "parked" /\ timed[w] = "no" /\ ~permit[w]
    /\ \A a \in Actors : Free(a)

\* Ready I/O finds a worker: the leader blocks in the reactor, and does not park
\* like a follower.
IoWatched == In("ioReady") # {} => ~AllAsleep

\* A wakeup of a pinned task reaches its worker, which looks at its queue again
\* or is in the reactor, whose timeout is finite: the local waker does not wake
\* the reactor.
PinnedNoticed ==
    pinned # <<>> /\ ~shutdown =>
        \/ wpc[0] \notin {"parked"} \/ permit[0]
        \/ \E a \in Actors : at[a] \in {"unparkOwner", "wakeWorker"}

\* After wake_all no worker stays parked, whether it was parked, about to park
\* or about to find another worker in the reactor when the flag was set.
ShutdownWakes ==
    shutdown /\ (\A a \in Actors : at[a] # "wakeAll") =>
        \A w \in Workers : wpc[w] \in {"commit", "parked"} => permit[w]
=============================================================================
