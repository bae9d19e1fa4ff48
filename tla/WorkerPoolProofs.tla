-------------------------- MODULE WorkerPoolProofs --------------------------
(***************************************************************************)
(* Theorems about WorkerPool, for any numbers of workers, threads and      *)
(* tasks and any number of reactor errors: work in the global lanes, a     *)
(* pinned task, a deadline and a shutdown always find a worker that will   *)
(* notice them.                                                            *)
(***************************************************************************)
EXTENDS WorkerPool, SequenceTheorems, TLAPS

-----------------------------------------------------------------------------
(* Types.                                                                  *)

\* The workers are there: worker 0 owns the pinned tasks, and next_wake taken
\* modulo their number is one of them.
LEMMA WorkerSlots ==
    /\ 0 \in Workers
    /\ \A n \in Workers : (n + 1) % NumWorkers \in Workers
<1>1. NumWorkers \in Nat /\ NumWorkers > 0
  BY WorkerPoolAssumption
<1>2. 0 \in Workers
  BY <1>1 DEF Workers
<1>3. ASSUME NEW n \in Workers
      PROVE  (n + 1) % NumWorkers \in Workers
  <2>1. n + 1 \in Nat
    BY <1>1 DEF Workers
  <2>2. (n + 1) % NumWorkers \in 0 .. NumWorkers - 1
    BY <1>1, <2>1
  <2> QED
    BY <2>2 DEF Workers
<1> QED
  BY <1>2, <1>3

\* The pool that has just been built is well typed.
LEMMA TypeInit == Init => TypeOK
<1> SUFFICES ASSUME Init PROVE TypeOK
  OBVIOUS
<1>1. <<>> \in Seq(Tasks) /\ <<>> \in Seq(Pinned)
  OBVIOUS
<1> QED
  BY <1>1, WorkerSlots DEF Init, TypeOK, TaskStates, WorkerStates, CallStates, Actors

\* Whoever schedules a task keeps the types.
LEMMA TypeCall ==
    ASSUME TypeOK, NEW a \in Actors,
           CallSteps(a) \/ (\E t \in Tasks : Wake(a, t)) \/ Shutdown(a)
    PROVE  TypeOK'
<1> USE DEF TypeOK, TaskStates, WorkerStates, CallStates
<1>1. ASSUME NEW t \in Tasks, Wake(a, t) PROVE TypeOK'
  BY <1>1 DEF Wake, reactor, loop, timeout
<1>2. CASE Shutdown(a)
  BY <1>2 DEF Shutdown, tasks, reactor, loop, timeout
<1>3. ASSUME NEW t \in Tasks, PushGlobal(a, t) PROVE TypeOK'
  <2>1. Append(queue, t) \in Seq(Tasks)
    BY AppendProperties
  <2> QED
    BY <1>3, <2>1 DEF PushGlobal, reactor, loop, timeout
<1>4. ASSUME NEW t \in Tasks, NEW how \in {"unparkOwner", "wakeWorker"}, PushLocal(a, t, how)
      PROVE TypeOK'
  <2>1. t \in Pinned
    BY <1>4 DEF PushLocal
  <2>2. Append(pinned, t) \in Seq(Pinned)
    BY <2>1, AppendProperties
  <2> QED
    BY <1>4, <2>2 DEF PushLocal, reactor, loop, timeout
<1>5. CASE WakeOne(a)
  BY <1>5, WorkerSlots DEF WakeOne, tasks, reactor, loop, timeout
<1>6. CASE UnparkOwner(a)
  BY <1>6, WorkerSlots DEF UnparkOwner, tasks, reactor, loop, timeout
<1>7. CASE WakeAll(a)
  BY <1>7 DEF WakeAll, tasks, reactor, loop, timeout
<1>8. CASE WakeIo(a)
  BY <1>8 DEF WakeIo, tasks, loop, timeout
<1> QED
  BY <1>1, <1>2, <1>3, <1>4, <1>5, <1>6, <1>7, <1>8 DEF CallSteps

\* A turn of run_loop keeps the types.
LEMMA TypeWorker ==
    ASSUME TypeOK, NEW w \in Workers, WorkerSteps(w)
    PROVE  TypeOK'
<1> USE DEF TypeOK, TaskStates, WorkerStates, CallStates, Goto, BackOr, timeout, SetTimeout,
       ClearTimeout
<1>a. w \in Actors
  BY DEF Actors
<1>1. CASE Top(w)
  <2>1. In("due") \subseteq Tasks
    BY DEF In
  <2>2. UNCHANGED <<hasIo, shutdown, queue, pinned, permit, nextWake, reactor, task, phase,
                    timed, covers, at>>
    BY <1>1 DEF Top
  <2>3. CASE shutdown
    BY <1>1, <2>2, <2>3 DEF Top, reactor
  <2>4. CASE ~shutdown
    <3>1. /\ todo' = [todo EXCEPT ![w] = In("due")]
          /\ st' = [t \in Tasks |-> IF st[t] = "due" THEN "waking" ELSE st[t]]
          /\ unseen' = [v \in Workers |-> unseen[v] \ In("due")]
          /\ wpc' = [wpc EXCEPT ![w] = "next"]
      BY <1>1, <2>4 DEF Top
    <3>2. st' \in [Tasks -> TaskStates] /\ todo' \in [Actors -> SUBSET Tasks]
      BY <1>a, <2>1, <3>1
    <3> QED
      BY <2>2, <3>1, <3>2 DEF reactor
  <2> QED
    BY <2>3, <2>4
<1>2. CASE NextGlobal(w)
  <2>1. queue # <<>>
    BY <1>2 DEF NextGlobal
  <2>2. Head(queue) \in Tasks /\ Tail(queue) \in Seq(Tasks)
    BY <2>1, HeadTailProperties
  <2> QED
    BY <1>2, <2>2 DEF NextGlobal, Execute, reactor, calls
<1>3. CASE NextPinned(w)
  <2>1. pinned # <<>>
    BY <1>3 DEF NextPinned
  <2>2. Head(pinned) \in Pinned /\ Tail(pinned) \in Seq(Pinned)
    BY <2>1, HeadTailProperties
  <2>3. Head(pinned) \in Tasks
    BY <2>2, WorkerPoolAssumption
  <2> QED
    BY <1>3, <2>2, <2>3 DEF NextPinned, Execute, reactor, calls
<1>4. CASE NextNone(w)
  BY <1>4 DEF NextNone, tasks, reactor, calls
<1>5. ASSUME NEW wait \in {"event", "timer", "io"}, EndPoll(w, wait) PROVE TypeOK'
  BY <1>5 DEF EndPoll, reactor, calls
<1>6. CASE DriveIo(w)
  <2>1. In("timer") \subseteq Tasks
    BY DEF In
  <2>2. /\ timed' \in [Workers -> {"no", "zero", "timed", "over"}]
        /\ covers' \in [Workers -> SUBSET Tasks] /\ unseen' \in [Workers -> SUBSET Tasks]
    <3>1. \/ UNCHANGED timeout \/ SetTimeout(w, "zero", {})
          \/ SetTimeout(w, "timed", In("timer"))
      BY <1>6 DEF DriveIo
    <3>2. CASE UNCHANGED timeout
      BY <3>2
    <3>3. CASE SetTimeout(w, "zero", {})
      BY <3>3
    <3>4. CASE SetTimeout(w, "timed", In("timer"))
      BY <2>1, <3>4
    <3> QED
      BY <3>1, <3>2, <3>3, <3>4
  <2>3. /\ wpc' \in [Workers -> WorkerStates]
        /\ phase' \in [Workers -> {"Progress", "Follower", "Failed", "NoProgress"}]
    BY <1>6 DEF DriveIo
  <2>4. UNCHANGED <<hasIo, shutdown, tasks, permit, nextWake, reactor, task, calls>>
    BY <1>6 DEF DriveIo
  <2> QED
    BY <2>2, <2>3, <2>4 DEF tasks, reactor, calls
<1>7. CASE TryTurn(w)
  <2>1. /\ timed' \in [Workers -> {"no", "zero", "timed", "over"}]
        /\ covers' \in [Workers -> SUBSET Tasks] /\ unseen' \in [Workers -> SUBSET Tasks]
    BY <1>7 DEF TryTurn
  <2>2. /\ wpc' \in [Workers -> WorkerStates] /\ polling' \subseteq Workers
        /\ phase' \in [Workers -> {"Progress", "Follower", "Failed", "NoProgress"}]
    BY <1>7 DEF TryTurn
  <2> QED
    BY <1>7, <2>1, <2>2 DEF TryTurn, tasks, calls
<1>8. CASE PollReturns(w)
  <2>1. In("ioReady") \subseteq Tasks
    BY DEF In
  <2> QED
    BY <1>a, <1>8, <2>1 DEF PollReturns
<1>9. CASE PollTimesOut(w)
  BY <1>9 DEF PollTimesOut, tasks, reactor, calls
<1>10. CASE PollFails(w)
  BY <1>10 DEF PollFails, tasks, calls
<1>11. CASE Release(w)
  BY <1>11 DEF Release, tasks, calls
<1>12. CASE CheckGlobal(w)
  BY <1>12 DEF CheckGlobal, tasks, reactor, calls
<1>13. CASE Commit(w)
  <2>1. In("timer") \subseteq Tasks
    BY DEF In
  <2>2. /\ timed' \in [Workers -> {"no", "zero", "timed", "over"}]
        /\ covers' \in [Workers -> SUBSET Tasks] /\ unseen' \in [Workers -> SUBSET Tasks]
    <3>1. ClearTimeout(w) \/ SetTimeout(w, "timed", In("timer"))
      BY <1>13 DEF Commit
    <3>2. CASE ClearTimeout(w)
      BY <3>2
    <3>3. CASE SetTimeout(w, "timed", In("timer"))
      BY <2>1, <3>3
    <3> QED
      BY <3>1, <3>2, <3>3
  <2>3. /\ wpc' \in [Workers -> WorkerStates]
        /\ phase' \in [Workers -> {"Progress", "Follower", "Failed", "NoProgress"}]
    BY <1>13 DEF Commit
  <2>4. UNCHANGED <<hasIo, shutdown, tasks, permit, nextWake, reactor, task, calls>>
    BY <1>13 DEF Commit
  <2> QED
    BY <2>2, <2>3, <2>4 DEF tasks, reactor, calls
<1>14. CASE Unparked(w)
  BY <1>14 DEF Unparked, tasks, reactor, calls
<1>15. CASE ParkTimesOut(w)
  BY <1>15 DEF ParkTimesOut, tasks, reactor, calls
<1> QED
  BY <1>1, <1>2, <1>3, <1>4, <1>5, <1>6, <1>7, <1>8, <1>9, <1>10, <1>11, <1>12, <1>13,
     <1>14, <1>15
  DEF WorkerSteps

\* The environment keeps the types.
LEMMA TypeEnvironment ==
    ASSUME TypeOK, NEW t \in Tasks, TimePasses(t) \/ IoBecomesReady(t)
    PROVE  TypeOK'
<1> USE DEF TypeOK, TaskStates
<1>1. CASE TimePasses(t)
  <2>1. /\ timed' \in [Workers -> {"no", "zero", "timed", "over"}]
        /\ covers' \in [Workers -> SUBSET Tasks] /\ unseen' \in [Workers -> SUBSET Tasks]
    BY <1>1 DEF TimePasses
  <2>2. st' \in [Tasks -> TaskStates]
    BY <1>1 DEF TimePasses
  <2> QED
    BY <1>1, <2>1, <2>2 DEF TimePasses, reactor, calls
<1>2. CASE IoBecomesReady(t)
  BY <1>2 DEF IoBecomesReady, reactor, loop, timeout, calls
<1> QED
  BY <1>1, <1>2

\* Every field of the pool keeps its type: in particular next_wake, reduced
\* modulo the number of workers, always names a parker.
THEOREM TypeCorrect == Spec => []TypeOK
<1>1. TypeOK /\ UNCHANGED vars => TypeOK'
  BY DEF TypeOK, vars, tasks, reactor, loop, timeout, calls
<1>2. \A a \in Threads : a \in Actors
  BY DEF Actors
<1>3. TypeOK /\ [Next]_vars => TypeOK'
  BY <1>1, <1>2, TypeCall, TypeWorker, TypeEnvironment DEF Next
<1> QED
  BY <1>3, TypeInit, PTL DEF Spec
-----------------------------------------------------------------------------
(* Work in the global lanes.                                               *)

\* A worker leaves run_loop only after a shutdown, and only a pool with an I/O
\* driver elects a leader.
LoopExact ==
    /\ \A w \in Workers : wpc[w] = "exited" => shutdown
    /\ \A w \in Workers : wpc[w] \in {"turn", "poll"} => hasIo

\* The worker is on its way into the reactor, or in it: it looks again as soon
\* as the reactor is woken.
NearReactor(w) == wpc[w] \in {"io", "turn", "poll"}

\* NoSleepOnWork does not say what wake_one still owes: between its unpark and
\* its wake of the reactor the worker it chose may be in the reactor.
WorkNoticed ==
    queue # <<>> /\ ~shutdown =>
        \/ \E w \in Workers : WillLook(w)
        \/ \E a \in Actors : at[a] = "wakeOne"
        \/ (\E a \in Actors : at[a] = "wakeIo") /\ \E w \in Workers : NearReactor(w)

WorkInv == LoopExact /\ WorkNoticed

\* A caller's steps: the push is followed by wake_one, which leaves a permit
\* with a worker that then looks, or is about to be woken in the reactor.
LEMMA WorkCall ==
    ASSUME TypeOK, WorkInv, NEW a \in Actors,
           CallSteps(a) \/ (\E t \in Tasks : Wake(a, t)) \/ Shutdown(a)
    PROVE  WorkInv'
<1> USE DEF TypeOK, WorkInv, WorkerStates, CallStates
<1>0. LoopExact'
  BY DEF LoopExact, CallSteps, PushGlobal, PushLocal, WakeOne, UnparkOwner, WakeAll, WakeIo,
     Wake, Shutdown, loop
<1>1. ASSUME NEW t \in Tasks, Wake(a, t) PROVE WorkNoticed'
  BY <1>1 DEF Wake, WorkNoticed, WillLook, NearReactor, reactor, loop
<1>2. CASE Shutdown(a)
  BY <1>0, <1>2 DEF Shutdown, WorkNoticed
<1>3. ASSUME NEW t \in Tasks, PushGlobal(a, t) PROVE WorkNoticed'
  BY <1>3 DEF PushGlobal, WorkNoticed
<1>4. ASSUME NEW t \in Tasks, NEW how \in {"unparkOwner", "wakeWorker"}, PushLocal(a, t, how)
      PROVE WorkNoticed'
  BY <1>4 DEF PushLocal, WorkNoticed, WillLook, NearReactor, reactor, loop
<1>5. CASE WakeOne(a)
  <2>1. nextWake \in Workers /\ permit'[nextWake] /\ at'[a] = "wakeIo"
    BY <1>5 DEF WakeOne
  <2>2. UNCHANGED <<wpc, shutdown>>
    BY <1>5 DEF WakeOne, loop
  <2>3. ASSUME NEW v \in Workers, v = nextWake, ~shutdown
        PROVE  WillLook(v)' \/ NearReactor(v)'
    <3>1. wpc[v] # "exited" /\ wpc'[v] = wpc[v] /\ permit'[v]
      BY <2>1, <2>2, <2>3 DEF LoopExact
    <3> QED
      BY <3>1 DEF WillLook, NearReactor
  <2> QED
    BY <1>0, <2>1, <2>2, <2>3 DEF WorkNoticed
<1>6. CASE UnparkOwner(a)
  BY <1>0, <1>6 DEF UnparkOwner, WorkNoticed, WillLook, NearReactor, tasks, reactor, loop
<1>7. CASE WakeAll(a)
  BY <1>0, <1>7 DEF WakeAll, WorkNoticed, WillLook, NearReactor, tasks, reactor, loop
<1>8. CASE WakeIo(a)
  <2>1. /\ UNCHANGED <<wpc, shutdown, queue, permit, hasIo>>
        /\ at' = [at EXCEPT ![a] = "idle"]
        /\ notified' = (notified \/ hasIo)
    BY <1>8 DEF WakeIo, tasks, loop
  <2>2. ASSUME NEW w \in Workers, WillLook(w) \/ NearReactor(w)
        PROVE  WillLook(w)'
    BY <2>1, <2>2 DEF WillLook, NearReactor, LoopExact
  <2>3. \A b \in Actors : at[b] = "wakeOne" => at'[b] = "wakeOne"
    BY <1>8, <2>1 DEF WakeIo
  <2>4. WorkNoticed'
    <3> SUFFICES ASSUME queue # <<>>, ~shutdown
                 PROVE  (\E w \in Workers : WillLook(w)') \/ \E b \in Actors : at'[b] = "wakeOne"
      BY <2>1 DEF WorkNoticed
    <3>1. (\E w \in Workers : WillLook(w) \/ NearReactor(w)) \/ \E b \in Actors : at[b] = "wakeOne"
      BY DEF WorkNoticed
    <3> QED
      BY <2>2, <2>3, <3>1
  <2> QED
    BY <1>0, <2>4
<1> QED
  BY <1>0, <1>1, <1>2, <1>3, <1>4, <1>5, <1>6, <1>7, <1>8 DEF CallSteps

\* The worker that takes a step and was going to look at the lanes still is;
\* if it consumes the notification of the reactor, it is the one that looks.
LEMMA WorkWorker ==
    ASSUME TypeOK, WorkInv, NEW w \in Workers, WorkerSteps(w)
    PROVE  WorkInv'
<1> USE DEF TypeOK, WorkInv, WorkerStates, CallStates, Goto, BackOr
<1>0. LoopExact'
  BY DEF LoopExact, WorkerSteps, Top, NextGlobal, NextPinned, NextNone, EndPoll, DriveIo,
     TryTurn, PollReturns, PollTimesOut, PollFails, Release, CheckGlobal, Commit, Unparked,
     ParkTimesOut, Execute
<1>1. UNCHANGED at
  BY DEF WorkerSteps, Top, NextGlobal, NextPinned, NextNone, EndPoll, DriveIo,
     TryTurn, PollReturns, PollTimesOut, PollFails, Release, CheckGlobal, Commit, Unparked,
     ParkTimesOut, calls
<1>2. CASE Top(w)
  BY <1>0, <1>1, <1>2 DEF Top, WorkNoticed, WillLook, NearReactor, reactor
<1>3. CASE NextGlobal(w)
  <2>1. WillLook(w)'
    BY <1>3 DEF NextGlobal, Execute, WillLook
  <2> QED
    BY <1>0, <2>1 DEF WorkNoticed
<1>4. CASE NextPinned(w)
  <2>1. WillLook(w)'
    BY <1>4 DEF NextPinned, Execute, WillLook
  <2> QED
    BY <1>0, <2>1 DEF WorkNoticed
<1>5. CASE NextNone(w)
  BY <1>0, <1>5 DEF NextNone, WorkNoticed, tasks
<1>6. ASSUME NEW wait \in {"event", "timer", "io"}, EndPoll(w, wait) PROVE WorkInv'
  <2>1. WillLook(w)'
    BY <1>6 DEF EndPoll, WillLook
  <2> QED
    BY <1>0, <2>1 DEF WorkNoticed
<1>7. CASE DriveIo(w)
  BY <1>0, <1>1, <1>7 DEF DriveIo, WorkNoticed, WillLook, NearReactor, LoopExact, tasks, reactor
<1>8. CASE TryTurn(w)
  BY <1>0, <1>1, <1>8 DEF TryTurn, WorkNoticed, WillLook, NearReactor, tasks
<1>9. CASE PollReturns(w) \/ PollTimesOut(w) \/ PollFails(w) \/ Release(w)
  <2>1. WillLook(w)'
    BY <1>9 DEF PollReturns, PollTimesOut, PollFails, Release, WillLook
  <2> QED
    BY <1>0, <2>1 DEF WorkNoticed
<1>10. CASE CheckGlobal(w)
  BY <1>0, <1>1, <1>10 DEF CheckGlobal, WorkNoticed, WillLook, tasks
<1>11. CASE Commit(w)
  BY <1>0, <1>1, <1>11 DEF Commit, WorkNoticed, WillLook, NearReactor, tasks, reactor
<1>12. CASE Unparked(w) \/ ParkTimesOut(w)
  <2>1. WillLook(w)'
    BY <1>12 DEF Unparked, ParkTimesOut, WillLook
  <2> QED
    BY <1>0, <2>1 DEF WorkNoticed
<1> QED
  BY <1>0, <1>2, <1>3, <1>4, <1>5, <1>6, <1>7, <1>8, <1>9, <1>10, <1>11, <1>12
  DEF WorkerSteps

\* Work in the global lanes always has a worker that will look at it without
\* waiting for a timeout, or somebody about to wake one, although run_loop
\* looks and parks in separate steps and wake_one does not ask who sleeps.
THEOREM WorkIsNoticed == Spec => []NoSleepOnWork
<1>1. Init => WorkInv
  BY DEF Init, WorkInv, LoopExact, WorkNoticed
<1>2. WorkInv /\ UNCHANGED vars => WorkInv'
  BY DEF WorkInv, LoopExact, WorkNoticed, WillLook, NearReactor, vars, tasks, reactor, loop,
     calls
<1>3. ASSUME WorkInv, NEW t \in Tasks, TimePasses(t) \/ IoBecomesReady(t)
      PROVE  WorkInv'
  BY <1>3 DEF WorkInv, LoopExact, WorkNoticed, WillLook, NearReactor, TimePasses,
     IoBecomesReady, reactor, loop, calls
<1>4. \A a \in Threads : a \in Actors
  BY DEF Actors
<1>5. TypeOK /\ WorkInv /\ [Next]_vars => WorkInv'
  BY <1>2, <1>3, <1>4, WorkCall, WorkWorker DEF Next
<1>6. WorkInv => NoSleepOnWork
  BY DEF WorkInv, WorkNoticed, NoSleepOnWork
<1> QED
  BY <1>1, <1>5, <1>6, TypeCorrect, PTL DEF Spec

-----------------------------------------------------------------------------
(* Deadlines.                                                              *)

Deadlines == In("timer") \cup In("due")

\* is_polling is held by a worker inside try_turn_with, and only an error of
\* the reactor makes the leader a follower.
LeaderExact ==
    /\ \A w \in polling : wpc[w] \in {"poll", "release"}
    /\ \A w \in Workers : wpc[w] = "release" => phase[w] # "Follower"

\* A poll that is not over has a timeout computed from every deadline but those
\* that were registered since.
PollExact ==
    \A w \in Workers :
        wpc[w] \in {"turn", "poll"} =>
            \/ timed[w] \in {"zero", "over"}
            \/ timed[w] = "timed" /\ Deadlines \subseteq covers[w] \cup unseen[w]

DeadlineInv == LoopExact /\ LeaderExact /\ PollExact /\ DeadlineWatched

\* What DeadlineWatched says of a worker and a deadline.
Minds(w, t) == Watches(w, t) \/ ArmedSince(w, t)

\* Callers create no deadline, and a permit does not end a watch.
LEMMA DeadlineCall ==
    ASSUME TypeOK, DeadlineInv, NEW a \in Actors,
           CallSteps(a) \/ (\E t \in Tasks : Wake(a, t)) \/ Shutdown(a)
    PROVE  DeadlineInv'
<1> USE DEF TypeOK, DeadlineInv
<1>1. UNCHANGED <<loop, polling, hasIo>> /\ (shutdown => shutdown')
  BY DEF CallSteps, PushGlobal, PushLocal, WakeOne, UnparkOwner, WakeAll, WakeIo, Wake,
     Shutdown, reactor
<1>2. LoopExact' /\ LeaderExact'
  BY <1>1 DEF LoopExact, LeaderExact, loop
<1>3. \A w \in Workers : permit[w] => permit'[w]
  BY DEF CallSteps, PushGlobal, PushLocal, WakeOne, UnparkOwner, WakeAll, WakeIo, Wake,
     Shutdown
<1>4. Deadlines' \subseteq Deadlines
  BY DEF CallSteps, PushGlobal, PushLocal, WakeOne, UnparkOwner, WakeAll, WakeIo, Wake,
     Shutdown, Deadlines, In, tasks
<1>5. PollExact'
  BY <1>1, <1>4 DEF PollExact, loop, timeout
<1>6. \A w \in Workers, t \in Tasks : Minds(w, t) => Minds(w, t)'
  BY <1>1, <1>3 DEF Minds, Watches, Follows, ArmedSince, loop, timeout
<1>7. DeadlineWatched'
  BY <1>1, <1>4, <1>6 DEF DeadlineWatched, NoneFailed, Deadlines, In, Minds, loop
<1> QED
  BY <1>2, <1>5, <1>7

\* The steps of a worker keep what a poll knows of the deadlines: those that
\* run_loop collects are gone, those that a task registers are unseen.
LEMMA PollExactWorker ==
    ASSUME TypeOK, PollExact, NEW w \in Workers, WorkerSteps(w)
    PROVE  PollExact'
<1> USE DEF TypeOK, WorkerStates, Goto, BackOr, timeout, SetTimeout, ClearTimeout
<1>1. CASE Top(w)
  <2>1. CASE shutdown
    BY <1>1, <2>1 DEF Top, PollExact, Deadlines, In
  <2>2. CASE ~shutdown
    <3>1. Deadlines' = In("timer") /\ unseen' = [v \in Workers |-> unseen[v] \ In("due")]
      BY <1>1, <2>2 DEF Top, Deadlines, In
    <3>2. In("timer") \cap In("due") = {}
      BY DEF In
    <3>3. ASSUME NEW v \in Workers, wpc'[v] \in {"turn", "poll"}
          PROVE  wpc[v] = wpc'[v] /\ timed'[v] = timed[v] /\ covers'[v] = covers[v]
      BY <1>1, <2>2, <3>3 DEF Top
    <3> QED
      BY <3>1, <3>2, <3>3 DEF PollExact, Deadlines
  <2> QED
    BY <2>1, <2>2
<1>2. CASE NextGlobal(w) \/ NextPinned(w) \/ NextNone(w)
  <2>1. Deadlines' \subseteq Deadlines
    BY <1>2 DEF NextGlobal, NextPinned, NextNone, Execute, Deadlines, In, tasks
  <2>2. UNCHANGED <<timed, covers, unseen>>
    BY <1>2 DEF NextGlobal, NextPinned, NextNone
  <2>3. \A v \in Workers : wpc'[v] \in {"turn", "poll"} => wpc[v] = wpc'[v]
    BY <1>2 DEF NextGlobal, NextPinned, NextNone, Execute
  <2> QED
    BY <2>1, <2>2, <2>3 DEF PollExact
<1>3. ASSUME NEW wait \in {"event", "timer", "io"}, EndPoll(w, wait) PROVE PollExact'
  <2>1. Deadlines' \subseteq Deadlines \cup (IF wait = "timer" THEN task[w] ELSE {})
    BY <1>3 DEF EndPoll, Deadlines, In
  <2>2. UNCHANGED <<timed, covers>>
    BY <1>3 DEF EndPoll
  <2>3. \A v \in Workers : wpc'[v] \in {"turn", "poll"} => wpc[v] = wpc'[v]
    BY <1>3 DEF EndPoll
  <2>4. unseen' = [v \in Workers |-> IF /\ wait = "timer"
                                       /\ wpc[v] \in {"turn", "poll"} /\ timed[v] = "timed"
                                    THEN unseen[v] \cup task[w] ELSE unseen[v]]
    BY <1>3 DEF EndPoll
  <2> QED
    BY <2>1, <2>2, <2>3, <2>4 DEF PollExact
<1>4. CASE DriveIo(w)
  BY <1>4 DEF DriveIo, PollExact, Deadlines, In, tasks
<1>5. CASE TryTurn(w)
  BY <1>5 DEF TryTurn, PollExact, Deadlines, In, tasks
<1>6. CASE PollReturns(w)
  <2>1. Deadlines' \subseteq Deadlines
    BY <1>6 DEF PollReturns, Deadlines, In
  <2> QED
    BY <1>6, <2>1 DEF PollReturns, PollExact
<1>7. CASE PollTimesOut(w) \/ PollFails(w) \/ Release(w)
  BY <1>7 DEF PollTimesOut, PollFails, Release, PollExact, Deadlines, In, tasks
<1>8. CASE CheckGlobal(w) \/ Unparked(w) \/ ParkTimesOut(w)
  BY <1>8 DEF CheckGlobal, Unparked, ParkTimesOut, PollExact, Deadlines, In, tasks
<1>9. CASE Commit(w)
  BY <1>9 DEF Commit, PollExact, Deadlines, In, tasks
<1> QED
  BY <1>1, <1>2, <1>3, <1>4, <1>5, <1>6, <1>7, <1>8, <1>9 DEF WorkerSteps

\* A worker's step: a follower leaves a leader behind, and who parks without
\* being a follower parks until the earliest deadline.
LEMMA DeadlineWorker ==
    ASSUME TypeOK, DeadlineInv, NEW w \in Workers, WorkerSteps(w)
    PROVE  DeadlineInv'
<1> USE DEF TypeOK, DeadlineInv, WorkerStates, Goto, BackOr
<1>0. LoopExact'
  BY DEF LoopExact, WorkerSteps, Top, NextGlobal, NextPinned, NextNone, EndPoll, DriveIo,
     TryTurn, PollReturns, PollTimesOut, PollFails, Release, CheckGlobal, Commit, Unparked,
     ParkTimesOut, Execute
<1>1. LeaderExact'
  <2>1. CASE Top(w) \/ NextGlobal(w) \/ NextPinned(w) \/ NextNone(w)
             \/ (\E wait \in {"event", "timer", "io"} : EndPoll(w, wait))
    <3>1. UNCHANGED polling
      BY <2>1 DEF Top, NextGlobal, NextPinned, NextNone, EndPoll, reactor
    <3>2. /\ wpc[w] \notin {"poll", "release"} /\ wpc'[w] # "release"
          /\ \A v \in Workers : v # w => wpc'[v] = wpc[v] /\ phase'[v] = phase[v]
      BY <2>1 DEF Top, NextGlobal, NextPinned, NextNone, EndPoll, Execute
    <3> QED
      BY <3>1, <3>2 DEF LeaderExact
  <2>2. CASE DriveIo(w) \/ TryTurn(w)
    <3>1. UNCHANGED polling \/ (polling' = {w} /\ wpc'[w] = "poll")
      BY <2>2 DEF DriveIo, TryTurn, reactor
    <3>2. wpc[w] \in {"io", "turn"} /\ wpc'[w] \in {"turn", "poll", "backoff"}
      BY <2>2 DEF DriveIo, TryTurn
    <3>3. \A v \in Workers : v # w => wpc'[v] = wpc[v] /\ phase'[v] = phase[v]
      BY <2>2 DEF DriveIo, TryTurn
    <3> QED
      BY <3>1, <3>2, <3>3 DEF LeaderExact
  <2>3. CASE PollReturns(w) \/ PollTimesOut(w)
    <3>1. UNCHANGED polling /\ wpc' = [wpc EXCEPT ![w] = "release"]
      BY <2>3 DEF PollReturns, PollTimesOut, reactor
    <3>2. phase'[w] # "Follower" /\ \A v \in Workers : v # w => phase'[v] = phase[v]
      BY <2>3 DEF PollReturns, PollTimesOut
    <3> QED
      BY <3>1, <3>2 DEF LeaderExact
  <2>4. CASE PollFails(w)
    BY <2>4 DEF PollFails, LeaderExact
  <2>5. CASE Release(w)
    BY <2>5 DEF LeaderExact, Release
  <2>6. CASE CheckGlobal(w) \/ Commit(w) \/ Unparked(w) \/ ParkTimesOut(w)
    BY <2>6 DEF LeaderExact, CheckGlobal, Commit, Unparked, ParkTimesOut, reactor
  <2> QED
    BY <2>1, <2>2, <2>3, <2>4, <2>5, <2>6 DEF WorkerSteps
<1>2. PollExact'
  BY PollExactWorker
<1>3. ASSUME NEW v \in Workers, ~shutdown' /\ NoneFailed' => wpc'[v] \in {"turn", "poll"}
      PROVE  DeadlineWatched'
  BY <1>2, <1>3 DEF DeadlineWatched, PollExact, Watches, ArmedSince, Deadlines
<1>4. ASSUME NEW v \in Workers,
             ~shutdown' /\ NoneFailed' => \A t \in Tasks : Watches(v, t)'
      PROVE  DeadlineWatched'
  BY <1>4 DEF DeadlineWatched, In
<1>5. CASE Top(w) \/ NextGlobal(w) \/ NextPinned(w) \/ NextNone(w)
           \/ (\E wait \in {"event", "timer", "io"} : EndPoll(w, wait))
  <2>1. ~shutdown' => wpc'[w] \in {"top", "next", "run", "io"}
    BY <1>5 DEF Top, NextGlobal, NextPinned, NextNone, EndPoll, Execute
  <2> QED
    BY <1>0, <1>1, <1>2, <1>4, <2>1 DEF Watches
<1>6. CASE DriveIo(w)
  <2>1. wpc'[w] = "turn" \/ (wpc'[w] = "backoff" /\ phase'[w] = "NoProgress")
    BY <1>6 DEF DriveIo
  <2>2. CASE wpc'[w] = "turn"
    BY <1>0, <1>1, <1>2, <1>3, <2>2
  <2>3. CASE wpc'[w] = "backoff" /\ phase'[w] = "NoProgress"
    BY <1>0, <1>1, <1>2, <1>4, <2>3 DEF Watches, Follows
  <2> QED
    BY <2>1, <2>2, <2>3
<1>7. CASE TryTurn(w)
  <2>1. CASE polling = {}
    <3>1. wpc'[w] = "poll"
      BY <1>7, <2>1 DEF TryTurn
    <3> QED
      BY <1>0, <1>1, <1>2, <1>3, <3>1
  <2>2. CASE polling # {}
    <3>1. PICK v \in polling : TRUE
      BY <2>2
    <3>2. v \in Workers /\ v # w /\ wpc[v] \in {"poll", "release"}
      BY <1>7, <3>1 DEF LeaderExact, TryTurn
    <3>3. wpc'[v] \in {"poll", "release"}
      BY <1>7, <2>2, <3>2 DEF TryTurn
    <3>4. CASE wpc'[v] = "poll"
      BY <1>0, <1>1, <1>2, <1>3, <3>2, <3>4
    <3>5. CASE wpc'[v] = "release"
      BY <1>0, <1>1, <1>2, <1>4, <3>2, <3>5 DEF Watches
    <3> QED
      BY <3>3, <3>4, <3>5
  <2> QED
    BY <2>1, <2>2
<1>8. CASE PollReturns(w) \/ PollTimesOut(w) \/ PollFails(w)
  <2>1. wpc'[w] = "release"
    BY <1>8 DEF PollReturns, PollTimesOut, PollFails
  <2> QED
    BY <1>0, <1>1, <1>2, <1>4, <2>1 DEF Watches
<1>9. CASE Release(w)
  <2>1. wpc'[w] \in {"top", "backoff"}
    BY <1>9 DEF Release
  <2>2. NoneFailed' => ~Follows(w)'
    BY <1>9, <2>1 DEF Release, LeaderExact, NoneFailed, Follows
  <2> QED
    BY <1>0, <1>1, <1>2, <1>4, <2>1, <2>2 DEF Watches
<1>10. CASE CheckGlobal(w) \/ Unparked(w) \/ ParkTimesOut(w)
  <2>1. UNCHANGED <<st, shutdown>>
    BY <1>10 DEF CheckGlobal, Unparked, ParkTimesOut, tasks, reactor
  <2>2. ASSUME NEW v \in Workers, NEW t \in Tasks, Minds(v, t)
        PROVE  Minds(v, t)'
    <3>1. CASE v # w
      <4>1. /\ wpc'[v] = wpc[v] /\ timed'[v] = timed[v] /\ covers'[v] = covers[v]
            /\ unseen'[v] = unseen[v] /\ permit'[v] = permit[v] /\ phase'[v] = phase[v]
        BY <1>10, <3>1 DEF CheckGlobal, Unparked, ParkTimesOut, timeout, SetTimeout, ClearTimeout
      <4> QED
        BY <2>1, <2>2, <4>1 DEF Minds, Watches, Follows, ArmedSince
    <3>2. CASE v = w
      <4>1. /\ wpc[w] \in {"backoff", "parked"} /\ wpc'[w] \in {"top", "commit", "backoff"}
            /\ wpc'[w] = "top" \/ phase'[w] = phase[w]
        BY <1>10 DEF CheckGlobal, Unparked, ParkTimesOut
      <4> QED
        BY <2>1, <2>2, <3>2, <4>1 DEF Minds, Watches, Follows, ArmedSince
    <3> QED
      BY <3>1, <3>2
  <2>3. CASE wpc'[w] = "top"
    BY <1>0, <1>1, <1>2, <1>4, <2>3 DEF Watches
  <2>4. CASE wpc'[w] # "top"
    <3>1. UNCHANGED phase
      BY <1>10, <2>4 DEF CheckGlobal, Unparked, ParkTimesOut
    <3>2. DeadlineWatched'
      BY <2>1, <2>2, <3>1 DEF DeadlineWatched, NoneFailed, In, Minds
    <3> QED
      BY <1>0, <1>1, <1>2, <3>2
  <2> QED
    BY <2>3, <2>4
<1>11. CASE Commit(w)
  <2>1. UNCHANGED <<st, shutdown, permit>>
    BY <1>11 DEF Commit, tasks, reactor
  <2>2. Deadlines' = Deadlines
    BY <2>1 DEF Deadlines, In
  <2>3. ASSUME NEW v \in Workers, NEW t \in Deadlines, Minds(v, t)
        PROVE  Minds(v, t)'
    <3>1. CASE v # w
      <4>1. /\ wpc'[v] = wpc[v] /\ timed'[v] = timed[v] /\ covers'[v] = covers[v]
            /\ unseen'[v] = unseen[v] /\ phase'[v] = phase[v]
        BY <1>11, <3>1 DEF Commit, SetTimeout, ClearTimeout
      <4> QED
        BY <2>1, <2>3, <4>1 DEF Minds, Watches, Follows, ArmedSince
    <3>2. CASE v = w
      <4>1. ~Follows(w) /\ wpc[w] = "commit"
        BY <1>11, <2>3, <3>2 DEF Commit, Minds, Watches, ArmedSince
      <4>2. CASE wpc'[w] = "top"
        BY <3>2, <4>2 DEF Minds, Watches
      <4>3. CASE wpc'[w] # "top"
        <5>1. In("due") = {} /\ wpc'[w] = "parked" /\ phase'[w] = phase[w]
          BY <1>11, <4>1, <4>3 DEF Commit
        <5>2. In("timer") # {} /\ t \in In("timer")
          BY <2>3, <5>1 DEF Deadlines
        <5>3. covers'[w] = In("timer")
          BY <1>11, <4>1, <4>3, <5>1, <5>2 DEF Commit, SetTimeout
        <5> QED
          BY <2>1, <3>2, <4>1, <5>1, <5>2, <5>3 DEF Minds, Watches, Follows
      <4> QED
        BY <4>2, <4>3
    <3> QED
      BY <3>1, <3>2
  <2>4. CASE wpc'[w] = "top"
    BY <1>0, <1>1, <1>2, <1>4, <2>4 DEF Watches
  <2>5. CASE wpc'[w] # "top"
    <3>1. UNCHANGED phase
      BY <1>11, <2>5 DEF Commit
    <3>2. DeadlineWatched'
      BY <2>1, <2>2, <2>3, <3>1 DEF DeadlineWatched, NoneFailed, Deadlines, Minds
    <3> QED
      BY <1>0, <1>1, <1>2, <3>2
  <2> QED
    BY <2>4, <2>5
<1> QED
  BY <1>5, <1>6, <1>7, <1>8, <1>9, <1>10, <1>11 DEF WorkerSteps

\* Time makes deadlines due, and the waits computed from them are over; ready
\* I/O changes no deadline.
LEMMA DeadlineEnvironment ==
    ASSUME TypeOK, DeadlineInv, NEW t \in Tasks, TimePasses(t) \/ IoBecomesReady(t)
    PROVE  DeadlineInv'
<1> USE DEF TypeOK, DeadlineInv
<1>1. UNCHANGED <<wpc, phase, polling, hasIo, shutdown, permit>>
  BY DEF TimePasses, IoBecomesReady, reactor, loop
<1>2. LoopExact' /\ LeaderExact'
  BY <1>1 DEF LoopExact, LeaderExact
<1>3. Deadlines' \subseteq Deadlines
  BY DEF TimePasses, IoBecomesReady, Deadlines, In
<1>4. ASSUME NEW w \in Workers
      PROVE  \/ timed'[w] = "over"
             \/ timed'[w] = timed[w] /\ covers'[w] = covers[w] /\ unseen'[w] = unseen[w]
  BY DEF TimePasses, IoBecomesReady, loop, timeout
<1>5. PollExact'
  BY <1>1, <1>3, <1>4 DEF PollExact
<1>6. ASSUME NEW w \in Workers, NEW u \in Deadlines', Minds(w, u)
      PROVE  Minds(w, u)'
  <2>1. CASE timed'[w] = "over"
    BY <1>1, <1>6, <2>1 DEF Minds, Watches, Follows, ArmedSince
  <2>2. CASE timed'[w] = timed[w] /\ covers'[w] = covers[w] /\ unseen'[w] = unseen[w]
    BY <1>1, <1>6, <2>2 DEF Minds, Watches, Follows, ArmedSince
  <2> QED
    BY <1>4, <2>1, <2>2
<1>7. DeadlineWatched'
  BY <1>1, <1>3, <1>6 DEF DeadlineWatched, NoneFailed, Deadlines, Minds
<1> QED
  BY <1>2, <1>5, <1>7

\* As long as the reactor does not fail, a deadline always has a worker that
\* comes back by it, so that select_backoff_deadline may let a follower ignore
\* it, or it was registered during the leader's poll and waits for its end.
THEOREM DeadlineIsWatched == Spec => []DeadlineWatched
<1>1. Init => DeadlineInv
  <2> SUFFICES ASSUME Init PROVE DeadlineInv
    OBVIOUS
  <2>1. In("timer") \cup In("due") = {}
    BY DEF Init, In
  <2> QED
    BY <2>1 DEF Init, DeadlineInv, LoopExact, LeaderExact, PollExact, DeadlineWatched
<1>2. ASSUME DeadlineInv, UNCHANGED vars PROVE DeadlineInv'
  <2>1. LoopExact' /\ LeaderExact'
    BY <1>2 DEF DeadlineInv, LoopExact, LeaderExact, vars, reactor, loop
  <2>2. PollExact'
    BY <1>2 DEF DeadlineInv, PollExact, Deadlines, In, vars, tasks, loop, timeout
  <2>3. DeadlineWatched'
    BY <1>2 DEF DeadlineInv, DeadlineWatched, NoneFailed, Watches, Follows, ArmedSince, In, vars, tasks, reactor,
       loop, timeout
  <2> QED
    BY <2>1, <2>2, <2>3 DEF DeadlineInv
<1>3. \A a \in Threads : a \in Actors
  BY DEF Actors
<1>4. TypeOK /\ DeadlineInv /\ [Next]_vars => DeadlineInv'
  BY <1>2, <1>3, DeadlineCall, DeadlineWorker, DeadlineEnvironment DEF Next
<1>5. DeadlineInv => DeadlineWatched
  BY DEF DeadlineInv
<1> QED
  BY <1>1, <1>4, <1>5, TypeCorrect, PTL DEF Spec

-----------------------------------------------------------------------------
(* Pinned tasks and shutdown.                                              *)

\* A wakeup of a pinned task reaches worker 0: schedule_local pushes before it
\* unparks, and the worker looks at local_ready between its commitment to park
\* and the park.
THEOREM PinnedIsNoticed == Spec => []PinnedNoticed
<1>1. Init => PinnedNoticed
  BY DEF Init, PinnedNoticed
<1>2. PinnedNoticed /\ UNCHANGED vars => PinnedNoticed'
  BY DEF PinnedNoticed, vars, tasks, loop, calls
<1>3. ASSUME TypeOK, PinnedNoticed, NEW t \in Tasks, TimePasses(t) \/ IoBecomesReady(t)
      PROVE  PinnedNoticed'
  BY <1>3 DEF PinnedNoticed, TimePasses, IoBecomesReady, loop, calls
<1>4. ASSUME TypeOK, PinnedNoticed, NEW a \in Actors,
             CallSteps(a) \/ (\E t \in Tasks : Wake(a, t)) \/ Shutdown(a)
      PROVE  PinnedNoticed'
  BY <1>4, WorkerSlots DEF TypeOK, PinnedNoticed, CallSteps, PushGlobal, PushLocal, WakeOne,
     UnparkOwner, WakeAll, WakeIo, Wake, Shutdown, tasks, loop
<1>5. ASSUME TypeOK, PinnedNoticed, NEW w \in Workers, WorkerSteps(w)
      PROVE  PinnedNoticed'
  BY <1>5, WorkerSlots DEF TypeOK, PinnedNoticed, WorkerSteps, Top, NextGlobal, NextPinned,
     NextNone, EndPoll, DriveIo, TryTurn, PollReturns, PollTimesOut, PollFails, Release,
     CheckGlobal, Commit, Unparked, ParkTimesOut, Execute, Goto, BackOr, tasks, calls
<1>6. \A a \in Threads : a \in Actors
  BY DEF Actors
<1>7. TypeOK /\ PinnedNoticed /\ [Next]_vars => PinnedNoticed'
  BY <1>2, <1>3, <1>4, <1>5, <1>6 DEF Next
<1> QED
  BY <1>1, <1>7, TypeCorrect, PTL DEF Spec

\* Once the wake_all of ThreeLaneScheduler::shutdown is over, no worker is or
\* will be parked without a permit.
THEOREM ShutdownReachesAll == Spec => []ShutdownWakes
<1>1. Init => ShutdownWakes
  BY DEF Init, ShutdownWakes
<1>2. ShutdownWakes /\ UNCHANGED vars => ShutdownWakes'
  BY DEF ShutdownWakes, vars, tasks, loop, calls
<1>3. ASSUME TypeOK, ShutdownWakes, NEW t \in Tasks, TimePasses(t) \/ IoBecomesReady(t)
      PROVE  ShutdownWakes'
  BY <1>3 DEF ShutdownWakes, TimePasses, IoBecomesReady, loop, calls
<1>4. ASSUME TypeOK, ShutdownWakes, NEW a \in Actors,
             CallSteps(a) \/ (\E t \in Tasks : Wake(a, t)) \/ Shutdown(a)
      PROVE  ShutdownWakes'
  <2>1. UNCHANGED wpc /\ \A w \in Workers : permit[w] => permit'[w]
    BY <1>4 DEF TypeOK, CallSteps, PushGlobal, PushLocal, WakeOne, UnparkOwner, WakeAll,
       WakeIo, Wake, Shutdown, loop
  <2>2. CASE WakeAll(a)
    BY <2>2 DEF WakeAll, ShutdownWakes
  <2>3. CASE Shutdown(a)
    <3>1. at'[a] = "wakeAll"
      BY <1>4, <2>3 DEF Shutdown, TypeOK
    <3> QED
      BY <3>1 DEF ShutdownWakes
  <2>4. CASE ~WakeAll(a) /\ ~Shutdown(a)
    <3>1. UNCHANGED shutdown /\ \A b \in Actors : at[b] = "wakeAll" => at'[b] = "wakeAll"
      BY <1>4, <2>4 DEF TypeOK, CallSteps, PushGlobal, PushLocal, WakeOne, UnparkOwner,
         WakeIo, Wake
    <3> QED
      BY <1>4, <2>1, <3>1 DEF ShutdownWakes
  <2> QED
    BY <2>2, <2>3, <2>4
<1>5. ASSUME TypeOK, ShutdownWakes, NEW w \in Workers, WorkerSteps(w)
      PROVE  ShutdownWakes'
  <2> USE DEF TypeOK, WorkerSteps, Top, NextGlobal, NextPinned, NextNone, EndPoll, DriveIo,
          TryTurn, PollReturns, PollTimesOut, PollFails, Release, CheckGlobal, Commit,
          Unparked, ParkTimesOut, Execute, Goto, BackOr
  <2>1. UNCHANGED <<shutdown, at>>
    BY <1>5 DEF calls
  <2>2. \A v \in Workers : v # w => wpc'[v] = wpc[v] /\ permit'[v] = permit[v]
    BY <1>5
  <2>3. wpc'[w] \in {"commit", "parked"} /\ shutdown => wpc[w] = "commit" /\ UNCHANGED permit
    BY <1>5
  <2> HIDE DEF TypeOK, WorkerSteps
  <2> QED
    BY <1>5, <2>1, <2>2, <2>3 DEF ShutdownWakes
<1>6. \A a \in Threads : a \in Actors
  BY DEF Actors
<1>7. TypeOK /\ ShutdownWakes /\ [Next]_vars => ShutdownWakes'
  BY <1>2, <1>3, <1>4, <1>5, <1>6 DEF Next
<1> QED
  BY <1>1, <1>7, TypeCorrect, PTL DEF Spec
=============================================================================
