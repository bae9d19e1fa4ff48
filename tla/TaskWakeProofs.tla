--------------------------- MODULE TaskWakeProofs ---------------------------
(***************************************************************************)
(* Theorems about TaskWake, for any numbers of callers, workers and queue  *)
(* entries: the future is in one place, no wakeup is lost, a cancel        *)
(* announced by the cancel waker is promoted, and wakes are deduplicated.  *)
(***************************************************************************)
EXTENDS TaskWake, FiniteSetTheorems, TLAPS

\* A notified task is on its way to a poll; while the wake state is Polling a
\* worker is between begin_poll and finish_poll.
NotifiedCarried ==
    ~done =>
        /\ wake = "Notified" => Carried
        /\ wake = "Polling" =>
               \E w \in Workers : wpc[w] \in {"taken", "polling", "pending", "stored"}

\* What no poll has seen has been notified, or is about to be, or a poll is
\* about to see it.
OwedNoticed ==
    owed /\ ~done =>
        \/ \E c \in Callers : cpc[c] \in {"wake", "cancelWake", "injectCancel"}
        \/ \E w \in Workers : wpc[w] \in {"taken", "polling"}
        \/ wake = "Notified"

\* The first poll registers the cancel waker; a cancel before it calls no
\* waker, and relies on the wakeup that is owed since the task was created.
FirstPollOwed ==
    /\ ~registered /\ ~done => owed
    /\ \A w \in Workers : wpc[w] = "polling" => registered
    /\ \A w \in Workers : wpc[w] = "clear" => done

\* NoLostWake is not inductive alone: where a notified task is carried by the
\* worker that polls it, FutureInOnePlace says that there is one.
IndInv ==
    /\ TypeOK
    /\ FutureInOnePlace
    /\ NotifiedCarried
    /\ OwedNoticed
    /\ FirstPollOwed

\* The invariant holds for a task whose spawner is about to schedule it.
LEMMA IndInvInit == Init => IndInv
<1> SUFFICES ASSUME Init PROVE IndInv
  OBVIOUS
<1>1. PICK c \in Callers : cpc = [k \in Callers |-> IF k = c THEN "wake" ELSE "idle"]
  BY DEF Init
<1>2. TypeOK
  BY <1>1 DEF Init, TypeOK, CallerStates, WorkerStates
<1>3. FutureInOnePlace /\ NotifiedCarried /\ FirstPollOwed
  BY DEF Init, FutureInOnePlace, Holds, NotifiedCarried, FirstPollOwed
<1>4. OwedNoticed
  <2>1. cpc[c] = "wake"
    BY <1>1
  <2> QED
    BY <2>1 DEF OwedNoticed
<1> QED
  BY <1>2, <1>3, <1>4 DEF IndInv

\* The steps of a waker, of a canceller and of inject_cancel preserve it.
LEMMA CallerPreserves ==
    ASSUME IndInv, NEW c \in Callers,
           Wake(c) \/ (\E path \in CancelPaths : Cancel(c, path)) \/ CallerSteps(c)
    PROVE  IndInv'
<1> USE DEF IndInv, TypeOK, CallerStates, WorkerStates, AllCancelPaths
<1>1. CASE Wake(c)
  BY <1>1 DEF Wake, FutureInOnePlace, Holds, NotifiedCarried, Carried, OwedNoticed, FirstPollOwed
<1>2. CASE \E path \in CancelPaths : Cancel(c, path)
  BY <1>2, TaskWakeAssumption DEF Cancel, FutureInOnePlace, Holds, NotifiedCarried, Carried,
              OwedNoticed, FirstPollOwed
<1>3. CASE NotifyWake(c)
  BY <1>3 DEF NotifyWake, ShouldSchedule, FutureInOnePlace, Holds, NotifiedCarried, Carried,
              OwedNoticed, FirstPollOwed
<1>4. CASE Route(c)
  BY <1>4 DEF Route, FutureInOnePlace, Holds, NotifiedCarried, Carried, OwedNoticed, FirstPollOwed
<1>5. CASE NotifyCancelWaker(c)
  BY <1>5 DEF NotifyCancelWaker, FutureInOnePlace, Holds, NotifiedCarried, Carried,
              OwedNoticed, FirstPollOwed
<1>6. CASE CancelWakerExpired(c)
  BY <1>6 DEF CancelWakerExpired, FutureInOnePlace, Holds, NotifiedCarried, Carried,
              OwedNoticed, FirstPollOwed
<1>7. CASE NotifyInjectCancel(c)
  BY <1>7 DEF NotifyInjectCancel, ShouldSchedule, FutureInOnePlace, Holds, NotifiedCarried,
              Carried, OwedNoticed, FirstPollOwed
<1>8. CASE PushReady(c)
  BY <1>8 DEF PushReady, FutureInOnePlace, Holds, NotifiedCarried, Carried, OwedNoticed,
              FirstPollOwed
<1>9. CASE PushCancel(c)
  BY <1>9 DEF PushCancel, FutureInOnePlace, Holds, NotifiedCarried, Carried, OwedNoticed,
              FirstPollOwed
<1> QED
  BY <1>1, <1>2, <1>3, <1>4, <1>5, <1>6, <1>7, <1>8, <1>9 DEF CallerSteps

\* The steps of next_task and execute preserve it.
LEMMA WorkerPreserves ==
    ASSUME IndInv, NEW w \in Workers, WorkerSteps(w)
    PROVE  IndInv'
<1> USE DEF IndInv, TypeOK, CallerStates, WorkerStates, AllCancelPaths
<1>1. CASE PopReady(w)
  BY <1>1 DEF PopReady, FutureInOnePlace, Holds, NotifiedCarried, Carried, OwedNoticed, FirstPollOwed
<1>2. CASE PopCancel(w)
  BY <1>2 DEF PopCancel, FutureInOnePlace, Holds, NotifiedCarried, Carried, OwedNoticed, FirstPollOwed
<1>3. CASE TakeFuture(w)
  <2>1. TypeOK'
    BY <1>3 DEF TakeFuture
  <2>2. FutureInOnePlace'
    BY <1>3 DEF TakeFuture, FutureInOnePlace, Holds
  <2>3. NotifiedCarried'
    <3>1. wake' = "Polling" /\ wpc'[w] = "taken"
      BY <1>3 DEF TakeFuture
    <3> HIDE DEF IndInv, TypeOK
    <3> QED
      BY <3>1 DEF NotifiedCarried
  <2>4. OwedNoticed' /\ FirstPollOwed'
    BY <1>3 DEF TakeFuture, OwedNoticed, FirstPollOwed
  <2> QED
    BY <2>1, <2>2, <2>3, <2>4
<1>4. CASE DropEntry(w)
  BY <1>4 DEF DropEntry, FutureInOnePlace, Holds, NotifiedCarried, Carried, OwedNoticed, FirstPollOwed
<1>5. CASE Register(w)
  BY <1>5 DEF Register, FutureInOnePlace, Holds, NotifiedCarried, Carried, OwedNoticed, FirstPollOwed
<1>6. CASE PollPending(w)
  <2>1. TypeOK'
    BY <1>6 DEF PollPending
  <2>2. FutureInOnePlace'
    BY <1>6 DEF PollPending, FutureInOnePlace, Holds
  <2>3. NotifiedCarried'
    BY <1>6 DEF PollPending, NotifiedCarried, Carried, FutureInOnePlace, Holds
  <2>4. OwedNoticed' /\ FirstPollOwed'
    BY <1>6 DEF PollPending, OwedNoticed, FirstPollOwed, FutureInOnePlace, Holds
  <2> QED
    BY <2>1, <2>2, <2>3, <2>4
<1>7. CASE PollReady(w)
  <2>1. TypeOK'
    BY <1>7 DEF PollReady
  <2>2. FutureInOnePlace'
    BY <1>7 DEF PollReady, FutureInOnePlace, Holds
  <2>3. NotifiedCarried'
    BY <1>7 DEF PollReady, NotifiedCarried, Carried, FutureInOnePlace, Holds
  <2>4. OwedNoticed' /\ FirstPollOwed'
    BY <1>7 DEF PollReady, OwedNoticed, FirstPollOwed, FutureInOnePlace, Holds
  <2> QED
    BY <2>1, <2>2, <2>3, <2>4
<1>8. CASE Clear(w)
  BY <1>8 DEF Clear, FutureInOnePlace, Holds, NotifiedCarried, Carried, OwedNoticed, FirstPollOwed
<1>9. CASE StoreBack(w)
  BY <1>9 DEF StoreBack, FutureInOnePlace, Holds, NotifiedCarried, Carried, OwedNoticed,
              FirstPollOwed
<1>10. CASE FinishPoll(w)
  BY <1>10 DEF FinishPoll, FutureInOnePlace, Holds, NotifiedCarried, Carried, OwedNoticed,
               FirstPollOwed
<1>11. CASE Reschedule(w)
  BY <1>11 DEF Reschedule, FutureInOnePlace, Holds, NotifiedCarried, Carried, OwedNoticed,
               FirstPollOwed
<1> QED
  BY <1>1, <1>2, <1>3, <1>4, <1>5, <1>6, <1>7, <1>8, <1>9, <1>10, <1>11 DEF WorkerSteps

\* Every reachable state of a task's wakeups satisfies the invariant.
THEOREM TaskWakeInvariance == Spec => []IndInv
<1>1. IndInv /\ UNCHANGED vars => IndInv'
  BY DEF IndInv, TypeOK, FutureInOnePlace, Holds, NotifiedCarried, Carried, OwedNoticed,
         FirstPollOwed, vars
<1>2. IndInv /\ [Next]_vars => IndInv'
  BY <1>1, CallerPreserves, WorkerPreserves DEF Next
<1> QED
  BY <1>2, IndInvInit, PTL DEF Spec

\* The state of a task's wakeups keeps its type: no lane hands out an entry it
\* does not hold.
THEOREM TypeCorrect == Spec => []TypeOK
<1>1. IndInv => TypeOK
  BY DEF IndInv
<1> QED
  BY <1>1, TaskWakeInvariance, PTL

\* execute takes the future out of the table for the time of the poll, so two
\* workers that popped duplicates of one task never both hold it, and it is
\* not lost while the task lives.
THEOREM FutureHasOnePlace == Spec => []FutureInOnePlace
<1>1. IndInv => FutureInOnePlace
  BY DEF IndInv
<1> QED
  BY <1>1, TaskWakeInvariance, PTL

\* No wakeup is lost between TaskWakeState::notify and finish_poll, for any
\* number of wakers, cancellers and workers.
THEOREM NoWakeLost == Spec => []NoLostWake
<1>1. IndInv => NoLostWake
  BY DEF IndInv, NotifiedCarried, OwedNoticed, NoLostWake
<1> QED
  BY <1>1, TaskWakeInvariance, PTL

-----------------------------------------------------------------------------
(* Promotion by the cancel waker.                                          *)

\* An announced cancel is in the flags, and the wake state shows it to the
\* worker that polls, or the waker is about to make it so.
CancelNoticed ==
    /\ "waker" \in cancelOwed => cancelled
    /\ "waker" \in cancelOwed /\ ~done =>
           \/ \E c \in Callers : cpc[c] = "cancelWake"
           \/ \E w \in Workers : wpc[w] \in {"taken", "polling"}
           \/ wake = "Notified"

\* CancelPromoted with what makes it inductive.
PromotionInv == CancelNoticed /\ CancelPromoted

\* A caller's step preserves the promotion: whatever other callers do, the wake
\* state leaves Notified only through a worker.
LEMMA CallerPromotes ==
    ASSUME IndInv, PromotionInv, NEW c \in Callers,
           Wake(c) \/ (\E path \in CancelPaths : Cancel(c, path)) \/ CallerSteps(c)
    PROVE  PromotionInv'
<1> USE DEF IndInv, TypeOK, CallerStates, WorkerStates, AllCancelPaths, PromotionInv, CancelNoticed, CancelPromoted, Promoted
<1>1. CASE Wake(c)
  BY <1>1 DEF Wake
<1>2. CASE \E path \in CancelPaths : Cancel(c, path)
  BY <1>2 DEF Cancel
<1>3. CASE NotifyWake(c)
  BY <1>3 DEF NotifyWake, ShouldSchedule
<1>4. CASE Route(c)
  BY <1>4 DEF Route
<1>5. CASE NotifyCancelWaker(c)
  BY <1>5 DEF NotifyCancelWaker
<1>6. CASE CancelWakerExpired(c)
  BY <1>6 DEF CancelWakerExpired
<1>7. CASE NotifyInjectCancel(c)
  BY <1>7 DEF NotifyInjectCancel, ShouldSchedule
<1>8. CASE PushReady(c)
  BY <1>8 DEF PushReady
<1>9. CASE PushCancel(c)
  BY <1>9 DEF PushCancel
<1> QED
  BY <1>1, <1>2, <1>3, <1>4, <1>5, <1>6, <1>7, <1>8, <1>9 DEF CallerSteps

\* A worker's step preserves the promotion: when the last cancel entry is
\* popped and the future is not there, the worker that holds it finds the
\* notification at finish_poll.
LEMMA WorkerPromotes ==
    ASSUME IndInv, PromotionInv, NEW w \in Workers, WorkerSteps(w)
    PROVE  PromotionInv'
<1> USE DEF IndInv, TypeOK, CallerStates, WorkerStates, AllCancelPaths, PromotionInv, CancelNoticed, CancelPromoted, Promoted
<1>1. CASE PopReady(w)
  BY <1>1 DEF PopReady
<1>2. CASE PopCancel(w)
  BY <1>2 DEF PopCancel, FutureInOnePlace, Holds
<1>3. CASE TakeFuture(w)
  BY <1>3 DEF TakeFuture
<1>4. CASE DropEntry(w)
  BY <1>4 DEF DropEntry
<1>5. CASE Register(w)
  BY <1>5 DEF Register
<1>6. CASE PollPending(w)
  BY <1>6 DEF PollPending
<1>7. CASE PollReady(w)
  BY <1>7 DEF PollReady
<1>8. CASE Clear(w)
  BY <1>8 DEF Clear, FirstPollOwed
<1>9. CASE StoreBack(w)
  BY <1>9 DEF StoreBack
<1>10. CASE FinishPoll(w)
  BY <1>10 DEF FinishPoll
<1>11. CASE Reschedule(w)
  BY <1>11 DEF Reschedule
<1> QED
  BY <1>1, <1>2, <1>3, <1>4, <1>5, <1>6, <1>7, <1>8, <1>9, <1>10, <1>11 DEF WorkerSteps

\* A cancel announced through CancelLaneWaker, which injects whatever the wake
\* state was, is never left behind an entry of the ready lane, also when
\* inject_cancel is called for the same task at the same time.
THEOREM CancelWakerPromotes == Spec => []CancelPromoted
<1>1. Init => PromotionInv
  BY DEF Init, PromotionInv, CancelNoticed, CancelPromoted, Promoted
<1>2. PromotionInv /\ UNCHANGED vars => PromotionInv'
  BY DEF PromotionInv, CancelNoticed, CancelPromoted, Promoted, vars
<1>3. IndInv /\ PromotionInv /\ [Next]_vars => PromotionInv'
  BY <1>2, CallerPromotes, WorkerPromotes DEF Next
<1>4. PromotionInv => CancelPromoted
  BY DEF PromotionInv
<1> QED
  BY <1>1, <1>3, <1>4, TaskWakeInvariance, PTL DEF Spec

-----------------------------------------------------------------------------
(* Deduplication.                                                          *)

\* The callers that are going to push an entry, and the workers that have one
\* or are in the poll it led to.
Pushing == {c \in Callers : cpc[c] \in {"route", "pushReady", "pushCancel"}}
Carrying == {w \in Workers : wpc[w] \in {"popped", "taken", "polling", "pending", "stored",
                                         "again"}}
Load == ready + cancel + Cardinality(Pushing) + Cardinality(Carrying)

\* SingleEntry is not inductive: finish_poll turns the worker that polls into
\* one with an entry.  The wake state tells the two apart from an idle task,
\* which has no entry at all.
SingleInv == ~done /\ ~duplicated => Load <= 1 /\ (wake = "Idle" => Load = 0)

\* The callers and workers that have an entry can be counted.
LEMMA LoadCounts ==
    /\ IsFiniteSet(Pushing) /\ Cardinality(Pushing) \in Nat
    /\ IsFiniteSet(Carrying) /\ Cardinality(Carrying) \in Nat
    /\ \A c \in Pushing : Cardinality(Pushing) >= 1
    /\ \A w \in Carrying : Cardinality(Carrying) >= 1
<1>1. IsFiniteSet(Pushing) /\ IsFiniteSet(Carrying)
  BY TaskWakeAssumption, FS_Subset DEF Pushing, Carrying
<1>2. Cardinality(Pushing) \in Nat /\ Cardinality(Carrying) \in Nat
  BY <1>1, FS_CardinalityType
<1>3. ASSUME NEW c \in Pushing PROVE Cardinality(Pushing) >= 1
  BY <1>1, <1>2, FS_EmptySet
<1>4. ASSUME NEW w \in Carrying PROVE Cardinality(Carrying) >= 1
  BY <1>1, <1>2, FS_EmptySet
<1> QED
  BY <1>1, <1>2, <1>3, <1>4

\* One member more or less counts one more or less.
LEMMA OneMore ==
    ASSUME NEW S, IsFiniteSet(S), NEW x
    PROVE  /\ x \notin S => Cardinality(S \cup {x}) = Cardinality(S) + 1
           /\ x \in S => Cardinality(S \ {x}) = Cardinality(S) - 1
  BY FS_AddElement, FS_RemoveElement

\* A step that moves no entry keeps the task deduplicated.
LEMMA SingleSame ==
    ASSUME SingleInv, UNCHANGED <<ready, cancel, duplicated>>, Pushing' = Pushing,
           Carrying' = Carrying, done => done', wake' # "Idle" \/ wake' = wake
    PROVE  SingleInv'
  BY DEF SingleInv, Load

\* A caller adds an entry only to an idle task.
LEMMA CallerSingle ==
    ASSUME IndInv, SingleInv, NEW c \in Callers,
           Wake(c) \/ (\E path \in CancelPaths : Cancel(c, path)) \/ CallerSteps(c)
    PROVE  SingleInv'
<1> USE DEF IndInv, TypeOK, CallerStates
<1>1. Carrying' = Carrying
  BY DEF Carrying, Wake, Cancel, CallerSteps, NotifyWake, Route, NotifyCancelWaker,
     CancelWakerExpired, NotifyInjectCancel, PushReady, PushCancel
<1>2. CASE Wake(c) \/ (\E path \in CancelPaths : Cancel(c, path)) \/ Route(c)
           \/ CancelWakerExpired(c)
  <2>1. Pushing' = Pushing
    BY <1>2 DEF Pushing, Wake, Cancel, Route, CancelWakerExpired
  <2>2. UNCHANGED <<ready, cancel, duplicated, done, wake>>
    BY <1>2 DEF Wake, Cancel, Route, CancelWakerExpired
  <2> QED
    BY <1>1, <2>1, <2>2, SingleSame
<1>3. CASE NotifyWake(c) \/ NotifyInjectCancel(c)
  <2>1. UNCHANGED <<ready, cancel, done, duplicated>>
    BY <1>3 DEF NotifyWake, NotifyInjectCancel
  <2>2. CASE done
    BY <2>1, <2>2 DEF SingleInv
  <2>3. CASE ~done /\ wake = "Idle"
    <3>1. wake' = "Notified" /\ Pushing' = Pushing \cup {c} /\ c \notin Pushing
      BY <1>3, <2>3 DEF NotifyWake, NotifyInjectCancel, ShouldSchedule, Pushing
    <3>2. Cardinality(Pushing') = Cardinality(Pushing) + 1
      BY <3>1, LoadCounts, OneMore
    <3> QED
      BY <1>1, <2>1, <2>3, <3>1, <3>2, LoadCounts DEF SingleInv, Load
  <2>4. CASE ~done /\ wake # "Idle"
    <3>1. wake' = "Notified" /\ Pushing' = Pushing
      BY <1>3, <2>4 DEF NotifyWake, NotifyInjectCancel, ShouldSchedule, Pushing
    <3> QED
      BY <1>1, <2>1, <3>1, SingleSame
  <2> QED
    BY <2>2, <2>3, <2>4
<1>4. CASE NotifyCancelWaker(c)
  BY <1>4 DEF NotifyCancelWaker, SingleInv
<1>5. CASE PushReady(c) \/ PushCancel(c)
  <2>1. Pushing' = Pushing \ {c} /\ c \in Pushing
    BY <1>5 DEF PushReady, PushCancel, Pushing
  <2>2. Cardinality(Pushing') = Cardinality(Pushing) - 1
    BY <2>1, LoadCounts, OneMore
  <2>3. /\ (ready' = ready + 1 /\ cancel' = cancel) \/ (ready' = ready /\ cancel' = cancel + 1)
        /\ UNCHANGED <<wake, done, duplicated>>
    BY <1>5 DEF PushReady, PushCancel
  <2>4. Load' = Load
    BY <1>1, <2>2, <2>3, LoadCounts DEF Load
  <2> QED
    BY <2>3, <2>4 DEF SingleInv
<1> QED
  BY <1>2, <1>3, <1>4, <1>5 DEF CallerSteps

\* A worker turns an entry into a poll and a poll into at most one entry.
LEMMA WorkerSingle ==
    ASSUME IndInv, SingleInv, NEW w \in Workers, WorkerSteps(w)
    PROVE  SingleInv'
<1> USE DEF IndInv, TypeOK, WorkerStates
<1>1. Pushing' = Pushing /\ UNCHANGED duplicated
  BY DEF Pushing, WorkerSteps, PopReady, PopCancel, TakeFuture, DropEntry, Register,
     PollPending, PollReady, Clear, StoreBack, FinishPoll, Reschedule
<1>2. CASE PopReady(w) \/ PopCancel(w)
  <2>1. Carrying' = Carrying \cup {w} /\ w \notin Carrying
    BY <1>2 DEF PopReady, PopCancel, Carrying
  <2>2. Cardinality(Carrying') = Cardinality(Carrying) + 1
    BY <2>1, LoadCounts, OneMore
  <2>3. /\ (ready' = ready - 1 /\ cancel' = cancel) \/ (ready' = ready /\ cancel' = cancel - 1)
        /\ UNCHANGED <<wake, done>>
    BY <1>2 DEF PopReady, PopCancel
  <2>4. Load' = Load
    BY <1>1, <2>2, <2>3, LoadCounts DEF Load
  <2> QED
    BY <1>1, <2>3, <2>4 DEF SingleInv
<1>3. CASE TakeFuture(w) \/ Register(w) \/ PollPending(w) \/ StoreBack(w)
  <2>1. Carrying' = Carrying
    BY <1>3 DEF TakeFuture, Register, PollPending, StoreBack, Carrying
  <2>2. UNCHANGED <<ready, cancel, done>> /\ (wake' # "Idle" \/ wake' = wake)
    BY <1>3 DEF TakeFuture, Register, PollPending, StoreBack
  <2> QED
    BY <1>1, <2>1, <2>2, SingleSame
<1>4. CASE DropEntry(w) \/ (FinishPoll(w) /\ wake # "Notified")
  <2>1. Carrying' = Carrying \ {w} /\ w \in Carrying
    BY <1>4 DEF DropEntry, FinishPoll, Carrying
  <2>2. Cardinality(Carrying') = Cardinality(Carrying) - 1
    BY <2>1, LoadCounts, OneMore
  <2>3. UNCHANGED <<ready, cancel, done>>
    BY <1>4 DEF DropEntry, FinishPoll
  <2>4. Load' = Load - 1 /\ Load \in Nat
    BY <1>1, <2>2, <2>3, LoadCounts DEF Load
  <2>5. Load >= 1
    BY <2>1, LoadCounts DEF Load
  <2> QED
    BY <1>1, <2>3, <2>4, <2>5 DEF SingleInv
<1>5. CASE FinishPoll(w) /\ wake = "Notified"
  <2>1. Carrying' = Carrying
    BY <1>5 DEF FinishPoll, Carrying
  <2>2. UNCHANGED <<ready, cancel, done, wake>>
    BY <1>5 DEF FinishPoll
  <2> QED
    BY <1>1, <2>1, <2>2, SingleSame
<1>6. CASE PollReady(w)
  BY <1>6 DEF PollReady, SingleInv
<1>7. CASE Clear(w)
  BY <1>7 DEF Clear, SingleInv, FirstPollOwed
<1>8. CASE Reschedule(w)
  <2>1. Carrying' = Carrying \ {w} /\ w \in Carrying
    BY <1>8 DEF Reschedule, Carrying
  <2>2. Cardinality(Carrying') = Cardinality(Carrying) - 1
    BY <2>1, LoadCounts, OneMore
  <2>3. /\ (ready' = ready + 1 /\ cancel' = cancel) \/ (ready' = ready /\ cancel' = cancel + 1)
        /\ UNCHANGED <<wake, done>>
    BY <1>8 DEF Reschedule
  <2>4. Load' = Load
    BY <1>1, <2>2, <2>3, LoadCounts DEF Load
  <2> QED
    BY <1>1, <2>3, <2>4 DEF SingleInv
<1> HIDE DEF IndInv, TypeOK
<1> QED
  BY <1>2, <1>3, <1>4, <1>5, <1>6, <1>7, <1>8 DEF WorkerSteps

\* Wakes are deduplicated: as long as no cancel waker injects it whatever its
\* wake state, a live task has at most one entry in the lanes or in the hands
\* of the callers and workers, because TaskWakeState::notify lets only the
\* first caller schedule and finish_poll reschedules only what was notified.
THEOREM WakesAreDeduplicated == Spec => []SingleEntry
<1>1. Init => SingleInv
  <2> SUFFICES ASSUME Init PROVE SingleInv
    OBVIOUS
  <2>1. Pushing = {} /\ Carrying = {}
    BY DEF Init, Pushing, Carrying
  <2>2. Load = 0
    BY <2>1, FS_EmptySet DEF Init, Load
  <2> QED
    BY <2>2 DEF SingleInv
<1>2. SingleInv /\ UNCHANGED vars => SingleInv'
  BY DEF SingleInv, Load, Pushing, Carrying, vars
<1>3. IndInv /\ SingleInv /\ [Next]_vars => SingleInv'
  BY <1>2, CallerSingle, WorkerSingle DEF Next
<1>4. IndInv /\ SingleInv => SingleEntry
  <2> SUFFICES ASSUME IndInv, SingleInv, ~done, ~duplicated
               PROVE  ready + cancel + Cardinality(Pushing)
                        + Cardinality({w \in Workers : wpc[w] \in {"popped", "again"}}) <= 1
    BY DEF SingleEntry, Pushing
  <2> DEFINE E == {w \in Workers : wpc[w] \in {"popped", "again"}}
  <2>1. E \subseteq Carrying
    BY DEF Carrying
  <2>2. Cardinality(E) \in Nat /\ Cardinality(E) <= Cardinality(Carrying)
    BY <2>1, LoadCounts, FS_Subset, FS_CardinalityType
  <2>3. Load <= 1
    BY DEF SingleInv
  <2>4. ready \in Nat /\ cancel \in Nat
    BY DEF IndInv, TypeOK
  <2> HIDE DEF E
  <2>5. ready + cancel + Cardinality(Pushing) + Cardinality(E) <= 1
    BY <2>2, <2>3, <2>4, LoadCounts DEF Load
  <2> QED
    BY <2>5 DEF E
<1> QED
  BY <1>1, <1>3, <1>4, TaskWakeInvariance, PTL DEF Spec
=============================================================================
