------------------------------- MODULE Lanes -------------------------------
(***************************************************************************)
(* Which lane one worker takes its next task from:                         *)
(* ThreeLaneWorker::next_task and its fairness counters                    *)
(* (src/src/runtime/scheduler/three_lane.rs).                              *)
(*                                                                         *)
(* A call sees the set of lanes that have a task for this worker (work),   *)
(* the governor's suggestion and the base cancel limit, which the adaptive *)
(* policy may have changed since the last call.  The global and the local  *)
(* queue of the cancel lane count as one lane, and so do those of the      *)
(* timed lane: both are tried before the next lane and counted alike.      *)
(***************************************************************************)
EXTENDS Naturals

CONSTANTS
    BaseLimits,    \* the cancel streak limits of the configuration and of the policy
    TimedLimit,    \* timed_fairness_limit
    FastLimit,     \* fast_queue_fairness_limit
    HandoffLimits  \* browser_ready_handoff_limit; 0 turns the handoff off

ASSUME LanesAssumption ==
    /\ BaseLimits \subseteq Nat
    /\ TimedLimit \in Nat
    /\ FastLimit \in Nat
    /\ HandoffLimits \subseteq Nat

\* local_ready, fast_queue, the global ready lane and the local heap.
ReadyLanes == {"localReady", "fast", "global", "heap"}
AllLanes == ReadyLanes \cup {"cancel", "timed", "steal"}
Suggestions == {"NoPreference", "MeetDeadlines", "DrainObligations", "DrainRegions"}

VARIABLES
    handoffLimit,  \* browser_ready_handoff_limit
    cancelStreak,  \* cancel_streak
    timedStreak,   \* timed_dispatch_streak
    readyStreak,   \* ready_dispatch_streak, up to handoffLimit
    fastStreak,    \* fast_queue_dispatch_streak, up to FastLimit
    maxStreak,     \* PreemptionMetrics: max_cancel_streak
    maxStall,      \* max_ready_dispatch_stall and max_timed_dispatch_stall
    maxEffective,  \* max_effective_limit_observed
    exceeded,      \* effective_limit_exceedances > 0
    idle,          \* the last call returned None
    \* What an observer of the calls counts:
    cancelRun,     \* cancel dispatches in a row, other work being eligible
    runLimit,      \* the effective limit of the last of them
    otherRun,      \* other dispatches in a row, cancel work being eligible
    timedRun,      \* timed dispatches under deadline pressure with no other lane
                   \* in between, own ready work being eligible
    fastRun        \* fast queue dispatches in a row, the heap being eligible

streaks == <<cancelStreak, timedStreak, readyStreak, fastStreak>>
metrics == <<maxStreak, maxStall, maxEffective, exceeded>>
observed == <<cancelRun, runLimit, otherRun, timedRun, fastRun>>
vars == <<handoffLimit, streaks, metrics, idle, observed>>

Init ==
    /\ handoffLimit \in HandoffLimits
    /\ cancelStreak = 0 /\ timedStreak = 0 /\ readyStreak = 0 /\ fastStreak = 0
    /\ maxStreak = 0 /\ maxStall = 0 /\ maxEffective = 0 /\ exceeded = FALSE
    /\ idle = FALSE
    /\ cancelRun = 0 /\ runLimit = 0 /\ otherRun = 0 /\ timedRun = 0 /\ fastRun = 0

Larger(a, b) == IF a < b THEN b ELSE a
\* A counter that is only compared with its limit need not pass it.
CountTo(limit, n) == IF n < limit THEN n + 1 ELSE n

-----------------------------------------------------------------------------
(* The conditions of next_task.                                            *)

\* current_base_cancel_limit
Base(limit) == Larger(limit, 1)

\* While the governor drains, the cancel lane gets twice its limit.
Effective(suggestion, limit) ==
    IF suggestion \in {"DrainObligations", "DrainRegions"} THEN 2 * Base(limit) ELSE Base(limit)

CheckCancel(limit) == cancelStreak < limit

CheckTimed == timedStreak < TimedLimit

\* Deadline pressure puts the timed lane before the cancel lane ...
TimedFirst(suggestion) == suggestion = "MeetDeadlines" /\ CheckTimed

\* ... and ready work before both once the timed lane had its share.
ReadyForced(work, suggestion) ==
    /\ suggestion = "MeetDeadlines" /\ ~CheckTimed
    /\ work \cap ReadyLanes # {}

\* The lanes before phase 3 have nothing the limits let through.
PastPriorityLanes(work, suggestion, limit) ==
    /\ ~ReadyForced(work, suggestion)
    /\ "timed" \notin work
    /\ "cancel" \in work => ~CheckCancel(limit)

\* should_force_ready_handoff
ShouldForceReadyHandoff(work) ==
    /\ handoffLimit > 0 /\ readyStreak >= handoffLimit
    /\ work \cap ReadyLanes # {}

\* The lane try_phase3_ready_work takes: local_ready, then the heap if the
\* fast queue had its share, the fast queue, the global lane, the heap.
ReadyRank(lane) ==
    CASE lane = "localReady" -> 0
      [] lane = "heap" -> IF fastStreak >= FastLimit THEN 1 ELSE 4
      [] lane = "fast" -> 2
      [] lane = "global" -> 3

IsNextReady(lane, work) ==
    /\ lane \in work \cap ReadyLanes
    /\ \A other \in work \cap ReadyLanes : ReadyRank(lane) <= ReadyRank(other)

-----------------------------------------------------------------------------
(* What a dispatch records.                                                *)

\* The counters an observer keeps, who knows the lanes that had work.
Observe(lane, work, suggestion, limit) ==
    /\ cancelRun' = IF lane = "cancel" /\ work # {"cancel"} THEN cancelRun + 1 ELSE 0
    /\ runLimit' = IF lane = "cancel" THEN limit ELSE runLimit
    /\ otherRun' = IF /\ lane # "cancel" /\ "cancel" \in work
                      /\ suggestion # "MeetDeadlines"
                   THEN otherRun + 1 ELSE 0
    /\ timedRun' = IF lane # "timed" \/ work \cap ReadyLanes = {} THEN 0
                   ELSE IF suggestion = "MeetDeadlines" THEN timedRun + 1 ELSE timedRun
    /\ fastRun' = IF "heap" \notin work \/ lane \in ReadyLanes \ {"fast"} THEN 0
                  ELSE IF lane = "fast" THEN fastRun + 1 ELSE fastRun

\* Every call notes its limit; a task it returns means it is not idle.
Dispatch(lane, work, suggestion, limit) ==
    /\ maxEffective' = Larger(maxEffective, limit)
    /\ idle' = FALSE
    /\ Observe(lane, work, suggestion, limit)
    /\ UNCHANGED handoffLimit

\* The streak, and record_cancel_dispatch.
RecordCancel(streak, limit) ==
    /\ cancelStreak' = streak
    /\ timedStreak' = 0
    /\ readyStreak' = 0
    /\ maxStreak' = Larger(maxStreak, streak)
    /\ exceeded' = (exceeded \/ streak > limit)
    /\ UNCHANGED <<fastStreak, maxStall>>

\* Mutant: a timed dispatch does not end the run of cancel dispatches.
RecordTimedOnly ==
    /\ readyStreak' = 0
    /\ maxStall' = Larger(maxStall, cancelStreak)
    /\ UNCHANGED <<cancelStreak, fastStreak, maxStreak, exceeded>>

\* record_timed_dispatch
RecordTimed ==
    /\ cancelStreak' = 0
    /\ readyStreak' = 0
    /\ maxStall' = Larger(maxStall, cancelStreak)
    /\ UNCHANGED <<fastStreak, maxStreak, exceeded>>

\* record_ready_dispatch
RecordReady ==
    /\ cancelStreak' = 0
    /\ timedStreak' = 0
    /\ readyStreak' = CountTo(handoffLimit, readyStreak)
    /\ maxStall' = Larger(maxStall, cancelStreak)
    /\ UNCHANGED <<maxStreak, exceeded>>

-----------------------------------------------------------------------------
(* next_task, one action per way it returns.                               *)

\* Mutant: the streak is not counted.
CancelTaskUncounted(work, suggestion, limit) ==
    /\ "cancel" \in work /\ CheckCancel(limit)
    /\ ~ReadyForced(work, suggestion)
    /\ ~("timed" \in work /\ TimedFirst(suggestion))
    /\ RecordCancel(cancelStreak, limit)
    /\ Dispatch("cancel", work, suggestion, limit)

\* The cancel lane, within its limit.
CancelTask(work, suggestion, limit) ==
    /\ "cancel" \in work /\ CheckCancel(limit)
    /\ ~ReadyForced(work, suggestion)
    /\ ~("timed" \in work /\ TimedFirst(suggestion))
    /\ RecordCancel(cancelStreak + 1, limit)
    /\ Dispatch("cancel", work, suggestion, limit)

\* Mutant: timed dispatches under deadline pressure are not counted.
TimedTaskUncounted(work, suggestion, limit) ==
    /\ "timed" \in work
    /\ ~ReadyForced(work, suggestion)
    /\ TimedFirst(suggestion) \/ ~("cancel" \in work /\ CheckCancel(limit))
    /\ RecordTimed
    /\ UNCHANGED timedStreak
    /\ Dispatch("timed", work, suggestion, limit)

\* The timed lane: first and counted under deadline pressure, else after the
\* cancel lane.
TimedTask(work, suggestion, limit) ==
    /\ "timed" \in work
    /\ ~ReadyForced(work, suggestion)
    /\ TimedFirst(suggestion) \/ ~("cancel" \in work /\ CheckCancel(limit))
    /\ RecordTimed
    /\ timedStreak' = IF TimedFirst(suggestion) THEN timedStreak + 1 ELSE timedStreak
    /\ Dispatch("timed", work, suggestion, limit)

\* Ready work was dispatched in a burst as long as the limit: None is returned
\* for the host to run, with the work still there.
Handoff(work, suggestion, limit) ==
    /\ PastPriorityLanes(work, suggestion, limit)
    /\ ShouldForceReadyHandoff(work)
    /\ cancelStreak' = 0
    /\ readyStreak' = 0
    /\ maxEffective' = Larger(maxEffective, limit)
    /\ idle' = TRUE
    /\ fastRun' = IF "heap" \in work THEN fastRun ELSE 0
    /\ UNCHANGED <<handoffLimit, timedStreak, fastStreak, maxStreak, maxStall, exceeded,
                   cancelRun, runLimit, otherRun, timedRun>>

\* Mutant: dispatches from the fast queue are not counted.
ReadyTaskUncounted(lane, work, suggestion, limit) ==
    /\ \/ ReadyForced(work, suggestion)
       \/ PastPriorityLanes(work, suggestion, limit) /\ ~ShouldForceReadyHandoff(work)
    /\ IsNextReady(lane, work)
    /\ RecordReady
    /\ fastStreak' = 0
    /\ Dispatch(lane, work, suggestion, limit)

\* try_phase3_ready_work, forced or in its turn.
ReadyTask(lane, work, suggestion, limit) ==
    /\ \/ ReadyForced(work, suggestion)
       \/ PastPriorityLanes(work, suggestion, limit) /\ ~ShouldForceReadyHandoff(work)
    /\ IsNextReady(lane, work)
    /\ RecordReady
    /\ fastStreak' = IF lane = "fast" THEN CountTo(FastLimit, fastStreak) ELSE 0
    /\ Dispatch(lane, work, suggestion, limit)

\* try_steal
StealTask(work, suggestion, limit) ==
    /\ PastPriorityLanes(work, suggestion, limit)
    /\ "steal" \in work /\ work \cap ReadyLanes = {}
    /\ RecordReady
    /\ UNCHANGED fastStreak
    /\ Dispatch("steal", work, suggestion, limit)

\* Mutant: the fallback counts on from the streak it broke.
FallbackContinues(work, suggestion, limit) ==
    /\ PastPriorityLanes(work, suggestion, limit)
    /\ work = {"cancel"}
    /\ RecordCancel(cancelStreak + 1, limit)
    /\ Dispatch("cancel", work, suggestion, limit)

\* The limit was hit and only the cancel lane has work: one more, and the
\* streak starts again with it.
FallbackCancel(work, suggestion, limit) ==
    /\ PastPriorityLanes(work, suggestion, limit)
    /\ work = {"cancel"}
    /\ RecordCancel(1, limit)
    /\ Dispatch("cancel", work, suggestion, limit)

\* Nothing: the streak is dropped only if the limit was hit.
NoTask(work, suggestion, limit) ==
    /\ work = {}
    /\ cancelStreak' = IF CheckCancel(limit) THEN cancelStreak ELSE 0
    /\ readyStreak' = 0
    /\ maxEffective' = Larger(maxEffective, limit)
    /\ idle' = TRUE
    /\ cancelRun' = 0 /\ otherRun' = 0 /\ timedRun' = 0 /\ fastRun' = 0
    /\ UNCHANGED <<handoffLimit, timedStreak, fastStreak, maxStreak, maxStall, exceeded, runLimit>>

\* run_loop after the backoff that follows a None, unless the reactor had
\* events.
AfterBackoff ==
    /\ idle
    /\ cancelStreak' = 0
    /\ readyStreak' = 0
    /\ idle' = FALSE
    /\ UNCHANGED <<handoffLimit, timedStreak, fastStreak, metrics, observed>>

NextTask(work, suggestion, limit) ==
    \/ CancelTask(work, suggestion, limit)
    \/ TimedTask(work, suggestion, limit)
    \/ Handoff(work, suggestion, limit)
    \/ \E lane \in ReadyLanes : ReadyTask(lane, work, suggestion, limit)
    \/ StealTask(work, suggestion, limit)
    \/ FallbackCancel(work, suggestion, limit)
    \/ NoTask(work, suggestion, limit)

Next ==
    \/ \E work \in SUBSET AllLanes, suggestion \in Suggestions, base \in BaseLimits :
          NextTask(work, suggestion, Effective(suggestion, base))
    \/ AfterBackoff

Spec == Init /\ [][Next]_vars

-----------------------------------------------------------------------------
\* Every counter is a number no larger than what it is compared with.
TypeOK ==
    /\ handoffLimit \in HandoffLimits
    /\ cancelStreak \in Nat
    /\ timedStreak \in 0 .. TimedLimit
    /\ readyStreak \in 0 .. handoffLimit
    /\ fastStreak \in 0 .. FastLimit
    /\ maxStreak \in Nat /\ maxStall \in Nat /\ maxEffective \in Nat
    /\ exceeded \in BOOLEAN /\ idle \in BOOLEAN
    /\ cancelRun \in Nat /\ runLimit \in Nat
    /\ otherRun \in Nat /\ timedRun \in Nat /\ fastRun \in Nat

\* Cancel preemption fairness: while other work is eligible, the cancel lane is
\* served at most as often in a row as the effective limit of the last call
\* says, although limit and suggestion change between the calls, the fallback
\* and an idle period restart the streak, and a handoff interrupts it.
CancelBound == cancelRun <= runLimit

\* Cancel work resumes on the call after the one that the limit gave to other
\* work: unless deadlines press, it is never passed over twice.
CancelResumes == otherRun <= 1

\* Timed-lane fairness for a worker's own ready lanes: while one of them has
\* work, at most timed_fairness_limit timed dispatches are made under deadline
\* pressure before another lane is served, whatever timed dispatches under other
\* suggestions and handoffs come between.  The limit is neither counted nor
\* compared under another suggestion, and work that could be stolen is not
\* tried while timed work is due.
TimedBound == timedRun <= TimedLimit

\* Stolen-work fairness: the local heap waits for at most
\* fast_queue_fairness_limit dispatches from the fast queue, whatever cancel
\* and timed work, handoffs or idle calls come between.
StolenBound == fastRun <= FastLimit

\* PreemptionFairnessCertificate: no streak ever exceeded the limit in force,
\* and the stalls it reports are within the bound it reports.
CertificateHolds == ~exceeded /\ maxStreak <= maxEffective /\ maxStall <= maxEffective

\* The handoff to the host never holds back cancel or timed work.
HandoffOnlyReady ==
    \A work \in SUBSET AllLanes, suggestion \in Suggestions, base \in BaseLimits :
        /\ PastPriorityLanes(work, suggestion, Effective(suggestion, base))
        /\ ShouldForceReadyHandoff(work)
        => work \cap {"cancel", "timed"} = {}
=============================================================================
