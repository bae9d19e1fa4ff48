---------------------------- MODULE LanesProofs ----------------------------
(***************************************************************************)
(* The fairness bounds of Lanes, for all limits.                           *)
(*                                                                         *)
(* Each bound counts dispatches that an observer sees, while the code only *)
(* has its streaks, which it resets on more occasions than the observer    *)
(* does.  The inductive invariant relates the two: an observer's run is    *)
(* never longer than the streak, and the streaks exclude each other.       *)
(***************************************************************************)
EXTENDS Lanes, TLAPS

\* A run of cancel dispatches is no longer than the streak, nor is the streak
\* than the limits it was held against; ready dispatches, an idle call and a
\* dispatch that passed over cancel work all leave no streak behind.
CancelInv ==
    /\ cancelRun <= cancelStreak
    /\ readyStreak > 0 => cancelStreak = 0
    /\ idle => cancelRun = 0
    /\ otherRun > 0 => cancelStreak = 0
    /\ cancelStreak <= maxEffective

\* The same for the two other streaks.
RunsCovered ==
    /\ timedRun <= timedStreak
    /\ fastRun <= fastStreak

LanesInv ==
    /\ TypeOK
    /\ CancelInv
    /\ RunsCovered
    /\ CancelBound
    /\ CancelResumes
    /\ CertificateHolds

\* An effective limit is a positive number: current_base_cancel_limit clamps.
LEMMA EffectivePositive ==
    ASSUME NEW suggestion, NEW base \in BaseLimits
    PROVE  Effective(suggestion, base) \in Nat \ {0}
BY LanesAssumption DEF LanesAssumption, Effective, Base, Larger

LEMMA HandoffLimitNat == TypeOK => handoffLimit \in Nat
BY LanesAssumption DEF LanesAssumption, TypeOK

LEMMA CancelTaskPreserves ==
    ASSUME LanesInv, NEW work, NEW suggestion, NEW limit \in Nat \ {0},
           CancelTask(work, suggestion, limit)
    PROVE  LanesInv'
<1> USE LanesAssumption DEF LanesAssumption, LanesInv, CancelTask, RecordCancel, Dispatch,
        Observe, CheckCancel, Larger
<1>1. exceeded' \in BOOLEAN /\ idle' \in BOOLEAN
  BY Zenon
<1>2. TypeOK'
  BY <1>1, HandoffLimitNat DEF TypeOK
<1>3. CancelInv'
  BY DEF TypeOK, CancelInv, CancelBound, CancelResumes
<1>4. RunsCovered'
  BY DEF TypeOK, RunsCovered
<1>5. CancelBound' /\ CancelResumes'
  BY DEF TypeOK, CancelInv, CancelBound, CancelResumes
<1>6. CertificateHolds'
  BY DEF TypeOK, CancelInv, CertificateHolds
<1>. QED
  BY <1>2, <1>3, <1>4, <1>5, <1>6

LEMMA TimedTaskPreserves ==
    ASSUME LanesInv, NEW work, NEW suggestion, NEW limit \in Nat \ {0},
           TimedTask(work, suggestion, limit)
    PROVE  LanesInv'
<1> USE LanesAssumption DEF LanesAssumption, LanesInv, TimedTask, RecordTimed, Dispatch,
        Observe, CheckCancel, CheckTimed, TimedFirst, Larger
<1>b. exceeded' \in BOOLEAN /\ idle' \in BOOLEAN
  BY Zenon DEF TypeOK
<1>1. TypeOK'
  BY <1>b, HandoffLimitNat DEF TypeOK
<1>2. CancelInv'
  BY DEF TypeOK, CancelInv, CertificateHolds
<1>3. RunsCovered'
  BY DEF TypeOK, RunsCovered, ReadyForced
<1>4. CancelBound' /\ CancelResumes'
  BY DEF TypeOK, CancelInv, CancelBound, CancelResumes
<1>5. CertificateHolds'
  BY DEF TypeOK, CancelInv, CertificateHolds
<1>. QED
  BY <1>1, <1>2, <1>3, <1>4, <1>5

LEMMA HandoffPreserves ==
    ASSUME LanesInv, NEW work, NEW suggestion, NEW limit \in Nat \ {0},
           Handoff(work, suggestion, limit)
    PROVE  LanesInv'
<1> USE LanesAssumption DEF LanesAssumption, LanesInv, Handoff, ShouldForceReadyHandoff, Larger
<1>b. exceeded' \in BOOLEAN /\ idle' \in BOOLEAN
  BY Zenon DEF TypeOK
<1>1. TypeOK'
  BY <1>b, HandoffLimitNat DEF TypeOK
<1>2. CancelInv'
  BY DEF TypeOK, CancelInv, CertificateHolds
<1>3. RunsCovered'
  BY DEF TypeOK, RunsCovered
<1>4. CancelBound' /\ CancelResumes' /\ CertificateHolds'
  BY DEF TypeOK, CancelBound, CancelResumes, CertificateHolds
<1>. QED
  BY <1>1, <1>2, <1>3, <1>4

\* The heap comes before the fast queue as soon as the streak is at its limit.
LEMMA FastBelowLimit ==
    ASSUME TypeOK, NEW work, IsNextReady("fast", work), "heap" \in work
    PROVE  fastStreak < FastLimit
<1>1. ReadyRank("fast") <= ReadyRank("heap")
  BY DEF IsNextReady, ReadyLanes
<1>2. ReadyRank("fast") = 2
  BY DEF ReadyRank
<1>3. ReadyRank("heap") = IF fastStreak >= FastLimit THEN 1 ELSE 4
  BY DEF ReadyRank
<1>. QED
  BY <1>1, <1>2, <1>3, LanesAssumption DEF LanesAssumption, TypeOK

\* Work that passes over an eligible cancel task follows a streak at its limit,
\* unless deadlines press.
LEMMA PassesOver ==
    ASSUME LanesInv, NEW work, NEW suggestion, NEW limit \in Nat \ {0},
           ReadyForced(work, suggestion) \/ PastPriorityLanes(work, suggestion, limit),
           "cancel" \in work, suggestion # "MeetDeadlines"
    PROVE  otherRun = 0
BY DEF LanesInv, TypeOK, CancelInv, ReadyForced, PastPriorityLanes, CheckCancel

LEMMA ReadyTaskPreserves ==
    ASSUME LanesInv, NEW work, NEW suggestion, NEW limit \in Nat \ {0}, NEW lane \in ReadyLanes,
           ReadyTask(lane, work, suggestion, limit)
    PROVE  LanesInv'
<1> USE LanesAssumption DEF LanesAssumption, LanesInv, ReadyTask, RecordReady, Dispatch,
        Observe, Larger, CountTo
<1>1. lane # "cancel" /\ lane # "timed" /\ lane # "steal"
  BY DEF ReadyLanes
<1>b. exceeded' \in BOOLEAN /\ idle' \in BOOLEAN
  BY Zenon DEF TypeOK
<1>2. TypeOK'
  BY <1>1, <1>b, HandoffLimitNat DEF TypeOK
<1>3. CancelInv'
  BY <1>1 DEF TypeOK, CancelInv, CertificateHolds
<1>4. RunsCovered'
  BY <1>1, FastBelowLimit DEF TypeOK, RunsCovered
<1>5. CancelBound' /\ CancelResumes'
  <2>1. otherRun' <= 1
    <3>1. CASE "cancel" \in work /\ suggestion # "MeetDeadlines"
      <4>1. otherRun = 0
        BY <3>1, PassesOver
      <4>. QED
        BY <3>1, <4>1
    <3>2. CASE ~("cancel" \in work /\ suggestion # "MeetDeadlines")
      BY <3>2
    <3>. QED
      BY <3>1, <3>2
  <2>. QED
    BY <1>1, <2>1 DEF TypeOK, CancelInv, CancelBound, CancelResumes
<1>6. CertificateHolds'
  BY DEF TypeOK, CancelInv, CertificateHolds
<1>. QED
  BY <1>2, <1>3, <1>4, <1>5, <1>6

LEMMA StealTaskPreserves ==
    ASSUME LanesInv, NEW work, NEW suggestion, NEW limit \in Nat \ {0},
           StealTask(work, suggestion, limit)
    PROVE  LanesInv'
<1> USE LanesAssumption DEF LanesAssumption, LanesInv, StealTask, RecordReady, Dispatch,
        Observe, Larger, CountTo
<1>b. exceeded' \in BOOLEAN /\ idle' \in BOOLEAN
  BY Zenon DEF TypeOK
<1>1. TypeOK'
  BY <1>b, HandoffLimitNat DEF TypeOK
<1>2. CancelInv'
  BY DEF TypeOK, CancelInv, CertificateHolds
<1>3. RunsCovered'
  BY DEF TypeOK, RunsCovered
<1>4. CancelBound' /\ CancelResumes'
  BY PassesOver DEF TypeOK, CancelInv, CancelBound, CancelResumes
<1>5. CertificateHolds'
  BY DEF TypeOK, CancelInv, CertificateHolds
<1>. QED
  BY <1>1, <1>2, <1>3, <1>4, <1>5

LEMMA FallbackCancelPreserves ==
    ASSUME LanesInv, NEW work, NEW suggestion, NEW limit \in Nat \ {0},
           FallbackCancel(work, suggestion, limit)
    PROVE  LanesInv'
<1> USE LanesAssumption DEF LanesAssumption, LanesInv, FallbackCancel, RecordCancel, Dispatch,
        Observe, Larger
<1>1. exceeded' \in BOOLEAN /\ idle' \in BOOLEAN
  BY Zenon
<1>2. TypeOK'
  BY <1>1, HandoffLimitNat DEF TypeOK
<1>3. CancelInv'
  BY DEF TypeOK, CancelInv, CertificateHolds
<1>4. RunsCovered'
  BY DEF TypeOK, RunsCovered
<1>5. CancelBound' /\ CancelResumes'
  BY DEF TypeOK, CancelInv, CancelBound, CancelResumes
<1>6. CertificateHolds'
  BY DEF TypeOK, CancelInv, CertificateHolds
<1>. QED
  BY <1>2, <1>3, <1>4, <1>5, <1>6

LEMMA NoTaskPreserves ==
    ASSUME LanesInv, NEW work, NEW suggestion, NEW limit \in Nat \ {0},
           NoTask(work, suggestion, limit)
    PROVE  LanesInv'
<1> USE LanesAssumption DEF LanesAssumption, LanesInv, NoTask, Larger
<1>b. exceeded' \in BOOLEAN /\ idle' \in BOOLEAN
  BY Zenon DEF TypeOK
<1>1. TypeOK'
  BY <1>b, HandoffLimitNat DEF TypeOK
<1>2. CancelInv' /\ RunsCovered'
  BY DEF TypeOK, CancelInv, RunsCovered, CertificateHolds
<1>3. CancelBound' /\ CancelResumes' /\ CertificateHolds'
  BY DEF TypeOK, CancelBound, CancelResumes, CertificateHolds
<1>. QED
  BY <1>1, <1>2, <1>3

LEMMA AfterBackoffPreserves ==
    ASSUME LanesInv, AfterBackoff
    PROVE  LanesInv'
<1> USE LanesAssumption DEF LanesAssumption, LanesInv, AfterBackoff, metrics, observed
<1>b. exceeded' \in BOOLEAN /\ idle' \in BOOLEAN
  BY Zenon DEF TypeOK
<1>1. TypeOK'
  BY <1>b, HandoffLimitNat DEF TypeOK
<1>2. CancelInv' /\ RunsCovered'
  BY DEF TypeOK, CancelInv, RunsCovered, CertificateHolds
<1>3. CancelBound' /\ CancelResumes' /\ CertificateHolds'
  BY DEF TypeOK, CancelBound, CancelResumes, CertificateHolds
<1>. QED
  BY <1>1, <1>2, <1>3

LEMMA LanesInductive == Spec => []LanesInv
<1>1. Init => LanesInv
  <2> SUFFICES ASSUME Init
               PROVE  LanesInv
    OBVIOUS
  <2>1. exceeded \in BOOLEAN /\ idle \in BOOLEAN
    BY Zenon DEF Init
  <2>2. TypeOK
    BY <2>1, LanesAssumption DEF LanesAssumption, Init, TypeOK
  <2>3. CancelInv /\ RunsCovered /\ CancelBound /\ CancelResumes /\ CertificateHolds
    BY DEF Init, CancelInv, RunsCovered, CancelBound, CancelResumes, CertificateHolds
  <2>. QED
    BY <2>2, <2>3 DEF LanesInv
<1>2. LanesInv /\ [Next]_vars => LanesInv'
  <2> SUFFICES ASSUME LanesInv, [Next]_vars
               PROVE  LanesInv'
    OBVIOUS
  <2>1. ASSUME NEW work \in SUBSET AllLanes, NEW suggestion \in Suggestions,
               NEW base \in BaseLimits,
               NextTask(work, suggestion, Effective(suggestion, base))
        PROVE  LanesInv'
    BY <2>1, EffectivePositive, CancelTaskPreserves, TimedTaskPreserves, HandoffPreserves,
       ReadyTaskPreserves, StealTaskPreserves, FallbackCancelPreserves, NoTaskPreserves
       DEF NextTask
  <2>2. CASE UNCHANGED vars
    BY <2>2 DEF vars, streaks, metrics, observed, LanesInv, TypeOK, CancelInv, RunsCovered,
       CancelBound, CancelResumes, CertificateHolds
  <2>. QED
    BY <2>1, <2>2, AfterBackoffPreserves DEF Next
<1>. QED
  BY <1>1, <1>2, PTL DEF Spec

-----------------------------------------------------------------------------
\* Every streak stays within the limit it is compared with, for all limits.
THEOREM TypeCorrect == Spec => []TypeOK
BY LanesInductive, PTL DEF LanesInv

\* Cancel preemption fairness of next_task, for all base limits and every way
\* they and the governor's suggestion change.
THEOREM CancelFairness == Spec => []CancelBound
BY LanesInductive, PTL DEF LanesInv

\* Cancel work that the limit passed over is dispatched by the next call.
THEOREM CancelPriority == Spec => []CancelResumes
BY LanesInductive, PTL DEF LanesInv

\* The fairness certificate of a worker holds after any sequence of calls.
THEOREM CertificateSound == Spec => []CertificateHolds
BY LanesInductive, PTL DEF LanesInv

\* Timed-lane fairness, for all timed_fairness_limit.
THEOREM TimedFairness == Spec => []TimedBound
<1>1. LanesInv => TimedBound
  BY LanesAssumption DEF LanesAssumption, LanesInv, TypeOK, RunsCovered, TimedBound
<1>. QED
  BY <1>1, LanesInductive, PTL

\* Stolen-work fairness, for all fast_queue_fairness_limit.
THEOREM StolenFairness == Spec => []StolenBound
<1>1. LanesInv => StolenBound
  BY LanesAssumption DEF LanesAssumption, LanesInv, TypeOK, RunsCovered, StolenBound
<1>. QED
  BY <1>1, LanesInductive, PTL

\* The browser handoff never holds back cancel or timed work, for all limits.
THEOREM HandoffHarmless == Spec => []HandoffOnlyReady
<1>1. LanesInv => HandoffOnlyReady
  <2> SUFFICES ASSUME LanesInv, NEW work \in SUBSET AllLanes, NEW suggestion \in Suggestions,
                      NEW base \in BaseLimits,
                      PastPriorityLanes(work, suggestion, Effective(suggestion, base)),
                      ShouldForceReadyHandoff(work)
               PROVE  "cancel" \notin work /\ "timed" \notin work
    BY DEF HandoffOnlyReady
  <2>1. "timed" \notin work
    BY DEF PastPriorityLanes
  <2>2. cancelStreak = 0
    BY LanesAssumption DEF LanesAssumption, ShouldForceReadyHandoff, LanesInv, TypeOK, CancelInv
  <2>3. CheckCancel(Effective(suggestion, base))
    BY <2>2, EffectivePositive DEF CheckCancel
  <2>. QED
    BY <2>1, <2>3 DEF PastPriorityLanes
<1>. QED
  BY <1>1, LanesInductive, PTL
=============================================================================
