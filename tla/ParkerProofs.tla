---------------------------- MODULE ParkerProofs ----------------------------
(***************************************************************************)
(* Theorems about Parker, for any number of unparking threads: the Dekker  *)
(* pair loses no wakeup, and the parker implements the safety part of      *)
(* Permit.                                                                 *)
(***************************************************************************)
EXTENDS Parker, TLAPS

\* `waiting' says exactly whether the owner is on its way to sleep or asleep.
WaitingExact == waiting = IF Announced THEN 1 ELSE 0

\* The mutex is held by at most one thread: one that is about to signal, or
\* the owner from its check until it sleeps or leaves.
MutexHeld ==
    /\ \A u \in Threads : upc[u] = "signal" <=> u \in holder
    /\ wpc \in {"check", "commit", "leave", "unlock"} <=> Owner \in holder
    /\ \A a, b \in holder : a = b

\* Only park_timeout looks twice.
RecheckTimed == wpc = "recheck" => timed

\* PermitNotLost is not inductive alone: that a thread looking at `waiting'
\* sees the sleeper is WaitingExact, and that its signal does not come between
\* the owner's check and its sleep is MutexHeld.
IndInv ==
    /\ TypeOK
    /\ WaitingExact
    /\ MutexHeld
    /\ RecheckTimed
    /\ PermitNotLost

\* The invariant holds in a new parker.
LEMMA IndInvInit == Init => IndInv
  BY OwnerAssumption
  DEF Init, IndInv, TypeOK, WaitingExact, Announced, MutexHeld, PermitNotLost, RecheckTimed

\* The steps of park and park_timeout preserve it.
LEMMA OwnerPreserves ==
    ASSUME IndInv, OwnerSteps
    PROVE  IndInv'
<1> USE DEF IndInv, TypeOK
<1>1. CASE TakePermit
  BY <1>1 DEF TakePermit, WaitingExact, Announced, MutexHeld, PermitNotLost, Waking, RecheckTimed
<1>2. CASE \E timeout, zero \in BOOLEAN : EnterPark(timeout, zero)
  BY <1>2 DEF EnterPark, WaitingExact, Announced, MutexHeld, PermitNotLost, Waking, RecheckTimed
<1>3. CASE Recheck
  BY <1>3 DEF Recheck, WaitingExact, Announced, MutexHeld, PermitNotLost, Waking, RecheckTimed
<1>4. CASE Announce
  BY <1>4 DEF Announce, WaitingExact, Announced, MutexHeld, PermitNotLost, Waking, RecheckTimed
<1>5. CASE LockMutex
  BY <1>5, OwnerAssumption
  DEF LockMutex, WaitingExact, Announced, MutexHeld, PermitNotLost, Waking, RecheckTimed
<1>6. CASE CheckFinds
  BY <1>6 DEF CheckFinds, WaitingExact, Announced, MutexHeld, PermitNotLost, Waking, RecheckTimed
<1>7. CASE CheckFails
  BY <1>7 DEF CheckFails, WaitingExact, Announced, MutexHeld, PermitNotLost, Waking, RecheckTimed
<1>8. CASE Sleep
  <2>1. \A u \in Threads : u \notin holder /\ upc[u] # "signal"
    BY <1>8, OwnerAssumption DEF Sleep, MutexHeld
  <2> QED
    BY <1>8, <2>1 DEF Sleep, WaitingExact, Announced, MutexHeld, PermitNotLost, Waking, RecheckTimed
<1>9. CASE GiveUp
  BY <1>9 DEF GiveUp, WaitingExact, Announced, MutexHeld, PermitNotLost, Waking, RecheckTimed
<1>10. CASE WakeSpuriously
  BY <1>10 DEF WakeSpuriously, WaitingExact, Announced, MutexHeld, PermitNotLost, Waking, RecheckTimed
<1>11. CASE Leave
  BY <1>11 DEF Leave, WaitingExact, Announced, MutexHeld, PermitNotLost, Waking, RecheckTimed
<1>12. CASE Unlock
  <2>1. \A u \in Threads : u \notin holder /\ upc[u] # "signal"
    BY <1>12, OwnerAssumption DEF Unlock, MutexHeld
  <2> QED
    BY <1>12, <2>1 DEF Unlock, WaitingExact, Announced, MutexHeld, PermitNotLost, Waking, RecheckTimed
<1> QED
  BY <1>1, <1>2, <1>3, <1>4, <1>5, <1>6, <1>7, <1>8, <1>9, <1>10, <1>11, <1>12
  DEF OwnerSteps

\* The steps of unpark preserve it.
LEMMA ThreadPreserves ==
    ASSUME IndInv, NEW u \in Threads,
           Publish(u) \/ Look(u) \/ LockToSignal(u) \/ Signal(u)
    PROVE  IndInv'
<1> USE DEF IndInv, TypeOK
<1>1. CASE Publish(u)
  BY <1>1 DEF Publish, WaitingExact, Announced, MutexHeld, PermitNotLost, Waking, RecheckTimed
<1>2. CASE Look(u)
  BY <1>2 DEF Look, WaitingExact, Announced, MutexHeld, PermitNotLost, Waking, RecheckTimed
<1>3. CASE LockToSignal(u)
  BY <1>3, OwnerAssumption
  DEF LockToSignal, WaitingExact, Announced, MutexHeld, PermitNotLost, Waking, RecheckTimed
<1>4. CASE Signal(u)
  <2>1. wpc # "commit" /\ wpc' # "asleep" /\ wpc' # "commit"
    BY <1>4, OwnerAssumption DEF Signal, MutexHeld
  <2>2. PermitNotLost'
    BY <2>1 DEF PermitNotLost
  <2>3. WaitingExact' /\ MutexHeld' /\ RecheckTimed'
    BY <1>4, OwnerAssumption DEF Signal, RecheckTimed, WaitingExact, Announced, MutexHeld
  <2> QED
    BY <1>4, <2>2, <2>3 DEF Signal
<1> QED
  BY <1>1, <1>2, <1>3, <1>4

\* Every reachable state of the parker satisfies the invariant.
THEOREM ParkerInvariance == Spec => []IndInv
<1>1. IndInv /\ UNCHANGED vars => IndInv'
  BY DEF IndInv, TypeOK, WaitingExact, Announced, MutexHeld, PermitNotLost, Waking, RecheckTimed, vars
<1>2. IndInv /\ [Next]_vars => IndInv'
  BY <1>1, OwnerPreserves, ThreadPreserves DEF Next
<1> QED
  BY <1>2, IndInvInit, PTL DEF Spec

\* The fields of a parker keep their types: `waiting' counts the owner once
\* while it waits and its fetch_sub never goes below zero.
THEOREM TypeCorrect == Spec => []TypeOK
<1>1. IndInv => TypeOK
  BY DEF IndInv
<1> QED
  BY <1>1, ParkerInvariance, PTL

\* No wakeup is lost between Parker::park and Parker::unpark, however many
\* threads unpark at once: the owner never sleeps on a published permit that
\* nobody is going to signal.
THEOREM NoLostUnpark == Spec => []PermitNotLost
<1>1. IndInv => PermitNotLost
  BY DEF IndInv
<1> QED
  BY <1>1, ParkerInvariance, PTL

\* Parker::park returns only by consuming the permit and park_timeout by
\* consuming it or by running out of time; a permit is consumed once.
THEOREM ParkerImplementsPermit == Spec => Promise!PermitSafety
<1>1. Init => Promise!PermitInit
  BY DEF Init, Promise!PermitInit
<1>2. ASSUME IndInv, [Next]_vars
      PROVE  [Promise!PermitNext]_(Promise!permitVars)
  <2> USE DEF Promise!PermitNext, Promise!permitVars
  <2>1. CASE OwnerSteps
    <3>1. CASE TakePermit
      BY <3>1 DEF TakePermit, Promise!TryTake
    <3>2. ASSUME NEW timeout \in BOOLEAN, NEW zero \in BOOLEAN, EnterPark(timeout, zero)
          PROVE  \E mode \in {"Untimed", "Timed"} : Promise!Park(mode)
      BY <3>2 DEF EnterPark, Promise!Park
    <3>3. CASE Recheck
      <4>1. timed /\ notified \in BOOLEAN
        BY <1>2, <3>3 DEF Recheck, IndInv, TypeOK, RecheckTimed
      <4>2. CASE notified = TRUE
        BY <3>3, <4>2 DEF Recheck, Promise!Take
      <4>3. CASE notified = FALSE
        BY <3>3, <4>1, <4>3 DEF Recheck, Promise!TimeOut
      <4> QED
        BY <4>1, <4>2, <4>3
    <3>4. CASE CheckFinds
      BY <3>4 DEF CheckFinds, Promise!Take
    <3>5. CASE GiveUp
      BY <3>5 DEF GiveUp, Promise!TimeOut
    <3>6. CASE Announce \/ LockMutex \/ CheckFails \/ Sleep \/ WakeSpuriously
      BY <3>6 DEF Announce, LockMutex, CheckFails, Sleep, WakeSpuriously
    <3>7. CASE Leave \/ Unlock
      BY <3>7 DEF Leave, Unlock
    <3> QED
      BY <2>1, <3>1, <3>2, <3>3, <3>4, <3>5, <3>6, <3>7 DEF OwnerSteps
  <2>2. ASSUME NEW u \in Threads, Publish(u)
        PROVE  Promise!Unpark
    BY <2>2 DEF Publish, Promise!Unpark
  <2>3. ASSUME NEW u \in Threads, Look(u) \/ LockToSignal(u) \/ Signal(u)
        PROVE  UNCHANGED Promise!permitVars
    BY <2>3 DEF Look, LockToSignal, Signal
  <2>4. CASE UNCHANGED vars
    BY <2>4 DEF vars
  <2> QED
    BY <1>2, <2>1, <2>2, <2>3, <2>4 DEF Next
<1> QED
  BY <1>1, <1>2, ParkerInvariance, PTL DEF Spec, Promise!PermitSafety
=============================================================================
