------------------------------- MODULE Parker -------------------------------
(***************************************************************************)
(* The Parker of a worker thread (src/src/runtime/scheduler/worker.rs):    *)
(* an atomic flag, a counter of waiters, a mutex and a condition variable. *)
(* One worker owns it and parks; any thread may unpark.                    *)
(*                                                                         *)
(* Each atomic operation, lock acquisition and condition variable call is  *)
(* a step.  The SeqCst fences of park and unpark stand between the store   *)
(* and the load of the other side's variable, which is what makes the      *)
(* interleaving of these steps an adequate memory model here.              *)
(***************************************************************************)
EXTENDS Naturals

CONSTANTS
    Threads,  \* the threads that call unpark
    Owner     \* the worker that parks

ASSUME OwnerAssumption == Owner \notin Threads

VARIABLES
    notified, \* ParkerInner::notified
    waiting,  \* ParkerInner::waiting
    holder,   \* the set of holders of ParkerInner::mutex
    wpc,      \* where the owner is in park or park_timeout
    timed,    \* the owner called park_timeout
    upc       \* where each thread is in unpark

vars == <<notified, waiting, holder, wpc, timed, upc>>

Init ==
    /\ notified = FALSE
    /\ waiting = 0
    /\ holder = {}
    /\ wpc = "running"
    /\ timed = FALSE
    /\ upc = [u \in Threads |-> "idle"]

-----------------------------------------------------------------------------
(* park and park_timeout.                                                  *)

\* The fast path finds the permit and returns.
TakePermit ==
    /\ wpc = "running"
    /\ notified
    /\ notified' = FALSE
    /\ UNCHANGED <<waiting, holder, wpc, timed, upc>>

\* The fast path found no permit; a zero timeout looks once more.
EnterPark(timeout, zero) ==
    /\ wpc = "running"
    /\ ~notified
    /\ timed' = timeout
    /\ wpc' = IF timeout /\ zero THEN "recheck" ELSE "announce"
    /\ UNCHANGED <<notified, waiting, holder, upc>>

Recheck ==
    /\ wpc = "recheck"
    /\ notified' = FALSE
    /\ wpc' = "running"
    /\ UNCHANGED <<waiting, holder, timed, upc>>

\* waiting.fetch_add(1), then the fence.
Announce ==
    /\ wpc = "announce"
    /\ waiting' = waiting + 1
    /\ wpc' = "lock"
    /\ UNCHANGED <<notified, holder, timed, upc>>

\* The mutex is taken, before the first check and after each wait.
LockMutex ==
    /\ wpc = "lock"
    /\ holder = {}
    /\ holder' = {Owner}
    /\ wpc' = "check"
    /\ UNCHANGED <<notified, waiting, timed, upc>>

\* Under the mutex: the permit is consumed ...
CheckFinds ==
    /\ wpc = "check"
    /\ notified
    /\ notified' = FALSE
    /\ wpc' = "leave"
    /\ UNCHANGED <<waiting, holder, timed, upc>>

\* ... or there is none, and the owner keeps the mutex ...
CheckFails ==
    /\ wpc = "check"
    /\ ~notified
    /\ wpc' = "commit"
    /\ UNCHANGED <<notified, waiting, holder, timed, upc>>

\* ... until it waits on the condition variable ...
Sleep ==
    /\ wpc = "commit"
    /\ holder' = {}
    /\ wpc' = "asleep"
    /\ UNCHANGED <<notified, waiting, timed, upc>>

\* Mutant: any end of the wait ends the park.
GiveUpAnyway ==
    /\ wpc = "commit"
    /\ wpc' = "leave"
    /\ UNCHANGED <<notified, waiting, holder, timed, upc>>

\* ... or wait_timeout_while finds its time used up and gives up.
GiveUp ==
    /\ wpc = "commit"
    /\ timed
    /\ wpc' = "leave"
    /\ UNCHANGED <<notified, waiting, holder, timed, upc>>

\* A spurious wakeup, or the timeout of this wait.
WakeSpuriously ==
    /\ wpc = "asleep"
    /\ wpc' = "lock"
    /\ UNCHANGED <<notified, waiting, holder, timed, upc>>

\* waiting.fetch_sub(1), then the guard is dropped.
Leave ==
    /\ wpc = "leave"
    /\ waiting' = waiting - 1
    /\ wpc' = "unlock"
    /\ UNCHANGED <<notified, holder, timed, upc>>

Unlock ==
    /\ wpc = "unlock"
    /\ holder' = {}
    /\ wpc' = "running"
    /\ UNCHANGED <<notified, waiting, timed, upc>>

-----------------------------------------------------------------------------
(* unpark.                                                                 *)

\* The compare-exchange publishes the permit, or finds it published and the
\* call returns.
Publish(u) ==
    /\ upc[u] = "idle"
    /\ ~notified
    /\ notified' = TRUE
    /\ upc' = [upc EXCEPT ![u] = "look"]
    /\ UNCHANGED <<waiting, holder, wpc, timed>>

\* After the fence: nobody waits and the call returns, or the mutex is needed.
Look(u) ==
    /\ upc[u] = "look"
    /\ upc' = [upc EXCEPT ![u] = IF waiting = 0 THEN "idle" ELSE "lock"]
    /\ UNCHANGED <<notified, waiting, holder, wpc, timed>>

\* Mutant: the signal does not wait for the mutex.
SignalUnlocked(u) ==
    /\ upc[u] = "lock"
    /\ upc' = [upc EXCEPT ![u] = "signal"]
    /\ UNCHANGED <<notified, waiting, holder, wpc, timed>>

LockToSignal(u) ==
    /\ upc[u] = "lock"
    /\ holder = {}
    /\ holder' = {u}
    /\ upc' = [upc EXCEPT ![u] = "signal"]
    /\ UNCHANGED <<notified, waiting, wpc, timed>>

\* notify_one, then the guard is dropped: whoever is woken needs the mutex, so
\* nothing falls between the two.
Signal(u) ==
    /\ upc[u] = "signal"
    /\ holder' = {}
    /\ upc' = [upc EXCEPT ![u] = "idle"]
    /\ wpc' = IF wpc = "asleep" THEN "lock" ELSE wpc
    /\ UNCHANGED <<notified, waiting, timed>>

-----------------------------------------------------------------------------
OwnerSteps ==
    \/ TakePermit
    \/ \E timeout, zero \in BOOLEAN : EnterPark(timeout, zero)
    \/ Recheck
    \/ Announce
    \/ LockMutex
    \/ CheckFinds
    \/ CheckFails
    \/ Sleep
    \/ GiveUp
    \/ WakeSpuriously
    \/ Leave
    \/ Unlock

Next ==
    \/ OwnerSteps
    \/ \E u \in Threads : Publish(u) \/ Look(u) \/ LockToSignal(u) \/ Signal(u)

Spec == Init /\ [][Next]_vars

\* Fairness: threads inside the parker keep running, and the mutex does not
\* starve one that asks for it again and again.  Nothing makes the owner park,
\* a thread unpark, or a spurious wakeup happen.
Fairness ==
    /\ SF_vars(LockMutex)
    /\ WF_vars(Recheck \/ Announce \/ CheckFinds \/ CheckFails \/ Sleep \/ Leave \/ Unlock)
    /\ \A u \in Threads : SF_vars(LockToSignal(u)) /\ WF_vars(Look(u) \/ Signal(u))

FairSpec == Spec /\ Fairness

-----------------------------------------------------------------------------
\* The owner has added itself to `waiting' and not yet taken itself off it.
Announced == wpc \in {"lock", "check", "commit", "asleep", "leave"}
\* A thread that has published the permit and not yet signalled.
Waking(u) == upc[u] \in {"look", "lock", "signal"}

\* Every field holds a value of its type; `waiting' counts the one owner.
TypeOK ==
    /\ notified \in BOOLEAN
    /\ waiting \in {0, 1}
    /\ holder \in SUBSET (Threads \cup {Owner})
    /\ wpc \in {"running", "recheck", "announce", "lock", "check", "commit",
                "asleep", "leave", "unlock"}
    /\ timed \in BOOLEAN
    /\ upc \in [Threads -> {"idle", "look", "lock", "signal"}]

\* The Dekker pair of park and unpark loses no wakeup: while the owner sleeps,
\* or has decided to, with the permit published, some thread is on its way to
\* signal it.
PermitNotLost ==
    wpc \in {"commit", "asleep"} /\ notified => \E u \in Threads : Waking(u)

\* The promise of the parker, with `parked' the owner between its decision to
\* wait and the step that ends the wait.
Promise == INSTANCE Permit WITH
    permit <- notified,
    parked <- IF wpc \in {"recheck", "announce", "lock", "check", "commit", "asleep"}
              THEN IF timed THEN "Timed" ELSE "Untimed"
              ELSE "No"

\* Parker implements Permit: park returns only with the permit, a permit is
\* taken once, and an owner that waits while it is available returns.
ImplementsPermit == Promise!PermitSpec
=============================================================================
