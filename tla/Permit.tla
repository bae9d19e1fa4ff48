------------------------------- MODULE Permit -------------------------------
(***************************************************************************)
(* What a worker's Parker promises: one permit, handed over at most once.  *)
(* unpark makes the permit available; park returns only by consuming it,   *)
(* park_timeout also when its time is up.                                  *)
(***************************************************************************)
VARIABLES
    permit,  \* a permit is available
    parked   \* what the owner is doing: "No", "Untimed" or "Timed"

permitVars == <<permit, parked>>

PermitInit == permit = FALSE /\ parked = "No"

Unpark == permit' = TRUE /\ UNCHANGED parked
\* A call that finds the permit, or does not wait, returns at once.
TryTake == parked = "No" /\ permit' = FALSE /\ UNCHANGED parked
Park(mode) == parked = "No" /\ parked' = mode /\ UNCHANGED permit
Take == parked # "No" /\ permit /\ permit' = FALSE /\ parked' = "No"
\* A permit that arrives with the timeout is kept for the next call.
TimeOut == parked = "Timed" /\ parked' = "No" /\ UNCHANGED permit

PermitNext ==
    \/ Unpark
    \/ TryTake
    \/ \E mode \in {"Untimed", "Timed"} : Park(mode)
    \/ Take
    \/ TimeOut

PermitSafety == PermitInit /\ [][PermitNext]_permitVars

\* A permit that is available is taken: no sleeper misses it.
PermitSpec == PermitSafety /\ WF_permitVars(Take)
=============================================================================
