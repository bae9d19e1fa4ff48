---------------------------- MODULE RegionPromise ----------------------------
(***************************************************************************)
(* What RuntimeState promises of structured concurrency, without saying    *)
(* how: regions form one tree, a region takes tasks and children only      *)
(* while it is open, cleanup starts when nothing else is left in it, and   *)
(* it closes when nothing at all is, with the worst outcome that ended in  *)
(* it.  A cancel reaches a region and everything below it in one step.     *)
(***************************************************************************)
EXTENDS Integers

CONSTANTS
    Regions,   \* region identifiers
    Tasks,     \* task identifiers
    None       \* the absent region

VARIABLES
    stage,     \* "Free", "Open", "Ending" or "Closed"
    up,        \* the parent of a region
    home,      \* the region of a task
    life,      \* "Free", "Live" or "Over"
    cancelled, \* the regions that are cancelled
    result     \* the worst outcome that ended in a region, -1 for none

promiseVars == <<stage, up, home, life, cancelled, result>>

Standing == {r \in Regions : stage[r] \in {"Open", "Ending"}}
LiveIn(r) == {t \in Tasks : life[t] = "Live" /\ home[t] = r}
ChildrenOf(r) == {c \in Standing : up[c] = r}
Worse(left, right) == IF left >= right THEN left ELSE right

PromiseInit ==
    /\ stage = [r \in Regions |-> "Free"]
    /\ up = [r \in Regions |-> None]
    /\ home = [t \in Tasks |-> None]
    /\ life = [t \in Tasks |-> "Free"]
    /\ cancelled = {}
    /\ result = [r \in Regions |-> -1]

\* A root is opened when no tree stands, any other region below an open one.
Open(r, p) ==
    /\ stage[r] = "Free"
    /\ IF p = None THEN \A x \in Standing : up[x] # None ELSE stage[p] = "Open"
    /\ stage' = [stage EXCEPT ![r] = "Open"]
    /\ up' = [up EXCEPT ![r] = p]
    /\ UNCHANGED <<home, life, cancelled, result>>

Begin(t, r) ==
    /\ life[t] = "Free"
    /\ life' = [life EXCEPT ![t] = "Live"]
    /\ home' = [home EXCEPT ![t] = r]
    /\ UNCHANGED <<stage, up, cancelled, result>>

Spawn(t, r) == stage[r] = "Open" /\ Begin(t, r)

\* Nothing but cleanup is left in the region, and no cleanup is running.
Alone(r) == stage[r] = "Ending" /\ LiveIn(r) = {} /\ ChildrenOf(r) = {}
SpawnCleanup(t, r) == Alone(r) /\ Begin(t, r)

\* A cleanup that is not a task panicked.
CleanupPanics(r) ==
    /\ Alone(r)
    /\ result' = [result EXCEPT ![r] = 3]
    /\ UNCHANGED <<stage, up, home, life, cancelled>>

End(t, outcome) ==
    /\ life[t] = "Live"
    /\ life' = [life EXCEPT ![t] = "Over"]
    /\ result' = [result EXCEPT ![home[t]] = Worse(@, outcome)]
    /\ UNCHANGED <<stage, up, home, cancelled>>

Close(r) ==
    /\ stage[r] = "Open"
    /\ stage' = [stage EXCEPT ![r] = "Ending"]
    /\ UNCHANGED <<up, home, life, cancelled, result>>

\* S is r and all that stands below it; the tasks `dropped' of r, which never
\* ran, are given up with it.
Cancel(r, S, dropped) ==
    /\ r \in S /\ S \subseteq Standing
    /\ \A x \in Standing : x # r => (x \in S <=> up[x] \in S)
    /\ dropped \subseteq LiveIn(r)
    /\ cancelled' = cancelled \cup S
    /\ stage' = [x \in Regions |-> IF x \in S THEN "Ending" ELSE stage[x]]
    /\ life' = [t \in Tasks |-> IF t \in dropped THEN "Over" ELSE life[t]]
    /\ UNCHANGED <<up, home, result>>

\* A region without tasks and children closes; if nothing ended in it, its
\* result says whether it was cancelled.
Finish(r) ==
    /\ Alone(r)
    /\ stage' = [stage EXCEPT ![r] = "Closed"]
    /\ result' = [result EXCEPT ![r] = IF @ # -1 THEN @ ELSE IF r \in cancelled THEN 2 ELSE 0]
    /\ UNCHANGED <<up, home, life, cancelled>>

PromiseNext ==
    \/ \E r \in Regions, p \in Regions \cup {None} : Open(r, p)
    \/ \E t \in Tasks, r \in Regions : Spawn(t, r) \/ SpawnCleanup(t, r)
    \/ \E t \in Tasks, outcome \in 0..3 : End(t, outcome)
    \/ \E r \in Regions : Close(r) \/ CleanupPanics(r) \/ Finish(r)
    \/ \E r \in Regions, S \in SUBSET Regions, dropped \in SUBSET Tasks : Cancel(r, S, dropped)

PromiseSpec == PromiseInit /\ [][PromiseNext]_promiseVars
=============================================================================
