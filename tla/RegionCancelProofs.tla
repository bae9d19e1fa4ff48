------------------------- MODULE RegionCancelProofs -------------------------
(***************************************************************************)
(* Theorems about what RegionRuntime records of cancellation and outcomes, *)
(* that advance_region_state forgets no region, and that RuntimeState      *)
(* implements RegionPromise.  They use the invariants of                   *)
(* RegionRuntimeProofs.                                                    *)
(***************************************************************************)
EXTENDS RegionRuntimeProofs

\* A task that a cancelled region may still hold.
Asked(t) == IsCancelling(t) \/ finalizerOf[t] # None \/ tstate[t] = "Completed"

\* A region has no reason before it is created, and then starts Open.
NewRegionsUncancelled ==
    \A r \in Regions : rstate[r] = "Free" => cancelReason[r] = NoReason

CancelInv == CancelReachesSubtree /\ NewRegionsUncancelled

\* A step that changes no reason, reopens no region and gives a closing region
\* neither a child nor a task that was not asked keeps the cancel invariant.
LEMMA CancelSame ==
    ASSUME TypeOK, CancelInv, cancelReason' = cancelReason,
           \A r \in Regions : rstate'[r] = "Free" => rstate[r] = "Free",
           \A r \in Present' : r \in Present \/ rstate[r] = "Free",
           \A r \in Present : rstate'[r] = "Open" => rstate[r] = "Open",
           \A r \in Present : rstate[r] # "Open" => children'[r] \subseteq children[r],
           \A r \in Present : rstate[r] # "Open" => \A t \in rtasks'[r] :
               finalizerOf'[t] # None \/ (t \in rtasks[r] /\ (Asked(t) => Asked(t)'))
    PROVE  CancelInv'
<1>1. NewRegionsUncancelled'
  BY DEF CancelInv, NewRegionsUncancelled
<1>2. ASSUME NEW r \in Present', cancelReason[r] # NoReason
      PROVE  /\ rstate'[r] # "Open"
             /\ \A t \in rtasks'[r] :
                   IsCancelling(t)' \/ finalizerOf'[t] # None \/ tstate'[t] = "Completed"
             /\ \A c \in children'[r] : cancelReason[c] # NoReason
  <2>1. r \in Present /\ rstate[r] # "Open"
    BY <1>2 DEF CancelInv, NewRegionsUncancelled, CancelReachesSubtree, Present
  <2>2. rstate'[r] # "Open"
    BY <2>1
  <2>3. \A c \in children'[r] : cancelReason[c] # NoReason
    BY <1>2, <2>1 DEF CancelInv, CancelReachesSubtree
  <2>4. \A t \in rtasks[r] : Asked(t)
    BY <1>2, <2>1 DEF CancelInv, CancelReachesSubtree, Asked
  <2>5. \A t \in rtasks'[r] : finalizerOf'[t] # None \/ Asked(t)'
    BY <2>1, <2>4
  <2> QED
    BY <2>2, <2>3, <2>5 DEF Asked
<1> QED
  BY <1>1, <1>2 DEF CancelInv, CancelReachesSubtree

\* Advancing a region admits no task but a finalizer's.
LEMMA CancelAdvance ==
    ASSUME IndInv, CancelInv, Advance PROVE CancelInv'
<1>1. PICK r \in Regions :
        \/ AdvanceToFinalizing(r)
        \/ AdvanceToDraining(r)
        \/ AdvanceLeaks(r)
        \/ AdvanceToClosed(r)
        \/ AdvanceStops(r)
        \/ \E panics \in BOOLEAN : RunSyncFinalizer(r, panics)
        \/ \E t \in Tasks : SpawnFinalizer(r, t)
  BY DEF Advance
<1> USE DEF IndInv, TypeOK, RegionTypeOK, FinalizerTypeOK, TaskTypeOK
<1>2. CASE ~\E t \in Tasks : SpawnFinalizer(r, t)
  <2>1. UNCHANGED <<cancelReason, rtasks, tstate, finalizerOf>>
    BY <1>1, <1>2 DEF AdvanceToFinalizing, AdvanceToDraining, AdvanceLeaks, AdvanceToClosed,
       AdvanceStops, RunSyncFinalizer, regionVars, finalizerVars, taskVars
  <2>2. \A t : Asked(t)' = Asked(t)
    BY <2>1 DEF Asked, IsCancelling
  <2>3. \A x \in Regions : children'[x] \subseteq children[x]
    <3>1. \A x \in Regions : Unlisted(r)[x] \subseteq children[x]
      BY DEF Unlisted
    <3>2. children' = children \/ children' = Unlisted(r)
      BY <1>1, <1>2 DEF AdvanceToFinalizing, AdvanceToDraining, AdvanceLeaks,
         AdvanceToClosed, AdvanceStops, RunSyncFinalizer, regionVars
    <3> QED
      BY <3>1, <3>2
  <2>4. /\ \A x \in Regions : rstate'[x] = rstate[x] \/ (x = r /\ rstate'[r] \notin {"Free", "Open"})
        /\ rstate'[r] = rstate[r] \/ rstate[r] \notin {"Free", "Closed"}
    BY <1>1, <1>2 DEF AdvanceToFinalizing, AdvanceToDraining, AdvanceLeaks, AdvanceToClosed,
       AdvanceStops, RunSyncFinalizer, regionVars, ReadyToDrain, ReadyToFinalize,
       CanCompleteClose, NoBarrier
  <2>5. \A x \in Present' : x \in Present
    BY <2>4 DEF Present
  <2> QED
    BY <2>1, <2>2, <2>3, <2>4, <2>5, CancelSame DEF Present
<1>3. ASSUME NEW t \in Tasks, SpawnFinalizer(r, t)
      PROVE  CancelInv'
  <2>1. /\ UNCHANGED <<cancelReason, rstate, children>>
        /\ rtasks' = [rtasks EXCEPT ![r] = @ \cup {t}]
        /\ finalizerOf' = [finalizerOf EXCEPT ![t] = Top(r)]
        /\ tstate' = [tstate EXCEPT ![t] = "Created"]
        /\ finalizers[r] # << >>
        /\ tstate[t] = "Free"
    BY <1>3 DEF SpawnFinalizer, AsyncOnTop
  <2>2. finalizerOf'[t] # None
    BY <2>1, PopKeeps, ConstantsAssumption
  <2>3. \A u \in Tasks : u # t => (Asked(u)' <=> Asked(u))
    BY <2>1 DEF Asked, IsCancelling
  <2>4. Present' = Present
    BY <2>1 DEF Present
  <2> QED
    BY <2>1, <2>2, <2>3, <2>4, CancelSame DEF Present
<1> QED
  BY <1>1, <1>2, <1>3

\* Regions and tasks are only created in an open, hence uncancelled, region.
LEMMA CancelCreate ==
    ASSUME IndInv, CancelInv, Create PROVE CancelInv'
<1> USE DEF IndInv, TypeOK, RegionTypeOK, FinalizerTypeOK, TaskTypeOK
<1>1. PICK r \in Regions :
        \/ CreateRootRegion(r)
        \/ \E p \in Regions : AttachChild(p, r)
        \/ \E t \in Tasks : CreateTask(r, t)
        \/ \E t \in Tasks, o \in Obligations : CreateObligation(r, t, o)
        \/ \E f \in Finalizers, async \in BOOLEAN : RegisterFinalizer(r, f, async)
  BY DEF Create, CreateChildRegion, OpenScope
<1>2. UNCHANGED <<cancelReason, finalizerOf>>
  BY <1>1 DEF CreateRootRegion, AttachChild, CreateTask, CreateObligation, RegisterFinalizer,
     regionVars, finalizerVars
<1>3. \A x \in Regions : rstate'[x] = rstate[x] \/ (rstate[x] = "Free" /\ rstate'[x] = "Open")
  BY <1>1 DEF CreateRootRegion, AttachChild, CreateTask, CreateObligation, RegisterFinalizer,
     regionVars
<1>4. \A x \in Regions : rstate[x] # "Open" =>
         children'[x] = children[x] /\ rtasks'[x] = rtasks[x]
  BY <1>1 DEF CreateRootRegion, AttachChild, CreateTask, CreateObligation, RegisterFinalizer,
     regionVars
<1>5. \A t \in Tasks : tstate'[t] = tstate[t] \/ tstate[t] = "Free"
  BY <1>1 DEF CreateRootRegion, AttachChild, CreateTask, CreateObligation, RegisterFinalizer,
     taskVars
<1>6. \A t \in Tasks : Asked(t) => Asked(t)'
  BY <1>2, <1>5 DEF Asked, IsCancelling
<1> QED
  BY <1>2, <1>3, <1>4, <1>6, CancelSame DEF Present

\* The subtree collected by cancel_request holds its root and the children of
\* its members.
LEMMA SubtreeClosed ==
    ASSUME TypeOK, NEW r \in Regions
    PROVE  /\ r \in Subtree(r)
           /\ \A y \in Subtree(r) : children[y] \subseteq Subtree(r)
  BY DEF Subtree, TypeOK, RegionTypeOK

\* A cancel request keeps what was asked asked and reaches all it is for.
LEMMA RequestKeepsAsked ==
    ASSUME TypeOK, NEW S, UNCHANGED finalizerOf, NEW t \in Tasks,
           tstate'[t] = RequestCancel(S)[t]
    PROVE  /\ Asked(t) => Asked(t)'
           /\ t \in S /\ t \in InArena => Asked(t)'
  BY DEF RequestCancel, Asked, IsCancelling, InArena, TypeOK, TaskTypeOK, TaskStates

\* cancel_request leaves the whole subtree cancelled.
LEMMA CancelSubtreeStep ==
    ASSUME IndInv, CancelInv, NEW r \in Regions, NEW kind \in 0..5, NEW also,
           CancelSubtree(r, kind, also),
           children' = children, finalizerOf' = finalizerOf,
           \A x \in Regions : \A t \in rtasks'[x] :
              /\ t \in rtasks[x]
              /\ tstate'[t] = RequestCancel(UNION {rtasks[y] : y \in Subtree(r) \cap Present})[t]
    PROVE  CancelInv'
<1> USE DEF IndInv, TypeOK, RegionTypeOK, TaskTypeOK
<1> DEFINE sub == Subtree(r) \cap Present
<1>1. Present' = Present /\ \A x \in Regions : rstate'[x] = "Free" <=> rstate[x] = "Free"
  BY CancelSubtreeKeepsPresent
<1>2. \A x \in Regions :
        /\ x \in sub => cancelReason'[x] # NoReason /\ rstate'[x] # "Open"
        /\ x \notin sub => cancelReason'[x] = cancelReason[x] /\ rstate'[x] = rstate[x]
        /\ cancelReason[x] # NoReason => cancelReason'[x] # NoReason
  BY DEF CancelSubtree, strengthen, Reasons, NoReason, ParentCancelled
<1>3. NewRegionsUncancelled'
  BY <1>1, <1>2 DEF CancelInv, NewRegionsUncancelled, Present
<1>4. ASSUME NEW x \in Present, cancelReason'[x] # NoReason
      PROVE  /\ rstate'[x] # "Open"
             /\ \A t \in rtasks'[x] : Asked(t)'
             /\ \A c \in children[x] : cancelReason'[c] # NoReason
  <2>1. CASE x \in sub
    <3>1. \A c \in children[x] : c \in sub
      BY <2>1, SubtreeClosed DEF TreeConsistent, Present
    <3>2. \A t \in rtasks'[x] : Asked(t)'
      <4> SUFFICES ASSUME NEW t \in rtasks'[x] PROVE Asked(t)'
        OBVIOUS
      <4>1. t \in rtasks[x] /\ t \in InArena /\ t \in Tasks
        BY DEF TreeConsistent, Present, InArena
      <4>2. t \in UNION {rtasks[y] : y \in sub}
        BY <2>1, <4>1
      <4> QED
        BY <4>1, <4>2, RequestKeepsAsked DEF Present
    <3> QED
      BY <1>2, <2>1, <3>1, <3>2 DEF Present
  <2>2. CASE x \notin sub
    <3>1. cancelReason[x] # NoReason /\ x \in Regions
      BY <1>2, <1>4, <2>2 DEF Present
    <3>2. /\ rstate[x] # "Open"
          /\ \A t \in rtasks[x] : Asked(t)
          /\ \A c \in children[x] : cancelReason[c] # NoReason
      BY <3>1 DEF CancelInv, CancelReachesSubtree, Asked
    <3>3. \A t \in rtasks'[x] : Asked(t)'
      BY <3>1, <3>2, RequestKeepsAsked
    <3> QED
      BY <1>2, <2>2, <3>1, <3>2, <3>3
  <2> QED
    BY <2>1, <2>2
<1> QED
  BY <1>1, <1>3, <1>4 DEF CancelInv, CancelReachesSubtree, Asked

\* Every request keeps the cancel invariant.
LEMMA CancelRequestStep ==
    ASSUME IndInv, CancelInv, Request PROVE CancelInv'
<1> USE DEF IndInv, TypeOK, RegionTypeOK, FinalizerTypeOK, TaskTypeOK
<1>1. ASSUME NEW r \in Regions, CloseRegion(r)
      PROVE  CancelInv'
  <2>1. \A t : Asked(t)' = Asked(t)
    BY <1>1 DEF CloseRegion, Asked, IsCancelling, taskVars, finalizerVars
  <2> QED
    BY <1>1, <2>1, CancelSame DEF CloseRegion, Present
<1>2. ASSUME NEW r \in Regions, NEW kind \in CancelKinds,
             CancelRequest(r, kind) \/ CancelAndClose(r, kind)
      PROVE  CancelInv'
  <2>1. /\ \E also : CancelSubtree(r, kind, also)
        /\ children' = children /\ finalizerOf' = finalizerOf /\ rtasks' = rtasks
        /\ tstate' = RequestCancel(UNION {rtasks[y] : y \in Subtree(r) \cap Present})
    BY <1>2 DEF CancelRequest, CancelAndClose, finalizerVars
  <2> QED
    BY <2>1, CancelSubtreeStep, ConstantsAssumption
<1>3. ASSUME NEW S, NEW kind, CancelTasks(S, kind)
      PROVE  CancelInv'
  <2>1. /\ UNCHANGED <<rstate, children, rtasks, cancelReason, finalizerOf>>
        /\ tstate' = RequestCancel(S)
    BY <1>3 DEF CancelTasks, regionVars, finalizerVars
  <2>2. \A t \in Tasks : Asked(t) => Asked(t)'
    BY <2>1, RequestKeepsAsked
  <2> QED
    BY <2>1, <2>2, CancelSame DEF Present
<1>4. ASSUME NEW o \in Obligations, NEW how, ResolveObligation(o, how)
      PROVE  CancelInv'
  <2>1. UNCHANGED <<rstate, children, rtasks, cancelReason, finalizerOf, tstate>>
    BY <1>4 DEF ResolveObligation, taskVars, finalizerVars
  <2> QED
    BY <2>1, CancelSame DEF Present, Asked, IsCancelling
<1>5. CASE FactoryReturns
  <2>1. UNCHANGED <<rstate, children, rtasks, cancelReason, finalizerOf, tstate>>
    BY <1>5 DEF FactoryReturns, taskVars, finalizerVars, regionVars
  <2> QED
    BY <2>1, CancelSame DEF Present, Asked, IsCancelling
<1>6. CASE FactoryPanics
  <2> DEFINE reaped == {t \in Tasks : /\ owner[t] = factory
                                      /\ tstate[t] \in {"Created", "Running", "CancelRequested"}}
             asked == UNION {rtasks[y] : y \in Subtree(factory) \cap Present}
  <2>1. /\ factory \in Regions
        /\ CancelSubtree(factory, FailFast, {factory})
        /\ children' = children /\ finalizerOf' = finalizerOf
        /\ rtasks' = [rtasks EXCEPT ![factory] = @ \ reaped]
        /\ tstate' = [t \in Tasks |-> IF t \in reaped THEN "Gone" ELSE RequestCancel(asked)[t]]
    BY <1>6 DEF FactoryPanics, finalizerVars, ControlTypeOK
  <2>2. \A x \in Regions : \A t \in rtasks'[x] :
           t \in rtasks[x] /\ tstate'[t] = RequestCancel(asked)[t]
    <3> SUFFICES ASSUME NEW x \in Regions, NEW t \in rtasks'[x]
                 PROVE  t \in rtasks[x] /\ t \notin reaped /\ t \in Tasks
      BY <2>1
    <3>1. t \in rtasks[x] /\ t \in Tasks
      BY <2>1
    <3>2. owner[t] = x
      BY <3>1 DEF TreeConsistent
    <3> QED
      BY <2>1, <3>1, <3>2
  <2>3. FailFast \in 0..5
    BY DEF FailFast
  <2> QED
    BY <2>1, <2>2, <2>3, CancelSubtreeStep
<1> QED
  BY <1>1, <1>2, <1>3, <1>4, <1>5, <1>6 DEF Request, CancelTask, CancelSiblings

\* Polling, acknowledging and completing keep the cancel invariant.
LEMMA CancelExecute ==
    ASSUME IndInv, CancelInv, Execute PROVE CancelInv'
<1> USE DEF IndInv, TypeOK, RegionTypeOK, FinalizerTypeOK, TaskTypeOK
<1>1. ASSUME NEW t \in InArena, NEW final, TaskCompleted(t, final)
      PROVE  CancelInv'
  <2>1. /\ UNCHANGED <<rstate, children, cancelReason>>
        /\ t \in Tasks /\ owner[t] \in Regions
        /\ rtasks' = [rtasks EXCEPT ![owner[t]] = @ \ {t}]
        /\ finalizerOf' = [finalizerOf EXCEPT ![t] = None]
        /\ tstate' = [tstate EXCEPT ![t] = "Gone"]
    BY <1>1 DEF TaskCompleted, InArena, TreeConsistent, Present
  <2>2. \A u \in Tasks : u # t => (Asked(u)' <=> Asked(u))
    BY <2>1 DEF Asked, IsCancelling
  <2>3. \A x \in Regions : rtasks'[x] \subseteq rtasks[x] /\ t \notin rtasks'[x]
    BY <2>1 DEF TreeConsistent
  <2> QED
    BY <2>1, <2>2, <2>3, CancelSame DEF Present
<1>2. ASSUME NEW t \in Tasks,
             \/ GuardRetries(t)
             \/ \E polled \in Outcomes : PollReady(t, polled)
      PROVE  CancelInv'
  BY <1>1, <1>2 DEF GuardRetries, PollReady, PollEnds, Live, InArena
<1>3. ASSUME NEW t \in Tasks,
             \/ StartRunning(t) \/ Checkpoint(t) \/ PollPending(t)
             \/ \E polled \in Outcomes : PollReadyUnwinds(t, polled)
      PROVE  CancelInv'
  <2>1. UNCHANGED <<rstate, children, rtasks, cancelReason, finalizerOf>>
    BY <1>3 DEF StartRunning, Checkpoint, PollPending, PollReadyUnwinds, regionVars, finalizerVars
  <2>2. \A u \in Tasks : Asked(u) => Asked(u)'
    BY <1>3, <2>1 DEF StartRunning, Checkpoint, PollPending, PollReadyUnwinds, Asked, IsCancelling
  <2> QED
    BY <2>1, <2>2, CancelSame DEF Present
<1>4. CASE ScheduleReadyFinalizers \/ DrainEnds
  <2>1. UNCHANGED <<rstate, children, rtasks, cancelReason, finalizerOf, tstate>>
    BY <1>4 DEF ScheduleReadyFinalizers, DrainEnds, regionVars, finalizerVars, taskVars
  <2> QED
    BY <2>1, CancelSame DEF Present, Asked, IsCancelling
<1> QED
  BY <1>2, <1>3, <1>4 DEF Execute

\* The cancel invariant holds in every state of RuntimeState.
THEOREM CancelInvariance == Spec => []CancelInv
<1>1. Init => CancelInv
  BY DEF Init, CancelInv, CancelReachesSubtree, NewRegionsUncancelled, Present
<1>2. IndInv /\ CancelInv /\ [Next]_vars => CancelInv'
  <2>1. CASE UNCHANGED vars
    BY <2>1 DEF vars, regionVars, finalizerVars, taskVars, CancelInv, CancelReachesSubtree,
       NewRegionsUncancelled, Present, IsCancelling
  <2> QED
    BY <2>1, CancelAdvance, CancelCreate, CancelRequestStep, CancelExecute DEF Next
<1> QED
  BY <1>1, <1>2, Invariance, PTL DEF Spec

\* Cancelling a region reaches every task and region below it, and nothing is
\* spawned afterwards that escapes it, for every tree (cancel_request).
THEOREM CancellationReaches == Spec => []CancelReachesSubtree
<1>1. CancelInv => CancelReachesSubtree
  BY DEF CancelInv
<1> QED
  BY <1>1, CancelInvariance, PTL

-----------------------------------------------------------------------------
(* Reasons and outcomes.                                                   *)

\* A task that was not asked to cancel carries no reason.
UnaskedBlank ==
    \A t \in Tasks : tstate[t] \in {"Free", "Created", "Running"} => treason[t] = NoReason

\* A task that has not ended has no outcome, and one that has left the arena
\* left it from a region.
Unfinished ==
    \A t \in Tasks : /\ tstate[t] \notin {"Completed", "Gone"} => outcome[t] = NoOutcome
                     /\ tstate[t] = "Gone" => owner[t] \in Regions

OutcomeInv == UnaskedBlank /\ Unfinished /\ CloseOutcomeDominates

\* Severities are integers, so they can be compared.
LEMMA SeveritiesAreIntegers ==
    /\ \A x \in Outcomes \cup {NoOutcome} : x \in Int /\ x >= NoOutcome /\ x >= x
    /\ \A x \in Reasons : x \in Int /\ x >= x
  BY DEF Outcomes, Ok, Panicked, NoOutcome, Reasons, NoReason

\* A step that changes no reason, outcome or task state keeps the outcome invariant
\* and withdraws nothing.
LEMMA OutcomeSame ==
    ASSUME TypeOK, TypeOK', OutcomeInv,
           UNCHANGED <<treason, outcome>>,
           \A t \in Tasks : tstate'[t] # tstate[t] =>
              /\ tstate[t] \notin {"Completed", "Gone"} /\ tstate'[t] \notin {"Completed", "Gone"}
              /\ treason[t] = NoReason \/ tstate'[t] \notin {"Free", "Created", "Running"},
           \A t \in Tasks : tstate[t] = "Gone" => owner'[t] = owner[t],
           \A r \in Regions : closeOutcome'[r] >= closeOutcome[r]
    PROVE  OutcomeInv'
<1>1. UnaskedBlank' /\ Unfinished'
  BY DEF OutcomeInv, UnaskedBlank, Unfinished
<1>2. ASSUME NEW t \in Tasks, tstate'[t] = "Gone"
      PROVE  outcome'[t] <= closeOutcome'[owner'[t]]
  <2>1. tstate[t] = "Gone" /\ owner'[t] = owner[t] /\ owner[t] \in Regions
    BY <1>2 DEF OutcomeInv, Unfinished
  <2>2. /\ outcome[t] <= closeOutcome[owner[t]]
        /\ outcome[t] \in Int /\ closeOutcome[owner[t]] \in Int /\ closeOutcome'[owner[t]] \in Int
    BY <2>1, SeveritiesAreIntegers DEF OutcomeInv, CloseOutcomeDominates, TypeOK, TaskTypeOK,
       RegionTypeOK
  <2> QED
    BY <2>1, <2>2
<1> QED
  BY <1>1, <1>2 DEF OutcomeInv, CloseOutcomeDominates

\* Outcome::join is an upper bound.
LEMMA JoinIsUpperBound ==
    ASSUME NEW a \in Outcomes \cup {NoOutcome}, NEW b \in Outcomes \cup {NoOutcome}
    PROVE  join(a, b) >= a /\ join(a, b) >= b
  BY DEF join, Outcomes, Ok, Panicked, NoOutcome

\* Advancing a region only raises its close outcome.
LEMMA OutcomeAdvance ==
    ASSUME IndInv, IndInv', OutcomeInv, Advance PROVE OutcomeInv' /\ CancelOnlyGrows
<1>1. PICK r \in Regions :
        \/ AdvanceToFinalizing(r)
        \/ AdvanceToDraining(r)
        \/ AdvanceLeaks(r)
        \/ AdvanceToClosed(r)
        \/ AdvanceStops(r)
        \/ \E panics \in BOOLEAN : RunSyncFinalizer(r, panics)
        \/ \E t \in Tasks : SpawnFinalizer(r, t)
  BY DEF Advance
<1> USE DEF IndInv, TypeOK, RegionTypeOK, TaskTypeOK
<1>2. UNCHANGED <<treason, outcome, cancelReason>>
  BY <1>1 DEF AdvanceToFinalizing, AdvanceToDraining, AdvanceLeaks, AdvanceToClosed,
     AdvanceStops, RunSyncFinalizer, SpawnFinalizer, regionVars, taskVars
<1>3. \A x \in Regions : closeOutcome'[x] >= closeOutcome[x]
  <2>1. CASE closeOutcome' = closeOutcome
    BY <2>1, SeveritiesAreIntegers
  <2>2. CASE AdvanceToClosed(r)
    <3> TAKE x \in Regions
    <3>1. \/ closeOutcome'[x] = closeOutcome[x]
          \/ closeOutcome[x] = NoOutcome /\ closeOutcome'[x] \in Outcomes
      BY <2>2 DEF AdvanceToClosed, Outcomes, Ok, Cancelled, Panicked
    <3>2. closeOutcome[x] \in Outcomes \cup {NoOutcome}
      OBVIOUS
    <3> HIDE DEF IndInv, TypeOK
    <3> QED
      BY <3>1, <3>2, SeveritiesAreIntegers
  <2>3. ASSUME NEW panics \in BOOLEAN, RunSyncFinalizer(r, panics)
        PROVE  \A x \in Regions : closeOutcome'[x] >= closeOutcome[x]
    <3> TAKE x \in Regions
    <3>1. \/ closeOutcome'[x] = closeOutcome[x]
          \/ closeOutcome'[x] = join(closeOutcome[x], Panicked)
      BY <2>3 DEF RunSyncFinalizer
    <3>2. closeOutcome[x] \in Outcomes \cup {NoOutcome} /\ Panicked \in Outcomes
      BY DEF Outcomes, Ok, Panicked
    <3> HIDE DEF IndInv, TypeOK
    <3> QED
      BY <3>1, <3>2, SeveritiesAreIntegers, JoinIsUpperBound
  <2> QED
    BY <1>1, <2>1, <2>2, <2>3 DEF AdvanceToFinalizing, AdvanceToDraining, AdvanceLeaks,
       AdvanceStops, SpawnFinalizer, regionVars
<1>4. \A t \in Tasks : /\ tstate'[t] = tstate[t] \/ (tstate[t] = "Free" /\ tstate'[t] = "Created")
                       /\ tstate[t] = "Gone" => owner'[t] = owner[t]
  BY <1>1 DEF AdvanceToFinalizing, AdvanceToDraining, AdvanceLeaks, AdvanceToClosed,
     AdvanceStops, RunSyncFinalizer, SpawnFinalizer, taskVars
<1>5. OutcomeInv'
  BY <1>2, <1>3, <1>4, OutcomeSame DEF OutcomeInv, UnaskedBlank
<1>6. CancelOnlyGrows
  BY <1>2, SeveritiesAreIntegers DEF CancelOnlyGrows
<1> QED
  BY <1>5, <1>6

\* A new task has neither a reason nor an outcome.
LEMMA OutcomeCreate ==
    ASSUME IndInv, IndInv', OutcomeInv, Create PROVE OutcomeInv' /\ CancelOnlyGrows
<1> USE DEF IndInv, TypeOK, RegionTypeOK, TaskTypeOK
<1>1. UNCHANGED <<treason, outcome, cancelReason, closeOutcome>>
  BY DEF Create, CreateRootRegion, CreateChildRegion, OpenScope, AttachChild, CreateTask,
     CreateObligation, RegisterFinalizer, regionVars, taskVars
<1>2. \A t \in Tasks : /\ tstate'[t] = tstate[t] \/ (tstate[t] = "Free" /\ tstate'[t] = "Created")
                       /\ tstate[t] = "Gone" => owner'[t] = owner[t]
  BY DEF Create, CreateRootRegion, CreateChildRegion, OpenScope, AttachChild, CreateTask,
     CreateObligation, RegisterFinalizer, taskVars
<1>3. \A x \in Regions : closeOutcome'[x] >= closeOutcome[x]
  BY <1>1, SeveritiesAreIntegers
<1>4. OutcomeInv'
  BY <1>1, <1>2, <1>3, OutcomeSame DEF OutcomeInv, UnaskedBlank
<1>5. CancelOnlyGrows
  BY <1>1, SeveritiesAreIntegers DEF CancelOnlyGrows
<1> QED
  BY <1>4, <1>5

\* The tasks a cancel request reaches, and what it does to their reasons.
LEMMA RequestReasonGrows ==
    ASSUME TypeOK, OutcomeInv, NEW S, NEW reason \in [Tasks -> 0..5], NEW t \in Tasks
    PROVE  /\ RequestReason(S, reason)[t] >= treason[t]
           /\ RequestCancel(S)[t] \in {"Free", "Created", "Running"}
                => RequestReason(S, reason)[t] = NoReason
           /\ RequestCancel(S)[t] # tstate[t] =>
                tstate[t] \in {"Created", "Running"} /\ RequestCancel(S)[t] = "CancelRequested"
  BY DEF TypeOK, TaskTypeOK, OutcomeInv, UnaskedBlank, RequestReason, RequestCancel, strengthen,
     Reasons, NoReason, Live, InArena

\* Requests only strengthen reasons and leave outcomes alone.
LEMMA OutcomeRequest ==
    ASSUME IndInv, IndInv', OutcomeInv, Request PROVE OutcomeInv' /\ CancelOnlyGrows
<1> USE DEF IndInv, TypeOK, RegionTypeOK, TaskTypeOK
<1>1. UNCHANGED <<outcome, owner, closeOutcome>>
  BY DEF Request, CloseRegion, CancelRequest, CancelAndClose, CancelTask, CancelSiblings,
     CancelTasks, ResolveObligation, FactoryReturns, FactoryPanics, regionVars, taskVars
<1>2. CASE UNCHANGED <<tstate, treason, cancelReason>>
  <2>1. \A x \in Regions : closeOutcome'[x] >= closeOutcome[x]
    BY <1>1, SeveritiesAreIntegers
  <2>2. OutcomeInv'
    BY <1>1, <1>2, <2>1, OutcomeSame
  <2>3. CancelOnlyGrows
    BY <1>1, <1>2, SeveritiesAreIntegers DEF CancelOnlyGrows
  <2> QED
    BY <2>2, <2>3
<1>3. ASSUME NEW S, NEW reason \in [Tasks -> 0..5], NEW gone \in SUBSET Tasks,
             treason' = RequestReason(S, reason),
             tstate' = [t \in Tasks |-> IF t \in gone THEN "Gone" ELSE RequestCancel(S)[t]],
             \A t \in gone : owner[t] \in Regions
                             /\ tstate[t] \in {"Created", "Running", "CancelRequested"},
             \A r \in Regions : cancelReason'[r] >= cancelReason[r]
      PROVE  OutcomeInv' /\ CancelOnlyGrows
  <2>1. \A t \in Tasks : /\ treason'[t] >= treason[t]
                         /\ tstate'[t] \in {"Free", "Created", "Running"} => treason'[t] = NoReason
    BY <1>3, RequestReasonGrows
  <2>2. \A t \in Tasks : tstate'[t] # tstate[t] =>
           tstate[t] \in {"Created", "Running", "CancelRequested"}
           /\ (t \in gone \/ tstate'[t] = "CancelRequested")
    BY <1>3, RequestReasonGrows
  <2>3. UnaskedBlank' /\ Unfinished'
    BY <1>1, <1>3, <2>1, <2>2 DEF OutcomeInv, UnaskedBlank, Unfinished
  <2>4. CloseOutcomeDominates'
    <3> SUFFICES ASSUME NEW t \in Tasks, tstate'[t] = "Gone"
                 PROVE  outcome[t] <= closeOutcome[owner[t]]
      BY <1>1 DEF CloseOutcomeDominates
    <3>1. CASE tstate[t] = "Gone"
      BY <3>1 DEF OutcomeInv, CloseOutcomeDominates
    <3>2. CASE tstate[t] # "Gone"
      <4>1. outcome[t] = NoOutcome /\ owner[t] \in Regions
        BY <1>3, <2>2, <3>2 DEF OutcomeInv, Unfinished
      <4> QED
        BY <4>1, SeveritiesAreIntegers
    <3> QED
      BY <3>1, <3>2
  <2>5. CancelOnlyGrows
    BY <1>1, <1>3, <2>1 DEF CancelOnlyGrows
  <2> QED
    BY <2>3, <2>4, <2>5 DEF OutcomeInv
<1>4. ASSUME NEW r \in Regions, NEW kind \in 0..5, NEW also, CancelSubtree(r, kind, also)
      PROVE  /\ \A x \in Regions : cancelReason'[x] >= cancelReason[x]
             /\ \E reason \in [Tasks -> 0..5] :
                   treason' = RequestReason(UNION {rtasks[x] : x \in Subtree(r) \cap Present}, reason)
  <2>1. \A x \in Regions : cancelReason'[x] >= cancelReason[x]
    <3> TAKE x \in Regions
    <3>1. \/ cancelReason'[x] = cancelReason[x]
          \/ cancelReason'[x] = strengthen(cancelReason[x], kind)
          \/ cancelReason'[x] = strengthen(cancelReason[x], ParentCancelled)
      BY <1>4 DEF CancelSubtree
    <3>2. cancelReason[x] \in Int /\ kind \in Int /\ ParentCancelled \in Int
      BY SeveritiesAreIntegers DEF ParentCancelled
    <3> HIDE DEF IndInv, TypeOK
    <3> QED
      BY <3>1, <3>2 DEF strengthen
  <2>2. [t \in Tasks |-> IF owner[t] = r THEN kind ELSE ParentCancelled] \in [Tasks -> 0..5]
    BY DEF ParentCancelled
  <2> QED
    BY <1>4, <2>1, <2>2 DEF CancelSubtree
<1>5. ASSUME NEW r \in Regions, NEW kind \in CancelKinds,
             CancelRequest(r, kind) \/ CancelAndClose(r, kind)
      PROVE  OutcomeInv' /\ CancelOnlyGrows
  <2> DEFINE asked == UNION {rtasks[x] : x \in Subtree(r) \cap Present}
  <2>1. (\E also : CancelSubtree(r, kind, also)) /\ tstate' = RequestCancel(asked)
    BY <1>5 DEF CancelRequest, CancelAndClose
  <2>2. kind \in 0..5
    BY ConstantsAssumption
  <2>3. /\ \A x \in Regions : cancelReason'[x] >= cancelReason[x]
        /\ \E reason \in [Tasks -> 0..5] : treason' = RequestReason(asked, reason)
    BY <1>4, <2>1, <2>2
  <2> DEFINE gone == {}
  <2>4. /\ tstate' = [t \in Tasks |-> IF t \in gone THEN "Gone" ELSE RequestCancel(asked)[t]]
        /\ gone \in SUBSET Tasks /\ \A t \in gone : FALSE
    BY <2>1 DEF RequestCancel
  <2> HIDE DEF asked, gone
  <2>5. PICK reason \in [Tasks -> 0..5] : treason' = RequestReason(asked, reason)
    BY <2>3
  <2> QED
    BY <1>3, <2>3, <2>4, <2>5
<1>6. ASSUME NEW S, NEW kind \in 0..5, CancelTasks(S, kind)
      PROVE  OutcomeInv' /\ CancelOnlyGrows
  <2> DEFINE gone == {}
             reason == [t \in Tasks |-> kind]
  <2>1. /\ treason' = RequestReason(S, reason)
        /\ tstate' = [t \in Tasks |-> IF t \in gone THEN "Gone" ELSE RequestCancel(S)[t]]
        /\ gone \in SUBSET Tasks /\ \A t \in gone : FALSE
        /\ cancelReason' = cancelReason
    BY <1>6 DEF CancelTasks, RequestCancel, regionVars
  <2>2. \A x \in Regions : cancelReason'[x] >= cancelReason[x]
    BY <2>1, SeveritiesAreIntegers
  <2>3. reason \in [Tasks -> 0..5]
    OBVIOUS
  <2> HIDE DEF gone, reason
  <2> QED
    BY <1>3, <2>1, <2>2, <2>3
<1>7. CASE FactoryPanics
  <2> DEFINE asked == UNION {rtasks[x] : x \in Subtree(factory) \cap Present}
             reaped == {t \in Tasks : /\ owner[t] = factory
                                      /\ tstate[t] \in {"Created", "Running", "CancelRequested"}}
  <2>1. /\ CancelSubtree(factory, FailFast, {factory})
        /\ factory \in Regions
        /\ tstate' = [t \in Tasks |-> IF t \in reaped THEN "Gone" ELSE RequestCancel(asked)[t]]
    BY <1>7 DEF FactoryPanics, ControlTypeOK
  <2>2. FailFast \in 0..5
    BY DEF FailFast
  <2>3. /\ \A x \in Regions : cancelReason'[x] >= cancelReason[x]
        /\ \E reason \in [Tasks -> 0..5] : treason' = RequestReason(asked, reason)
    BY <1>4, <2>1, <2>2
  <2>4. /\ reaped \in SUBSET Tasks
        /\ \A t \in reaped : owner[t] \in Regions
                             /\ tstate[t] \in {"Created", "Running", "CancelRequested"}
    BY <2>1
  <2> HIDE DEF asked, reaped
  <2> QED
    BY <1>3, <2>1, <2>3, <2>4
<1>8. FailFast \in 0..5 /\ CancelKinds \subseteq 0..5
  BY ConstantsAssumption DEF FailFast
<1>9. ASSUME \/ \E r \in Regions : CloseRegion(r)
             \/ \E o \in Obligations, how \in {"Committed", "Aborted", "Leaked"} :
                   ResolveObligation(o, how)
             \/ FactoryReturns
      PROVE  UNCHANGED <<tstate, treason, cancelReason>>
  BY <1>9 DEF CloseRegion, ResolveObligation, FactoryReturns, taskVars, regionVars
<1> QED
  BY <1>2, <1>5, <1>6, <1>7, <1>8, <1>9 DEF Request, CancelTask, CancelSiblings

\* Completion joins the task's outcome into its region's.
LEMMA OutcomeExecute ==
    ASSUME IndInv, IndInv', OutcomeInv, Execute PROVE OutcomeInv' /\ CancelOnlyGrows
<1> USE DEF IndInv, TypeOK, RegionTypeOK, TaskTypeOK
<1>1. cancelReason' = cancelReason
  BY DEF Execute, StartRunning, Checkpoint, PollPending, PollReady, PollReadyUnwinds,
     GuardRetries, TaskCompleted, ScheduleReadyFinalizers, DrainEnds, regionVars
<1>2. \A r \in Regions : cancelReason'[r] >= cancelReason[r]
  BY <1>1, SeveritiesAreIntegers
<1>3. ASSUME NEW t \in Tasks, StartRunning(t) \/ Checkpoint(t) \/ PollPending(t)
      PROVE  OutcomeInv' /\ CancelOnlyGrows
  <2>1. UNCHANGED <<owner, treason, outcome, closeOutcome>>
    BY <1>3 DEF StartRunning, Checkpoint, PollPending, regionVars
  <2>2. \A u \in Tasks : tstate'[u] # tstate[u] =>
           \/ tstate[u] = "Created" /\ tstate'[u] = "Running"
           \/ tstate[u] = "CancelRequested" /\ tstate'[u] = "Cancelling"
    BY <1>3 DEF StartRunning, Checkpoint, PollPending
  <2>3. \A x \in Regions : closeOutcome'[x] >= closeOutcome[x]
    BY <2>1, SeveritiesAreIntegers
  <2>4. OutcomeInv'
    BY <2>1, <2>2, <2>3, OutcomeSame DEF OutcomeInv, UnaskedBlank
  <2>5. CancelOnlyGrows
    BY <1>2, <2>1, SeveritiesAreIntegers DEF CancelOnlyGrows
  <2> QED
    BY <2>4, <2>5
<1>4. ASSUME NEW t \in InArena, NEW final, TaskCompleted(t, final),
             outcome'[t] = final, \A u \in Tasks : u # t => outcome'[u] = outcome[u],
             outcome'[t] # outcome[t] /\ treason[t] # NoReason => final \in {Cancelled, Panicked}
      PROVE  OutcomeInv' /\ CancelOnlyGrows
  <2>1. /\ t \in Tasks /\ owner[t] \in Regions /\ owner' = owner
        /\ tstate' = [tstate EXCEPT ![t] = "Gone"]
        /\ treason' = [treason EXCEPT ![t] = NoReason]
        /\ closeOutcome' = [closeOutcome EXCEPT ![owner[t]] = join(@, final)]
    BY <1>4 DEF TaskCompleted, InArena, TreeConsistent, Present
  <2>2. UnaskedBlank' /\ Unfinished'
    BY <1>4, <2>1 DEF OutcomeInv, UnaskedBlank, Unfinished
  <2>3. /\ \A x \in Regions : closeOutcome'[x] >= closeOutcome[x]
        /\ closeOutcome'[owner[t]] >= final
    <3>1. final \in Outcomes \cup {NoOutcome}
      BY <1>4, <2>1
    <3>2. \A x \in Regions : closeOutcome[x] >= closeOutcome[x]
      BY SeveritiesAreIntegers
    <3> QED
      BY <2>1, <3>1, <3>2, JoinIsUpperBound
  <2>4. CloseOutcomeDominates'
    <3> SUFFICES ASSUME NEW u \in Tasks, tstate'[u] = "Gone"
                 PROVE  outcome'[u] <= closeOutcome'[owner[u]]
      BY <2>1 DEF CloseOutcomeDominates
    <3>0. \A x \in Regions : closeOutcome[x] \in Int /\ closeOutcome'[x] \in Int
      BY SeveritiesAreIntegers
    <3>1. outcome[u] \in Int /\ outcome'[u] \in Int
      BY SeveritiesAreIntegers
    <3>2. CASE u = t
      BY <1>4, <2>1, <2>3, <3>0, <3>1, <3>2
    <3>3. CASE u # t
      <4>1. tstate[u] = "Gone" /\ owner[u] \in Regions /\ outcome'[u] = outcome[u]
        BY <1>4, <2>1, <3>3 DEF OutcomeInv, Unfinished
      <4>2. outcome[u] <= closeOutcome[owner[u]]
        BY <4>1 DEF OutcomeInv, CloseOutcomeDominates
      <4> QED
        BY <2>3, <3>0, <3>1, <4>1, <4>2
    <3> QED
      BY <3>2, <3>3
  <2>5. CancelOnlyGrows
    <3>1. \A u \in Tasks : tstate'[u] # "Gone" => treason'[u] >= treason[u]
      BY <2>1, SeveritiesAreIntegers
    <3> QED
      BY <1>2, <1>4, <3>1 DEF CancelOnlyGrows
  <2> QED
    BY <2>2, <2>4, <2>5 DEF OutcomeInv
<1>5. ASSUME NEW t \in Tasks, NEW polled \in Outcomes, PollEnds(t, polled)
      PROVE  /\ t \in InArena
             /\ outcome'[t] = CompletedOutcome(t, polled)
             /\ \A u \in Tasks : u # t => outcome'[u] = outcome[u]
             /\ treason[t] # NoReason => outcome'[t] \in {Cancelled, Panicked}
  BY <1>5 DEF PollEnds, Live, InArena, CompletedOutcome, IsCancelling, OutcomeInv, UnaskedBlank,
     TaskStates
<1>6. ASSUME NEW t \in Tasks, NEW polled \in Outcomes, PollReady(t, polled)
      PROVE  OutcomeInv' /\ CancelOnlyGrows
  <2>1. PollEnds(t, polled) /\ TaskCompleted(t, CompletedOutcome(t, polled))
    BY <1>6 DEF PollReady
  <2>2. /\ t \in InArena
        /\ outcome'[t] = CompletedOutcome(t, polled)
        /\ \A u \in Tasks : u # t => outcome'[u] = outcome[u]
        /\ treason[t] # NoReason => CompletedOutcome(t, polled) \in {Cancelled, Panicked}
    BY <1>5, <2>1
  <2> HIDE DEF IndInv, TypeOK
  <2> QED
    BY <1>4, <2>1, <2>2
<1>7. ASSUME NEW t \in Tasks, NEW polled \in Outcomes, PollReadyUnwinds(t, polled)
      PROVE  OutcomeInv' /\ CancelOnlyGrows
  <2>1. /\ UNCHANGED <<owner, treason, closeOutcome>>
        /\ tstate' = [tstate EXCEPT ![t] = "Completed"]
        /\ PollEnds(t, polled)
    BY <1>7 DEF PollReadyUnwinds
  <2>2. OutcomeInv'
    BY <1>5, <2>1 DEF OutcomeInv, UnaskedBlank, Unfinished, CloseOutcomeDominates
  <2>3. CancelOnlyGrows
    BY <1>2, <1>5, <2>1, SeveritiesAreIntegers DEF CancelOnlyGrows
  <2> QED
    BY <2>2, <2>3
<1>8. ASSUME NEW t \in Tasks, GuardRetries(t)
      PROVE  OutcomeInv' /\ CancelOnlyGrows
  <2>1. t \in InArena /\ outcome' = outcome
    BY <1>8 DEF GuardRetries, InArena
  <2> QED
    BY <1>4, <1>8, <2>1 DEF GuardRetries
<1>9. CASE ScheduleReadyFinalizers \/ DrainEnds
  <2>1. UNCHANGED <<owner, treason, outcome, closeOutcome, tstate>>
    BY <1>9 DEF ScheduleReadyFinalizers, DrainEnds, regionVars, taskVars
  <2>2. OutcomeInv'
    BY <2>1 DEF OutcomeInv, UnaskedBlank, Unfinished, CloseOutcomeDominates
  <2>3. CancelOnlyGrows
    BY <1>2, <2>1, SeveritiesAreIntegers DEF CancelOnlyGrows
  <2> QED
    BY <2>2, <2>3
<1> QED
  BY <1>3, <1>6, <1>7, <1>8, <1>9 DEF Execute

\* The outcome invariant holds initially ...
LEMMA OutcomeInvInit == Init => OutcomeInv
  BY DEF Init, OutcomeInv, UnaskedBlank, Unfinished, CloseOutcomeDominates

\* ... and is preserved, while cancellation only grows.
LEMMA OutcomeStep ==
    IndInv /\ IndInv' /\ OutcomeInv /\ [Next]_vars => OutcomeInv' /\ [CancelOnlyGrows]_vars
<1>1. ASSUME OutcomeInv, UNCHANGED vars PROVE OutcomeInv'
  BY <1>1 DEF vars, regionVars, taskVars, OutcomeInv, UnaskedBlank, Unfinished,
     CloseOutcomeDominates
<1> QED
  BY <1>1, OutcomeAdvance, OutcomeCreate, OutcomeRequest, OutcomeExecute DEF Next

\* A region's close outcome is at least as severe as the outcome of every task
\* that ended in it (record_close_outcome, Outcome::join).
THEOREM CloseOutcomeIsJoin == Spec => []CloseOutcomeDominates
<1>1. OutcomeInv => CloseOutcomeDominates
  BY DEF OutcomeInv
<1> QED
  BY <1>1, OutcomeInvInit, OutcomeStep, Invariance, PTL DEF Spec

\* No step weakens a cancel reason and no task asked to cancel ends Ok or Err
\* (CancelReason::strengthen, TaskRecord::complete).
THEOREM CancellationIsMonotone == Spec => CancelMonotone
<1> QED
  BY OutcomeInvInit, OutcomeStep, Invariance, PTL DEF Spec, CancelMonotone

-----------------------------------------------------------------------------
(* No region is forgotten.                                                 *)

\* The regions nothing but the running critical section will advance.
Unsettled == {r \in Present : ~Settled(r)}

\* An obligation of the region outlived its holder: the tasks of a panicked
\* factory are reaped with what they hold.
Orphan(r) == \E o \in PendingIn(r) : holder[o] \notin rtasks[r]

\* A finalizing region has no child, and no task but its barrier.
FinalizingEmpty ==
    \A r \in Regions : rstate[r] = "Finalizing" =>
        children[r] = {} /\ \A t \in rtasks[r] : t = activeAsync[r]
\* Only a cancelled region has orphans.
OrphansCancelled == \A r \in Regions : Orphan(r) => cancelReason[r] # NoReason

\* NoStrandedRegion is about the end of a critical section; within it, what is
\* not settled is still to be advanced.
UnsettledQueued == Unsettled \subseteq todo

\* A leak that panics drops the rest of the queue, so that must be settled.
\* Most critical sections walk up one path.  The others cancel the subtree of
\* a region r: what had been cancelled before (C) stays settled, a leak can
\* only happen in r itself, and by then nothing is left below r.
Chain == \A x, y \in Unsettled : x = y
Fan(r, C) ==
    /\ \A x \in C : children[x] \subseteq C
    /\ C \cap Unsettled = {}
    /\ \A x \in Regions : Orphan(x) => x \in C \cup {r}
    /\ Unsettled \subseteq Subtree(r)
PathOrFan == Chain \/ \E r \in Regions, C \in SUBSET Regions : Fan(r, C)

AdvanceInv ==
    /\ FinalizingEmpty
    /\ OrphansCancelled
    /\ UnsettledQueued
    /\ PathOrFan

\* A step that moves no region to Finalizing and gives a finalizing one nothing
\* keeps it empty.
LEMMA EmptySame ==
    ASSUME FinalizingEmpty, activeAsync' = activeAsync,
           \A x \in Regions : rstate'[x] = "Finalizing" =>
              /\ rstate[x] = "Finalizing"
              /\ children'[x] \subseteq children[x] /\ rtasks'[x] \subseteq rtasks[x]
    PROVE  FinalizingEmpty'
  BY DEF FinalizingEmpty

\* Every step leaves a finalizing region with nothing but its barrier.
LEMMA EmptyStep ==
    ASSUME IndInv, OrderInv, FinalizingEmpty, Next
    PROVE  FinalizingEmpty'
<1> USE DEF IndInv, TypeOK, RegionTypeOK, FinalizerTypeOK
<1>1. CASE Create
  <2>1. PICK r \in Regions :
          \/ CreateRootRegion(r)
          \/ \E p \in Regions : AttachChild(p, r)
          \/ \E t \in Tasks : CreateTask(r, t)
          \/ \E t \in Tasks, o \in Obligations : CreateObligation(r, t, o)
          \/ \E f \in Finalizers, async \in BOOLEAN : RegisterFinalizer(r, f, async)
    BY <1>1 DEF Create, CreateChildRegion, OpenScope
  <2>2. activeAsync' = activeAsync
    BY <2>1 DEF CreateRootRegion, AttachChild, CreateTask, CreateObligation, RegisterFinalizer,
       finalizerVars
  <2>3. ASSUME NEW x \in Regions, rstate'[x] = "Finalizing"
        PROVE  rstate[x] = "Finalizing" /\ children'[x] = children[x] /\ rtasks'[x] = rtasks[x]
    BY <2>1, <2>3 DEF CreateRootRegion, AttachChild, CreateTask, CreateObligation,
       RegisterFinalizer, regionVars
  <2> QED
    BY <2>2, <2>3, EmptySame
<1>2. CASE Request
  <2>1. activeAsync' = activeAsync /\ children' = children
    BY <1>2 DEF Request, CloseRegion, CancelRequest, CancelAndClose, CancelTask, CancelSiblings,
       CancelTasks, ResolveObligation, FactoryReturns, FactoryPanics, finalizerVars, regionVars
  <2>2. \A x \in Regions : rtasks'[x] \subseteq rtasks[x]
    <3>1. CASE FactoryPanics
      BY <3>1 DEF FactoryPanics
    <3>2. CASE ~FactoryPanics
      BY <1>2, <3>2, SameTreeRequest DEF SameTree
    <3> QED
      BY <3>1, <3>2
  <2>3. \A x \in Regions : rstate'[x] = "Finalizing" => rstate[x] = "Finalizing"
    <3>1. finalizingRegions' = finalizingRegions
      BY <1>2 DEF Request, CloseRegion, CancelRequest, CancelAndClose, CancelTask, CancelSiblings,
         CancelTasks, ResolveObligation, FactoryReturns, FactoryPanics, finalizerVars
    <3>2. FinalizingListed /\ FinalizingListed'
      BY <1>2, OrderRequest DEF OrderInv
    <3> QED
      BY <3>1, <3>2 DEF FinalizingListed
  <2> QED
    BY <2>1, <2>2, <2>3, EmptySame
<1>3. ASSUME NEW t \in InArena, NEW final, TaskCompleted(t, final)
      PROVE  FinalizingEmpty'
  <2>1. /\ UNCHANGED <<rstate, children>>
        /\ rtasks' = [rtasks EXCEPT ![owner[t]] = rtasks[owner[t]] \ {t}]
        /\ activeAsync' = IF finalizerOf[t] # None /\ activeAsync[owner[t]] = t
                          THEN [activeAsync EXCEPT ![owner[t]] = None] ELSE activeAsync
    BY <1>3 DEF TaskCompleted
  <2> SUFFICES ASSUME NEW x \in Regions, rstate[x] = "Finalizing"
               PROVE  children'[x] = {} /\ \A u \in rtasks'[x] : u = activeAsync'[x]
    BY <2>1 DEF FinalizingEmpty
  <2>2. children[x] = {} /\ \A u \in rtasks[x] : u = activeAsync[x]
    BY DEF FinalizingEmpty
  <2>3. ASSUME NEW u \in rtasks'[x] PROVE u = activeAsync'[x]
    BY <2>1, <2>2, <2>3
  <2> QED
    BY <2>1, <2>2, <2>3
<1>4. CASE Execute
  <2>1. ASSUME NEW t \in Tasks, NEW polled \in Outcomes, PollReady(t, polled)
        PROVE  FinalizingEmpty'
    BY <1>3, <2>1 DEF PollReady, PollEnds, Live
  <2>2. ASSUME NEW t \in Tasks, GuardRetries(t)
        PROVE  FinalizingEmpty'
    BY <1>3, <2>2 DEF GuardRetries, InArena
  <2>3. CASE ~ \E t \in Tasks : GuardRetries(t) \/ \E polled \in Outcomes : PollReady(t, polled)
    <3>1. UNCHANGED <<rstate, children, rtasks, activeAsync>>
      BY <1>4, <2>3 DEF Execute, StartRunning, Checkpoint, PollPending, PollReadyUnwinds,
         ScheduleReadyFinalizers, DrainEnds, finalizerVars, regionVars
    <3> QED
      BY <3>1 DEF FinalizingEmpty
  <2> QED
    BY <2>1, <2>2, <2>3
<1>5. CASE Advance
  <2>1. PICK r \in Regions :
        \/ AdvanceToFinalizing(r)
        \/ AdvanceToDraining(r)
        \/ AdvanceLeaks(r)
        \/ AdvanceToClosed(r)
        \/ AdvanceStops(r)
        \/ \E panics \in BOOLEAN : RunSyncFinalizer(r, panics)
        \/ \E t \in Tasks : SpawnFinalizer(r, t)
    BY <1>5 DEF Advance
  <2>2. CASE AdvanceToFinalizing(r)
    BY <2>2 DEF AdvanceToFinalizing, ReadyToFinalize, FinalizingEmpty
  <2>3. CASE AdvanceToClosed(r)
    <3>1. \A x \in Regions : children'[x] \subseteq children[x]
      BY <2>3 DEF AdvanceToClosed, Unlisted
    <3> QED
      BY <2>3, <3>1, EmptySame DEF AdvanceToClosed
  <2>4. ASSUME NEW t \in Tasks, SpawnFinalizer(r, t) PROVE FinalizingEmpty'
    <3>1. /\ activeAsync[r] = None /\ rstate[r] = "Finalizing"
          /\ UNCHANGED <<rstate, children>>
          /\ rtasks' = [rtasks EXCEPT ![r] = rtasks[r] \cup {t}]
          /\ activeAsync' = [activeAsync EXCEPT ![r] = t]
      BY <2>4 DEF SpawnFinalizer, DrainVisits
    <3>2. rtasks[r] = {}
      BY <3>1, ConstantsAssumption DEF FinalizingEmpty
    <3> QED
      BY <3>1, <3>2 DEF FinalizingEmpty
  <2>5. CASE AdvanceToDraining(r) \/ AdvanceLeaks(r) \/ AdvanceStops(r)
             \/ \E panics \in BOOLEAN : RunSyncFinalizer(r, panics)
    <3>1. UNCHANGED <<children, rtasks, activeAsync>>
      BY <2>5 DEF AdvanceToDraining, AdvanceLeaks, AdvanceStops, RunSyncFinalizer,
         finalizerVars, regionVars
    <3>2. \A x \in Regions : rstate'[x] = "Finalizing" => rstate[x] = "Finalizing"
      BY <2>5 DEF AdvanceToDraining, AdvanceLeaks, AdvanceStops, RunSyncFinalizer, regionVars
    <3> QED
      BY <3>1, <3>2, EmptySame
  <2> QED
    BY <2>1, <2>2, <2>3, <2>4, <2>5
<1> QED
  BY <1>1, <1>2, <1>4, <1>5 DEF Next

\* No step but a reservation adds reserved obligations; a task that leaves its
\* region with none of them reserved orphans nothing.
LEMMA OrphanSame ==
    ASSUME NEW x \in Regions, Orphan(x)',
           \A o \in Obligations : ostate'[o] = "Reserved" =>
               ostate[o] = "Reserved" /\ holder'[o] = holder[o] /\ oregion'[o] = oregion[o],
           \A t \in rtasks[x] : t \in rtasks'[x]
               \/ \A o \in Obligations : ostate'[o] = "Reserved" => holder[o] # t
    PROVE  Orphan(x)
  BY DEF Orphan, PendingIn

\* Only a panicking factory makes orphans.
LEMMA OrphanStep ==
    ASSUME IndInv, Next, NEW x \in Regions, Orphan(x)', ~(FactoryPanics /\ x = factory)
    PROVE  Orphan(x)
<1> USE DEF IndInv, TypeOK, RegionTypeOK, ObligationTypeOK, TaskTypeOK
<1>1. ASSUME NEW t \in InArena, NEW final,
             TaskCompleted(t, final)
      PROVE  Orphan(x)
  <2>1. \A o \in Obligations : ostate'[o] = "Reserved" => ostate[o] = "Reserved" /\ holder[o] # t
    BY <1>1 DEF TaskCompleted, Pending, LeakedBy, LeakState
  <2>2. UNCHANGED <<holder, oregion>> /\ \A u \in rtasks[x] : u # t => u \in rtasks'[x]
    BY <1>1 DEF TaskCompleted
  <2> QED
    BY <2>1, <2>2, OrphanSame
<1>2. CASE Execute
  <2>1. ASSUME NEW t \in Tasks, NEW polled \in Outcomes, PollReady(t, polled)
        PROVE  Orphan(x)
    BY <1>1, <2>1 DEF PollReady, PollEnds, Live
  <2>2. ASSUME NEW t \in Tasks, GuardRetries(t)
        PROVE  Orphan(x)
    BY <1>1, <2>2 DEF GuardRetries, InArena
  <2>3. CASE ~ \E t \in Tasks : GuardRetries(t) \/ \E polled \in Outcomes : PollReady(t, polled)
    <3>1. UNCHANGED <<rtasks, holder, oregion>>
      BY <1>2, <2>3 DEF Execute, StartRunning, Checkpoint, PollPending, PollReadyUnwinds,
         ScheduleReadyFinalizers, DrainEnds, obligationVars, regionVars
    <3>2. \A o \in Obligations : ostate'[o] = "Reserved" => ostate[o] = "Reserved"
      BY <1>2, <2>3 DEF Execute, StartRunning, Checkpoint, PollPending, PollReadyUnwinds,
         ScheduleReadyFinalizers, DrainEnds, obligationVars
    <3> QED
      BY <3>1, <3>2, OrphanSame
  <2> QED
    BY <2>1, <2>2, <2>3
<1>3. CASE Advance
  <2>1. UNCHANGED <<holder, oregion>> /\ \A t \in rtasks[x] : t \in rtasks'[x]
    BY <1>3 DEF Advance, AdvanceToFinalizing, AdvanceToDraining, AdvanceLeaks, AdvanceToClosed,
       AdvanceStops, RunSyncFinalizer, SpawnFinalizer, obligationVars, regionVars
  <2>2. \A o \in Obligations : ostate'[o] = "Reserved" => ostate[o] = "Reserved"
    BY <1>3 DEF Advance, AdvanceToFinalizing, AdvanceToDraining, AdvanceLeaks, AdvanceToClosed,
       AdvanceStops, RunSyncFinalizer, SpawnFinalizer, obligationVars, LeakState
  <2> QED
    BY <2>1, <2>2, OrphanSame
<1>4. CASE Create
  <2>1. PICK r \in Regions :
          \/ CreateRootRegion(r)
          \/ \E p \in Regions : AttachChild(p, r)
          \/ \E t \in Tasks : CreateTask(r, t)
          \/ \E t \in Tasks, o \in Obligations : CreateObligation(r, t, o)
          \/ \E f \in Finalizers, async \in BOOLEAN : RegisterFinalizer(r, f, async)
    BY <1>4 DEF Create, CreateChildRegion, OpenScope
  <2>2. CASE \E t \in Tasks, o \in Obligations : CreateObligation(r, t, o)
    <3>1. PICK t \in Tasks, o \in Obligations : CreateObligation(r, t, o)
      BY <2>2
    <3>2. /\ t \in rtasks[r] /\ rtasks' = rtasks
          /\ holder' = [holder EXCEPT ![o] = t] /\ oregion' = [oregion EXCEPT ![o] = r]
          /\ ostate' = [ostate EXCEPT ![o] = "Reserved"]
      BY <3>1 DEF CreateObligation, TreeConsistent
    <3> QED
      BY <3>2 DEF Orphan, PendingIn
  <2>3. CASE ~ \E t \in Tasks, o \in Obligations : CreateObligation(r, t, o)
    <3>1. UNCHANGED <<ostate, holder, oregion>> /\ \A t \in rtasks[x] : t \in rtasks'[x]
      BY <2>1, <2>3 DEF CreateRootRegion, AttachChild, CreateTask, RegisterFinalizer,
         obligationVars, regionVars
    <3> QED
      BY <3>1, OrphanSame
  <2> QED
    BY <2>2, <2>3
<1>5. CASE Request
  <2>1. UNCHANGED <<holder, oregion>>
    BY <1>5 DEF Request, CloseRegion, CancelRequest, CancelAndClose, CancelTask, CancelSiblings,
       CancelTasks, ResolveObligation, FactoryReturns, FactoryPanics, obligationVars
  <2>2. \A o \in Obligations : ostate'[o] = "Reserved" => ostate[o] = "Reserved"
    BY <1>5 DEF Request, CloseRegion, CancelRequest, CancelAndClose, CancelTask, CancelSiblings,
       CancelTasks, ResolveObligation, FactoryReturns, FactoryPanics, obligationVars
  <2>3. rtasks'[x] = rtasks[x]
    <3>1. CASE FactoryPanics
      BY <3>1 DEF FactoryPanics
    <3>2. CASE ~FactoryPanics
      BY <1>5, <3>2, SameTreeRequest DEF SameTree
    <3> QED
      BY <3>1, <3>2
  <2> QED
    BY <2>1, <2>2, <2>3, OrphanSame
<1> QED
  BY <1>2, <1>3, <1>4, <1>5 DEF Next

\* A cancel reason is never withdrawn, and a panicking factory's region has one.
LEMMA ReasonStays ==
    ASSUME IndInv, Next, NEW x \in Regions,
           cancelReason[x] # NoReason \/ (FactoryPanics /\ x = factory /\ x \in Present)
    PROVE  cancelReason'[x] # NoReason
<1> USE DEF IndInv, TypeOK, RegionTypeOK
<1>1. ASSUME NEW r \in Regions, NEW kind \in 0..5, NEW also, CancelSubtree(r, kind, also)
      PROVE  /\ cancelReason[x] # NoReason => cancelReason'[x] # NoReason
             /\ x = r /\ x \in Present => cancelReason'[x] # NoReason
  <2>1. /\ strengthen(cancelReason[x], kind) # NoReason
        /\ strengthen(cancelReason[x], ParentCancelled) # NoReason
    BY DEF strengthen, NoReason, ParentCancelled, Reasons
  <2>2. r \in Subtree(r)
    BY SubtreeClosed
  <2> QED
    BY <1>1, <2>1, <2>2 DEF CancelSubtree
<1>2. ASSUME NEW r \in Regions, NEW kind \in CancelKinds,
             CancelRequest(r, kind) \/ CancelAndClose(r, kind)
      PROVE  cancelReason'[x] # NoReason
  <2>1. kind \in 0..5 /\ ~FactoryPanics
    BY <1>2, ConstantsAssumption DEF CancelRequest, CancelAndClose, FactoryPanics
  <2> QED
    BY <1>1, <1>2, <2>1 DEF CancelRequest, CancelAndClose
<1>3. CASE FactoryPanics
  <2>1. factory \in Regions /\ FailFast \in 0..5 /\ CancelSubtree(factory, FailFast, {factory})
    BY <1>3 DEF FactoryPanics, ControlTypeOK, FailFast
  <2> QED
    BY <1>1, <2>1
<1>4. ASSUME ~FactoryPanics,
             ~ \E r \in Regions, kind \in CancelKinds : CancelRequest(r, kind) \/ CancelAndClose(r, kind)
      PROVE  cancelReason'[x] # NoReason
  <2>1. CASE Advance
    BY <1>4, <2>1 DEF Advance, AdvanceToFinalizing, AdvanceToDraining, AdvanceLeaks,
       AdvanceToClosed, AdvanceStops, RunSyncFinalizer, SpawnFinalizer, regionVars
  <2>2. CASE Create
    BY <1>4, <2>2 DEF Create, CreateRootRegion, CreateChildRegion, OpenScope, AttachChild,
       CreateTask, CreateObligation, RegisterFinalizer, regionVars
  <2>3. CASE Request
    BY <1>4, <2>3 DEF Request, CloseRegion, CancelTask, CancelSiblings, CancelTasks,
       ResolveObligation, FactoryReturns, regionVars
  <2>4. CASE Execute
    BY <1>4, <2>4 DEF Execute, StartRunning, Checkpoint, PollPending, PollReady,
       PollReadyUnwinds, GuardRetries, TaskCompleted, ScheduleReadyFinalizers, DrainEnds,
       regionVars
  <2> QED
    BY <2>1, <2>2, <2>3, <2>4 DEF Next
<1> QED
  BY <1>2, <1>3, <1>4

\* So orphans are in cancelled regions only.
LEMMA OrphansStep ==
    ASSUME IndInv, IndInv', OrphansCancelled, Next
    PROVE  OrphansCancelled'
<1> SUFFICES ASSUME NEW x \in Regions, Orphan(x)' PROVE cancelReason'[x] # NoReason
  BY DEF OrphansCancelled
<1>1. x \in Present'
  BY DEF Orphan, PendingIn, IndInv, ObligationAccounting
<1>2. CASE FactoryPanics /\ x = factory
  <2>1. Present' = Present
    BY <1>2, CancelSubtreeKeepsPresent DEF FactoryPanics, IndInv, TypeOK, ControlTypeOK
  <2> QED
    BY <1>1, <1>2, <2>1, ReasonStays
<1>3. CASE ~(FactoryPanics /\ x = factory)
  BY <1>3, OrphanStep, ReasonStays DEF OrphansCancelled
<1> QED
  BY <1>2, <1>3

\* What Settled reads of region x is as before.
Untouched(x) ==
    /\ rstate'[x] = rstate[x] /\ rtasks'[x] = rtasks[x] /\ children'[x] = children[x]
    /\ activeAsync'[x] = activeAsync[x] /\ AsyncOnTop(x)' = AsyncOnTop(x)
    /\ x \in finalizingRegions => x \in finalizingRegions'

\* A region stays settled while it is open, or while nothing of it changes.
LEMMA SettledKept ==
    ASSUME NEW x \in Present', rstate'[x] = "Open" \/ (Untouched(x) /\ x \notin Unsettled)
    PROVE  x \notin Unsettled'
  BY DEF Unsettled, Settled, Untouched, Present

\* Between critical sections everything is settled.
LEMMA QuietSettled ==
    ASSUME UnsettledQueued, todo = {}
    PROVE  Unsettled = {}
  BY DEF UnsettledQueued

\* A step that leaves at most one region unsettled walks up one path.
LEMMA OneUnsettled ==
    ASSUME NEW r, Unsettled' \subseteq {r}
    PROVE  Chain'
  BY DEF Chain

\* The subtree of a region without children is that region.
LEMMA SubtreeLeaf ==
    ASSUME TypeOK, NEW r \in Regions, children[r] = {}
    PROVE  Subtree(r) = {r}
  BY DEF Subtree

\* The parent of a region of a subtree, but its root, is in it.
LEMMA SubtreeParent ==
    ASSUME IndInv, NEW q \in Regions, NEW x \in Subtree(q), x # q
    PROVE  parent[x] \in Subtree(q)
<1> SUFFICES ASSUME parent[x] \notin Subtree(q) PROVE FALSE
  OBVIOUS
<1> DEFINE S == Subtree(q) \ {x}
<1>1. q \in S /\ S \in SUBSET Regions
  BY SubtreeClosed DEF IndInv, Subtree
<1>2. \A y \in S : children[y] \subseteq S
  <2> SUFFICES ASSUME NEW y \in S, NEW c \in children[y] PROVE c \in S
    OBVIOUS
  <2>1. c \in Subtree(q) /\ y \in Regions
    BY <1>1, SubtreeClosed DEF IndInv
  <2>2. parent[c] = y
    BY <2>1 DEF IndInv, TreeConsistent
  <2> QED
    BY <2>1, <2>2
<1>3. x \in S
  BY <1>1, <1>2 DEF Subtree
<1> QED
  BY <1>3

\* Removing a leaf takes nothing else from a subtree.
LEMMA SubtreeShrinks ==
    ASSUME TypeOK, NEW q \in Regions, NEW r \in Regions, children[r] = {}, q # r,
           \A y \in Regions : children[y] \subseteq children'[y] \cup {r}
    PROVE  Subtree(q) \ {r} \subseteq Subtree(q)'
<1> SUFFICES ASSUME NEW x \in Subtree(q), x # r, NEW S \in SUBSET Regions,
                    q \in S, \A y \in S : children'[y] \subseteq S
             PROVE  x \in S
  BY DEF Subtree
<1> DEFINE T == S \cup {r}
<1>1. T \in SUBSET Regions /\ q \in T
  OBVIOUS
<1>2. \A y \in T : children[y] \subseteq T
  OBVIOUS
<1>3. x \in T
  BY <1>1, <1>2 DEF Subtree
<1> QED
  BY <1>3

\* Settling regions of an unchanged tree leaves the path or the fan as it was.
LEMMA PathOrFanShrinks ==
    ASSUME PathOrFan, children' = children,
           Unsettled' \subseteq Unsettled, \A x \in Regions : Orphan(x)' => Orphan(x)
    PROVE  PathOrFan'
<1>1. Chain => Chain'
  BY DEF Chain
<1>2. ASSUME NEW r \in Regions, NEW C \in SUBSET Regions, Fan(r, C)
      PROVE  Fan(r, C)'
  <2>1. Subtree(r)' = Subtree(r)
    BY DEF Subtree
  <2> QED
    BY <1>2, <2>1 DEF Fan
<1> QED
  BY <1>1, <1>2 DEF PathOrFan

\* One iteration of advance_region_state for r changes what Settled reads of r
\* and, when r closes, of its parent.
LEMMA AdvanceTouches ==
    ASSUME IndInv, OrderInv, NEW r \in Regions, NEW x \in Regions, x # r,
           \/ AdvanceToFinalizing(r)
           \/ AdvanceToDraining(r)
           \/ AdvanceLeaks(r)
           \/ AdvanceToClosed(r) /\ parent[r] # x
           \/ AdvanceStops(r)
           \/ \E panics \in BOOLEAN : RunSyncFinalizer(r, panics)
           \/ \E t \in Tasks : SpawnFinalizer(r, t)
    PROVE  Untouched(x)
<1> USE DEF IndInv, TypeOK, RegionTypeOK, FinalizerTypeOK
<1>1. /\ rstate'[x] = rstate[x] /\ rtasks'[x] = rtasks[x] /\ activeAsync'[x] = activeAsync[x]
      /\ x \in finalizingRegions => x \in finalizingRegions'
      /\ finalizers'[x] = finalizers[x] /\ fasync' = fasync
  BY DEF AdvanceToFinalizing, AdvanceToDraining, AdvanceLeaks, AdvanceToClosed, AdvanceStops,
     RunSyncFinalizer, SpawnFinalizer, finalizerVars, regionVars
<1>2. children'[x] = children[x]
  BY DEF AdvanceToFinalizing, AdvanceToDraining, AdvanceLeaks, AdvanceToClosed, Unlisted,
     AdvanceStops, RunSyncFinalizer, SpawnFinalizer, finalizerVars, regionVars
<1>3. AsyncOnTop(x)' = AsyncOnTop(x)
  BY <1>1 DEF AsyncOnTop, Top
<1> QED
  BY <1>1, <1>2, <1>3 DEF Untouched

\* A finalizing region whose next finalizer is a sync one, or that has none left
\* and no task, depends on the running critical section.
LEMMA FinalizingUnsettled ==
    ASSUME IndInv, NEW r \in Regions, NoBarrier(r),
           SyncOnTop(r) \/ finalizers[r] = << >>
    PROVE  r \in Unsettled
<1>1. r \in Present /\ ~AsyncOnTop(r)
  BY DEF NoBarrier, Present, SyncOnTop, AsyncOnTop
<1>2. activeAsync[r] \notin rtasks[r]
  BY ConstantsAssumption DEF NoBarrier, IndInv, TypeOK, RegionTypeOK
<1> QED
  BY <1>1, <1>2 DEF Unsettled, Settled, NoBarrier

\* advance_region_state stops at a settled region only.
LEMMA StopsSettled ==
    ASSUME IndInv, OrderInv, FinalizingEmpty, NEW r \in Regions, AdvanceStops(r)
    PROVE  r \notin Unsettled
<1> USE DEF IndInv, TypeOK, RegionTypeOK, FinalizerTypeOK
<1>1. CASE rstate[r] # "Finalizing"
  BY <1>1 DEF AdvanceStops, ReadyToFinalize, Unsettled, Settled
<1>2. CASE rstate[r] = "Finalizing" /\ activeAsync[r] # None
  <2>1. activeAsync[r] \in rtasks[r]
    BY <1>2 DEF FinalizersTracked, BarriersOwn, TreeConsistent
  <2> QED
    BY <1>2, <2>1 DEF Unsettled, Settled
<1>3. CASE NoBarrier(r) /\ finalizers[r] # << >>
  <2>1. AsyncOnTop(r)
    BY <1>3 DEF AdvanceStops, SyncOnTop, AsyncOnTop
  <2>2. r \in finalizingRegions
    BY <1>3 DEF NoBarrier, OrderInv, FinalizingListed
  <2> QED
    BY <1>3, <2>1, <2>2 DEF Unsettled, Settled, NoBarrier
<1>4. CASE NoBarrier(r) /\ finalizers[r] = << >>
  <2>1. children[r] = {} /\ rtasks[r] = {}
    BY <1>4, ConstantsAssumption DEF NoBarrier, FinalizingEmpty
  <2>2. pending[r] > 0
    BY <1>4, <2>1 DEF AdvanceStops, CanCompleteClose
  <2>3. PendingIn(r) # {}
    <3>1. pending[r] = Cardinality(PendingIn(r))
      BY DEF ObligationAccounting
    <3>2. Cardinality(PendingIn(r)) = 0 <=> PendingIn(r) = {}
      BY PendingInFinite, FS_EmptySet
    <3> QED
      BY <2>2, <3>1, <3>2
  <2> QED
    BY <1>4, <2>1, <2>2, <2>3 DEF AdvanceStops, LeaksAtClose
<1> QED
  BY <1>1, <1>2, <1>3, <1>4 DEF NoBarrier

\* An iteration that closes nothing unsettles nothing, and what it drops from
\* the queue is settled, unless a leak panics.
LEMMA AdvanceUnsettles ==
    ASSUME IndInv, OrderInv, FinalizingEmpty, UnsettledQueued, NEW r \in Regions,
           \/ AdvanceToFinalizing(r)
           \/ AdvanceToDraining(r)
           \/ AdvanceLeaks(r)
           \/ AdvanceStops(r)
           \/ \E panics \in BOOLEAN : RunSyncFinalizer(r, panics)
           \/ \E t \in Tasks : SpawnFinalizer(r, t)
    PROVE  /\ Unsettled' \subseteq Unsettled
           /\ UnsettledQueued' \/ (AdvanceLeaks(r) /\ Response(PendingIn(r)) = "Panic")
<1> USE DEF IndInv, TypeOK, RegionTypeOK
<1>1. Present' = Present
  <2>1. CASE \E t \in Tasks : SpawnFinalizer(r, t)
    BY <2>1 DEF SpawnFinalizer, Present
  <2>2. CASE ~ \E t \in Tasks : SpawnFinalizer(r, t)
    BY <2>2, SameTreeAdvance DEF SameTree
  <2> QED
    BY <2>1, <2>2
<1>2. ASSUME NEW x \in Unsettled', x # r PROVE x \in Unsettled
  <2>1. x \in Present' /\ x \in Regions
    BY <1>1 DEF Unsettled, Present
  <2>2. Untouched(x)
    BY <1>2, <2>1, AdvanceTouches
  <2> QED
    BY <2>1, <2>2, SettledKept
<1>3. \A x \in Unsettled : x # r => x \in todo' \/ (AdvanceLeaks(r) /\ Response(PendingIn(r)) = "Panic")
  <2>1. \A x \in todo : x # r => x \in todo' \/ (AdvanceLeaks(r) /\ Response(PendingIn(r)) = "Panic")
    BY DEF AdvanceToFinalizing, AdvanceToDraining, AdvanceLeaks, AdvanceStops, RunSyncFinalizer,
       SpawnFinalizer, control
  <2> QED
    BY <2>1 DEF UnsettledQueued
<1>4. r \in Unsettled' => r \in Unsettled /\ r \in todo'
  <2>1. CASE AdvanceToFinalizing(r)
    BY <2>1 DEF AdvanceToFinalizing, ReadyToFinalize, Unsettled, Settled, Present, control
  <2>2. CASE AdvanceToDraining(r)
    BY <2>2 DEF AdvanceToDraining, ReadyToDrain, Unsettled, Settled
  <2>3. CASE AdvanceLeaks(r)
    BY <2>3, FinalizingUnsettled DEF AdvanceLeaks, LeaksAtClose
  <2>4. CASE AdvanceStops(r)
    <3>1. Unsettled' = Unsettled
      BY <2>4 DEF AdvanceStops, Unsettled, Settled, Present, AsyncOnTop, Top, regionVars,
         finalizerVars
    <3> QED
      BY <2>4, <3>1, StopsSettled
  <2>5. ASSUME NEW panics \in BOOLEAN, RunSyncFinalizer(r, panics)
        PROVE  r \in Unsettled /\ r \in todo'
    <3>1. NoBarrier(r) /\ SyncOnTop(r)
      BY <2>5 DEF RunSyncFinalizer, DrainVisits, NoBarrier, OrderInv, FinalizingListed
    <3>2. todo' = todo
      BY <2>5 DEF RunSyncFinalizer, control
    <3> QED
      BY <3>1, <3>2, FinalizingUnsettled DEF UnsettledQueued
  <2>6. ASSUME NEW t \in Tasks, SpawnFinalizer(r, t)
        PROVE  r \notin Unsettled'
    <3>1. /\ rstate'[r] = "Finalizing" /\ activeAsync'[r] = t /\ t \in rtasks'[r]
      BY <2>6 DEF SpawnFinalizer, FinalizerTypeOK
    <3> QED
      BY <3>1 DEF Unsettled, Settled
  <2> QED
    BY <2>1, <2>2, <2>3, <2>4, <2>5, <2>6
<1> QED
  BY <1>2, <1>3, <1>4 DEF UnsettledQueued

\* A leak that panics drops the rest of the queue, and by then only its own
\* region is left unsettled.
LEMMA PanicAlone ==
    ASSUME IndInv, AdvanceInv, NEW r \in Regions, AdvanceLeaks(r)
    PROVE  Unsettled \subseteq {r}
<1> USE DEF IndInv, TypeOK, RegionTypeOK
<1>1. r \in Unsettled
  BY FinalizingUnsettled DEF AdvanceLeaks, LeaksAtClose
<1>2. Orphan(r)
  BY DEF AdvanceLeaks, LeaksAtClose, Orphan
<1>3. CASE Chain
  BY <1>1, <1>3 DEF Chain
<1>4. ASSUME NEW q \in Regions, NEW C \in SUBSET Regions, Fan(q, C)
      PROVE  Unsettled \subseteq {r}
  <2>1. r = q
    BY <1>1, <1>2, <1>4 DEF Fan
  <2>2. children[r] = {}
    BY DEF AdvanceLeaks, LeaksAtClose, NoBarrier, AdvanceInv, FinalizingEmpty
  <2>3. Subtree(q) = {r}
    BY <2>1, <2>2, SubtreeLeaf
  <2> QED
    BY <1>4, <2>3 DEF Fan
<1> QED
  BY <1>3, <1>4 DEF AdvanceInv, PathOrFan

\* A region that closes is settled with, and may unsettle its parent, which is
\* advanced next.
LEMMA CloseUnsettles ==
    ASSUME IndInv, IndInv', OrderInv, AdvanceInv, NEW r \in Regions, AdvanceToClosed(r),
           \A x \in Regions : Orphan(x)' => Orphan(x)
    PROVE  UnsettledQueued' /\ PathOrFan'
<1> USE DEF IndInv, TypeOK, RegionTypeOK
<1>1. r \in Unsettled /\ r \in Present
  BY FinalizingUnsettled DEF AdvanceToClosed, CanCompleteClose, Unsettled
<1>2. /\ children[r] = {} /\ children' = Unlisted(r)
      /\ rstate' = [rstate EXCEPT ![r] = "Closed"]
      /\ todo' = (todo \ {r}) \cup ({parent[r]} \ {None})
  BY DEF AdvanceToClosed, CanCompleteClose
<1>3. \A y \in Regions : children'[y] \subseteq children[y]
                         /\ children[y] \subseteq children'[y] \cup {r}
  BY <1>2 DEF Unlisted
<1>4. Present' = Present \ {r}
  BY <1>2 DEF Present
<1>5. ASSUME NEW x \in Unsettled', x # parent[r] PROVE x \in Unsettled /\ x # r
  <2>1. x \in Present' /\ x \in Regions /\ x # r
    BY <1>4 DEF Unsettled, Present
  <2>2. Untouched(x)
    BY <1>5, <2>1, AdvanceTouches
  <2> QED
    BY <2>1, <2>2, SettledKept
<1>6. parent[r] \in Unsettled' => parent[r] # None /\ parent[r] # r
  BY <1>4, ConstantsAssumption DEF Unsettled, Present
<1>7. UnsettledQueued'
  BY <1>2, <1>5, <1>6 DEF UnsettledQueued, AdvanceInv
<1>8. ASSUME Unsettled \subseteq {r} PROVE PathOrFan'
  <2>1. Unsettled' \subseteq {parent[r]}
    BY <1>5, <1>8
  <2> QED
    BY <2>1, OneUnsettled DEF PathOrFan
<1>9. CASE Chain
  <2>1. Unsettled \subseteq {r}
    BY <1>1, <1>9 DEF Chain
  <2> QED
    BY <1>7, <1>8, <2>1
<1>10. ASSUME NEW q \in Regions, NEW C \in SUBSET Regions, Fan(q, C)
       PROVE  PathOrFan'
  <2>1. CASE q = r
    <3>1. Subtree(q) = {r}
      BY <1>2, <2>1, SubtreeLeaf
    <3> QED
      BY <1>8, <1>10, <3>1 DEF Fan
  <2>2. CASE q # r
    <3>1. r \in Subtree(q) /\ r \notin C
      BY <1>1, <1>10 DEF Fan
    <3>2. parent[r] \in Subtree(q)
      BY <2>2, <3>1, SubtreeParent
    <3>3. parent[r] \notin C
      BY <1>1, <1>10, <3>1 DEF Fan, TreeConsistent
    <3>4. Subtree(q) \ {r} \subseteq Subtree(q)'
      BY <1>2, <1>3, <2>2, SubtreeShrinks
    <3>5. \A x \in C : children'[x] \subseteq C
      BY <1>3, <1>10 DEF Fan
    <3>6. C \cap Unsettled' = {}
      BY <1>5, <1>10, <3>3 DEF Fan
    <3>7. \A x \in Regions : Orphan(x)' => x \in C \cup {q}
      BY <1>10 DEF Fan
    <3>8. Unsettled' \subseteq Subtree(q)'
      BY <1>5, <1>6, <1>10, <3>2, <3>4 DEF Fan
    <3>9. Fan(q, C)'
      BY <3>5, <3>6, <3>7, <3>8 DEF Fan
    <3> QED
      BY <3>9 DEF PathOrFan
  <2> QED
    BY <2>1, <2>2
<1> QED
  BY <1>7, <1>9, <1>10 DEF AdvanceInv, PathOrFan

\* Advancing a region keeps what is unsettled queued.
LEMMA QueuedAdvance ==
    ASSUME IndInv, IndInv', OrderInv, AdvanceInv, Advance,
           \A x \in Regions : Orphan(x)' => Orphan(x)
    PROVE  UnsettledQueued' /\ PathOrFan'
<1>1. PICK r \in Regions :
        \/ AdvanceToFinalizing(r)
        \/ AdvanceToDraining(r)
        \/ AdvanceLeaks(r)
        \/ AdvanceToClosed(r)
        \/ AdvanceStops(r)
        \/ \E panics \in BOOLEAN : RunSyncFinalizer(r, panics)
        \/ \E t \in Tasks : SpawnFinalizer(r, t)
  BY DEF Advance
<1>2. CASE AdvanceToClosed(r)
  BY <1>2, CloseUnsettles
<1>3. CASE ~AdvanceToClosed(r)
  <2>1. /\ Unsettled' \subseteq Unsettled
        /\ UnsettledQueued' \/ (AdvanceLeaks(r) /\ Response(PendingIn(r)) = "Panic")
    BY <1>1, <1>3, AdvanceUnsettles DEF AdvanceInv
  <2>2. children' = children
    BY <1>1, <1>3 DEF AdvanceToFinalizing, AdvanceToDraining, AdvanceLeaks, AdvanceStops,
       RunSyncFinalizer, SpawnFinalizer, regionVars
  <2>3. PathOrFan'
    BY <2>1, <2>2, PathOrFanShrinks DEF AdvanceInv
  <2>4. ASSUME AdvanceLeaks(r), Response(PendingIn(r)) = "Panic"
        PROVE  UnsettledQueued'
    <3>1. todo' = {r}
      BY <2>4 DEF AdvanceLeaks
    <3> QED
      BY <2>1, <2>4, <3>1, PanicAlone DEF UnsettledQueued
  <2> QED
    BY <2>1, <2>3, <2>4
<1> QED
  BY <1>2, <1>3

\* Creating adds to open regions only.
LEMMA QueuedCreate ==
    ASSUME IndInv, OrderInv, UnsettledQueued, Create
    PROVE  Unsettled' = {}
<1> USE DEF IndInv, TypeOK, RegionTypeOK, FinalizerTypeOK
<1>1. PICK r \in Regions :
        \/ CreateRootRegion(r)
        \/ \E p \in Regions : CreateChildRegion(p, r) \/ OpenScope(p, r)
        \/ \E t \in Tasks : CreateTask(r, t)
        \/ \E t \in Tasks, o \in Obligations : CreateObligation(r, t, o)
        \/ \E f \in Finalizers, async \in BOOLEAN : RegisterFinalizer(r, f, async)
  BY DEF Create
<1>2. Unsettled = {}
  <2>1. todo = {}
    BY <1>1 DEF CreateRootRegion, CreateChildRegion, OpenScope, CreateTask, CreateObligation,
       RegisterFinalizer, SchedulerMayRun, Idle
  <2> QED
    BY <2>1, QuietSettled
<1> SUFFICES ASSUME NEW x \in Unsettled' PROVE FALSE
  OBVIOUS
<1>3. x \in Present' /\ x \in Regions /\ rstate'[x] # "Open"
  BY SettledKept DEF Unsettled, Present
<1>4. /\ rstate'[x] = rstate[x] /\ activeAsync'[x] = activeAsync[x]
      /\ finalizingRegions' = finalizingRegions
  BY <1>1, <1>3 DEF CreateRootRegion, CreateChildRegion, OpenScope, AttachChild, CreateTask,
     CreateObligation, RegisterFinalizer, finalizerVars, regionVars
<1>5. children'[x] = children[x] /\ rtasks'[x] = rtasks[x] /\ finalizers'[x] = finalizers[x]
  BY <1>1, <1>3 DEF CreateRootRegion, CreateChildRegion, OpenScope, AttachChild, CreateTask,
     CreateObligation, RegisterFinalizer, finalizerVars, regionVars
<1>6. AsyncOnTop(x)' = AsyncOnTop(x)
  <2>1. CASE fasync' = fasync
    BY <1>5, <2>1 DEF AsyncOnTop, Top
  <2>2. CASE finalizers[x] = << >>
    BY <1>5, <2>2 DEF AsyncOnTop
  <2>3. ASSUME NEW f \in Finalizers, NEW async \in BOOLEAN, RegisterFinalizer(r, f, async),
               finalizers[x] # << >>
        PROVE  AsyncOnTop(x)' = AsyncOnTop(x)
    <3> DEFINE n == Len(finalizers[x])
    <3>1. n \in 1..n /\ finalizers[x][n] \in Finalizers
      BY <1>3, <2>3
    <3>2. fstate[Top(x)] = "Pending" /\ Top(x) \in Finalizers
      <4>1. fstate[finalizers[x][n]] = "Pending"
        BY <1>3, <3>1 DEF OrderInv, StacksAscend
      <4> QED
        BY <3>1, <4>1 DEF Top
    <3>3. Top(x) # f
      BY <2>3, <3>2 DEF RegisterFinalizer
    <3>4. fasync'[Top(x)] = fasync[Top(x)]
      BY <2>3, <3>2, <3>3 DEF RegisterFinalizer
    <3> QED
      BY <1>5, <3>4 DEF AsyncOnTop, Top
  <2> QED
    BY <1>1, <2>1, <2>2, <2>3 DEF CreateRootRegion, CreateChildRegion, OpenScope, AttachChild,
       CreateTask, CreateObligation, finalizerVars
<1> QED
  BY <1>2, <1>3, <1>4, <1>5, <1>6, SettledKept DEF Untouched

\* task_completed advances the region it takes the task from.
LEMMA QueuedCompleted ==
    ASSUME IndInv, UnsettledQueued, todo = {}, NEW t \in InArena, NEW final,
           TaskCompleted(t, final)
    PROVE  Unsettled' \subseteq {owner[t]} /\ todo' = {owner[t]}
<1> USE DEF IndInv, TypeOK, RegionTypeOK, FinalizerTypeOK
<1>1. Unsettled = {} /\ todo' = {owner[t]}
  BY QuietSettled DEF TaskCompleted
<1>2. ASSUME NEW x \in Unsettled', x # owner[t] PROVE FALSE
  <2>1. x \in Present' /\ x \in Regions
    BY DEF Unsettled, Present
  <2>2. /\ rstate' = rstate /\ children' = children /\ finalizers' = finalizers
        /\ fasync' = fasync /\ finalizingRegions' = finalizingRegions
    BY DEF TaskCompleted
  <2>3. rtasks'[x] = rtasks[x] /\ activeAsync'[x] = activeAsync[x]
    BY <1>2, <2>1 DEF TaskCompleted
  <2>4. Untouched(x)
    BY <2>2, <2>3 DEF Untouched, AsyncOnTop, Top
  <2> QED
    BY <1>1, <2>1, <2>4, SettledKept
<1> QED
  BY <1>1, <1>2

\* Nothing that Settled reads changes.
LEMMA SettledSame ==
    ASSUME UNCHANGED <<rstate, children, rtasks, activeAsync, finalizers, fasync,
                       finalizingRegions>>
    PROVE  Unsettled' = Unsettled
  BY DEF Unsettled, Settled, Present, AsyncOnTop, Top

\* No step of the worker unsettles a region but the one it advances.
LEMMA QueuedExecute ==
    ASSUME IndInv, UnsettledQueued, Execute
    PROVE  UnsettledQueued' /\ Chain'
<1>1. ASSUME NEW t \in Tasks, GuardRetries(t) \/ \E polled \in Outcomes : PollReady(t, polled)
      PROVE  UnsettledQueued' /\ Chain'
  <2>1. todo = {} /\ t \in InArena
    BY <1>1 DEF GuardRetries, PollReady, PollEnds, SchedulerMayRun, Idle, Live, InArena
  <2>2. PICK final : TaskCompleted(t, final)
    BY <1>1 DEF GuardRetries, PollReady
  <2>3. Unsettled' \subseteq {owner[t]} /\ todo' = {owner[t]}
    BY <2>1, <2>2, QueuedCompleted
  <2> QED
    BY <2>3, OneUnsettled DEF UnsettledQueued
<1>2. CASE ~ \E t \in Tasks : GuardRetries(t) \/ \E polled \in Outcomes : PollReady(t, polled)
  <2>1. todo = {}
    BY <1>2 DEF Execute, StartRunning, Checkpoint, PollPending, PollReadyUnwinds, PollEnds,
       ScheduleReadyFinalizers, DrainEnds, SchedulerMayRun, Idle
  <2>2. UNCHANGED <<rstate, children, rtasks, activeAsync, finalizers, fasync, finalizingRegions>>
    BY <1>2 DEF Execute, StartRunning, Checkpoint, PollPending, PollReadyUnwinds,
       ScheduleReadyFinalizers, DrainEnds, regionVars, finalizerVars
  <2>3. Unsettled' = {}
    BY <2>1, <2>2, SettledSame, QuietSettled
  <2> QED
    BY <2>3 DEF UnsettledQueued, Chain
<1> QED
  BY <1>1, <1>2

\* cancel_request queues every region of the subtree that has nothing to wait
\* for.  Where r was cancelled before, all below it was, and only r is touched.
LEMMA QueuedCancel ==
    ASSUME IndInv, CancelInv, OrphansCancelled, UnsettledQueued, todo = {},
           NEW r \in Regions, NEW kind, NEW also, CancelSubtree(r, kind, also),
           UNCHANGED <<children, activeAsync, finalizers, fasync, finalizingRegions>>,
           \A x \in Regions : rtasks'[x] = rtasks[x] \/ (x = r /\ r \in also),
           \A x \in Regions : Orphan(x)' => Orphan(x) \/ x = r
    PROVE  UnsettledQueued' /\ PathOrFan'
<1> USE DEF IndInv, TypeOK, RegionTypeOK
<1>0. PICK C \in SUBSET Regions : C = {y \in Present : cancelReason[y] # NoReason}
  BY DEF Present
<1>1. Unsettled = {}
  BY QuietSettled
<1>2. Present' = Present
  BY CancelSubtreeKeepsPresent
<1>3. r \in Subtree(r) /\ Subtree(r) = Subtree(r)'
  BY SubtreeClosed DEF Subtree
<1>4. ASSUME NEW x \in Present, rstate'[x] = rstate[x], rtasks'[x] = rtasks[x]
      PROVE  x \notin Unsettled'
  <2>1. Untouched(x)
    BY <1>4 DEF Untouched, AsyncOnTop, Top
  <2> QED
    BY <1>1, <1>2, <2>1, SettledKept
<1>5. ASSUME NEW x \in Unsettled'
      PROVE  /\ x \in Present /\ x \in Regions
             /\ \/ x = r /\ r \in also
                \/ x \in Subtree(r) /\ rstate[x] = "Open" /\ children[x] = {} /\ rtasks[x] = {}
  <2>1. x \in Present /\ x \in Regions
    BY <1>2 DEF Unsettled, Present
  <2>2. CASE rtasks'[x] # rtasks[x]
    BY <2>1, <2>2
  <2>3. CASE rtasks'[x] = rtasks[x]
    <3>1. x \in Subtree(r) /\ rstate[x] = "Open" /\ rstate'[x] = "Closing"
      BY <1>4, <2>1, <2>3 DEF CancelSubtree
    <3>2. children[x] = {} /\ rtasks[x] = {}
      BY <2>3, <3>1 DEF Unsettled, Settled
    <3> QED
      BY <2>1, <3>1, <3>2
  <2> QED
    BY <2>2, <2>3
<1>6. UnsettledQueued'
  BY <1>5 DEF UnsettledQueued, CancelSubtree
<1>7. ASSUME NEW x \in C
      PROVE  rstate[x] # "Open" /\ children[x] \subseteq C
  <2>1. x \in Present /\ cancelReason[x] # NoReason
    BY <1>0
  <2>2. rstate[x] # "Open" /\ \A c \in children[x] : cancelReason[c] # NoReason
    BY <2>1 DEF CancelInv, CancelReachesSubtree
  <2>3. children[x] \subseteq Present
    BY DEF TreeConsistent
  <2> QED
    BY <1>0, <2>2, <2>3
<1>8. CASE r \in C
  <2>1. Subtree(r) \subseteq C
    BY <1>7, <1>8 DEF Subtree
  <2>2. Unsettled' \subseteq {r}
    BY <1>5, <1>7, <2>1
  <2> QED
    BY <1>6, <2>2, OneUnsettled DEF PathOrFan
<1>9. CASE r \notin C
  <2>1. C \cap Unsettled' = {}
    BY <1>5, <1>7, <1>9
  <2>2. \A x \in Regions : Orphan(x)' => x \in C \cup {r}
    BY <1>0 DEF OrphansCancelled, Orphan, PendingIn, ObligationAccounting
  <2>3. Unsettled' \subseteq Subtree(r)'
    BY <1>3, <1>5
  <2>4. Fan(r, C)'
    BY <1>7, <2>1, <2>2, <2>3 DEF Fan
  <2> QED
    BY <1>6, <2>4 DEF PathOrFan
<1> QED
  BY <1>8, <1>9

\* No request leaves a region unsettled that it does not queue.
LEMMA QueuedRequest ==
    ASSUME IndInv, CancelInv, OrphansCancelled, UnsettledQueued, Request
    PROVE  UnsettledQueued' /\ PathOrFan'
<1> USE DEF IndInv, TypeOK, RegionTypeOK
<1>1. todo = {} /\ Unsettled = {}
  <2>1. todo = {}
    BY DEF Request, CloseRegion, CancelRequest, CancelAndClose, CancelTask, CancelSiblings,
       CancelTasks, ResolveObligation, FactoryReturns, FactoryPanics, SchedulerMayRun, Idle
  <2> QED
    BY <2>1, QuietSettled
<1>2. UNCHANGED <<children, activeAsync, finalizers, fasync, finalizingRegions>>
  BY DEF Request, CloseRegion, CancelRequest, CancelAndClose, CancelTask, CancelSiblings,
     CancelTasks, ResolveObligation, FactoryReturns, FactoryPanics, finalizerVars, regionVars
<1>3. \A x \in Regions : Orphan(x)' => Orphan(x) \/ (FactoryPanics /\ x = factory)
  BY OrphanStep DEF Next
<1>4. ASSUME NEW r \in Regions, CloseRegion(r)
      PROVE  UnsettledQueued' /\ PathOrFan'
  <2>1. todo' = {r} /\ rstate' = [rstate EXCEPT ![r] = "Closing"] /\ rtasks' = rtasks
    BY <1>4 DEF CloseRegion
  <2>2. ASSUME NEW x \in Unsettled', x # r PROVE FALSE
    <3>1. x \in Present' /\ x \in Regions
      BY DEF Unsettled, Present
    <3>2. Untouched(x)
      BY <1>2, <2>1, <2>2, <3>1 DEF Untouched, AsyncOnTop, Top
    <3> QED
      BY <1>1, <3>1, <3>2, SettledKept
  <2> QED
    BY <2>1, <2>2, OneUnsettled DEF UnsettledQueued, PathOrFan
<1>5. ASSUME NEW r \in Regions, NEW kind \in CancelKinds,
             CancelRequest(r, kind) \/ CancelAndClose(r, kind)
      PROVE  UnsettledQueued' /\ PathOrFan'
  <2>1. PICK also : CancelSubtree(r, kind, also)
    BY <1>5 DEF CancelRequest, CancelAndClose
  <2>2. rtasks' = rtasks /\ ~FactoryPanics
    BY <1>5 DEF CancelRequest, CancelAndClose, FactoryPanics
  <2> QED
    BY <1>1, <1>2, <1>3, <2>1, <2>2, QueuedCancel
<1>6. CASE FactoryPanics
  <2>1. factory \in Regions /\ CancelSubtree(factory, FailFast, {factory})
    BY <1>6 DEF FactoryPanics, ControlTypeOK
  <2>2. \A x \in Regions : rtasks'[x] = rtasks[x] \/ x = factory
    BY <1>6 DEF FactoryPanics
  <2> QED
    BY <1>1, <1>2, <1>3, <2>1, <2>2, QueuedCancel
<1>7. ASSUME rstate' = rstate, rtasks' = rtasks
      PROVE  UnsettledQueued' /\ PathOrFan'
  <2>1. Unsettled' = {}
    BY <1>1, <1>2, <1>7, SettledSame
  <2> QED
    BY <2>1 DEF UnsettledQueued, PathOrFan, Chain
<1> QED
  BY <1>4, <1>5, <1>6, <1>7 DEF Request, CancelTask, CancelSiblings, CancelTasks,
     ResolveObligation, FactoryReturns, regionVars

\* Every step keeps the invariant.
LEMMA AdvanceInvStep ==
    ASSUME IndInv, IndInv', OrderInv, CancelInv, AdvanceInv, Next
    PROVE  AdvanceInv'
<1>1. FinalizingEmpty' /\ OrphansCancelled'
  BY EmptyStep, OrphansStep DEF AdvanceInv
<1>2. CASE Advance
  <2>1. ~FactoryPanics
    BY <1>2 DEF FactoryPanics, Idle, Advance, AdvanceToFinalizing, AdvanceToDraining,
       AdvanceLeaks, AdvanceToClosed, AdvanceStops, RunSyncFinalizer, SpawnFinalizer, DrainVisits
  <2>2. \A x \in Regions : Orphan(x)' => Orphan(x)
    BY <2>1, OrphanStep
  <2> QED
    BY <1>1, <1>2, <2>2, QueuedAdvance DEF AdvanceInv
<1>3. CASE Create
  <2>1. Unsettled' = {}
    BY <1>3, QueuedCreate DEF AdvanceInv
  <2> QED
    BY <1>1, <2>1 DEF AdvanceInv, UnsettledQueued, PathOrFan, Chain
<1>4. CASE Request
  BY <1>1, <1>4, QueuedRequest DEF AdvanceInv
<1>5. CASE Execute
  BY <1>1, <1>5, QueuedExecute DEF AdvanceInv, PathOrFan
<1> QED
  BY <1>2, <1>3, <1>4, <1>5 DEF Next

\* Within a critical section, what is not settled is queued, and what a
\* panicking leak drops from the queue is settled.
THEOREM AdvanceInvariance == Spec => []AdvanceInv
<1>1. Init => AdvanceInv
  <2> SUFFICES ASSUME Init PROVE AdvanceInv
    OBVIOUS
  <2>1. FinalizingEmpty /\ OrphansCancelled
    BY DEF Init, FinalizingEmpty, OrphansCancelled, Orphan, PendingIn
  <2>2. Unsettled = {}
    BY DEF Init, Unsettled, Present
  <2> QED
    BY <2>1, <2>2 DEF AdvanceInv, UnsettledQueued, PathOrFan, Chain
<1>2. AdvanceInv /\ UNCHANGED vars => AdvanceInv'
  <2> SUFFICES ASSUME AdvanceInv, UNCHANGED vars PROVE AdvanceInv'
    OBVIOUS
  <2> USE DEF AdvanceInv, vars, regionVars, finalizerVars, taskVars, obligationVars, control
  <2>1. FinalizingEmpty' /\ OrphansCancelled' /\ \A x \in Regions : Orphan(x)' => Orphan(x)
    BY DEF FinalizingEmpty, OrphansCancelled, Orphan, PendingIn
  <2>2. Unsettled' = Unsettled /\ UnsettledQueued'
    BY SettledSame DEF UnsettledQueued
  <2>3. PathOrFan'
    BY <2>1, <2>2, PathOrFanShrinks
  <2> QED
    BY <2>1, <2>2, <2>3
<1>3. IndInv /\ IndInv' /\ OrderInv /\ CancelInv /\ AdvanceInv /\ [Next]_vars => AdvanceInv'
  BY <1>2, AdvanceInvStep
<1> QED
  BY <1>1, <1>3, Invariance, OrderInvariance, CancelInvariance, PTL DEF Spec

\* No region is forgotten: whatever cancels, completions, leaks and panics come
\* in between, advance_region_state leaves every region that has begun to close
\* with a task, a child or a finalizer that will advance it again.
THEOREM NoRegionForgotten == Spec => []NoStrandedRegion
<1>1. AdvanceInv => NoStrandedRegion
  BY QuietSettled DEF AdvanceInv, NoStrandedRegion, Idle, Unsettled
<1> QED
  BY <1>1, AdvanceInvariance, PTL

-----------------------------------------------------------------------------
(* The promise.                                                            *)

\* A region without a parent is the root, so there is one tree at a time.
OneRoot == \A r \in Present : parent[r] = None => rootRegion = r

\* A root is created only when there is none, and rootRegion is cleared only when
\* it closes.
LEMMA OneRootStep ==
    ASSUME IndInv, OneRoot, Next PROVE OneRoot'
<1> USE DEF IndInv, TypeOK, RegionTypeOK
<1>1. ASSUME Present' \subseteq Present, UNCHANGED <<parent, rootRegion>> PROVE OneRoot'
  BY <1>1 DEF OneRoot
<1>2. CASE Advance
  <2>1. PICK r \in Regions :
        \/ AdvanceToFinalizing(r)
        \/ AdvanceToDraining(r)
        \/ AdvanceLeaks(r)
        \/ AdvanceToClosed(r)
        \/ AdvanceStops(r)
        \/ \E panics \in BOOLEAN : RunSyncFinalizer(r, panics)
        \/ \E t \in Tasks : SpawnFinalizer(r, t)
    BY <1>2 DEF Advance
  <2>2. CASE AdvanceToClosed(r)
    BY <2>2 DEF AdvanceToClosed, OneRoot, Present
  <2>3. CASE \E t \in Tasks : SpawnFinalizer(r, t)
    BY <1>1, <2>3 DEF SpawnFinalizer, Present
  <2>4. CASE ~AdvanceToClosed(r) /\ ~ \E t \in Tasks : SpawnFinalizer(r, t)
    <3>1. Present' = Present /\ parent' = parent
      BY <2>1, <2>4, SameTreeAdvance DEF SameTree
    <3>2. rootRegion' = rootRegion
      BY <2>1, <2>4 DEF AdvanceToFinalizing, AdvanceToDraining, AdvanceLeaks, AdvanceStops,
         RunSyncFinalizer, regionVars
    <3> QED
      BY <1>1, <3>1, <3>2
  <2> QED
    BY <2>2, <2>3, <2>4
<1>3. CASE Create
  BY <1>3, ConstantsAssumption DEF Create, CreateRootRegion, CreateChildRegion, OpenScope,
     AttachChild, CreateTask, CreateObligation, RegisterFinalizer, OneRoot, Present, regionVars
<1>4. CASE Request
  <2>1. UNCHANGED <<parent, rootRegion>>
    BY <1>4 DEF Request, CloseRegion, CancelRequest, CancelAndClose, CancelTask, CancelSiblings,
       CancelTasks, ResolveObligation, FactoryReturns, FactoryPanics, regionVars
  <2>2. Present' = Present
    <3>1. CASE FactoryPanics
      BY <3>1, CancelSubtreeKeepsPresent DEF FactoryPanics, ControlTypeOK
    <3>2. CASE ~FactoryPanics
      BY <1>4, <3>2, SameTreeRequest DEF SameTree
    <3> QED
      BY <3>1, <3>2
  <2> QED
    BY <1>1, <2>1, <2>2
<1>5. CASE Execute
  <2>1. UNCHANGED <<rstate, parent, rootRegion>>
    BY <1>5 DEF Execute, StartRunning, Checkpoint, PollPending, PollReady, PollReadyUnwinds,
       GuardRetries, TaskCompleted, ScheduleReadyFinalizers, DrainEnds, regionVars
  <2> QED
    BY <1>1, <2>1 DEF Present
<1> QED
  BY <1>2, <1>3, <1>4, <1>5 DEF Next

\* What stands, lives and is a child in the promise.
LEMMA View ==
    ASSUME IndInv
    PROVE  /\ Promise!Standing = Present
           /\ \A r \in Regions : Promise!LiveIn(r) = rtasks[r] /\ Promise!ChildrenOf(r) = children[r]
<1> USE DEF IndInv, TypeOK, RegionTypeOK, RegionStates
<1>1. Promise!Standing = Present
  BY DEF Promise!Standing, Present, Stage
<1>2. ASSUME NEW r \in Regions
      PROVE  Promise!LiveIn(r) = rtasks[r] /\ Promise!ChildrenOf(r) = children[r]
  <2>1. rtasks[r] = {t \in InArena : owner[t] = r} /\ children[r] = {c \in Present : parent[c] = r}
    BY DEF TreeConsistent
  <2>2. Promise!LiveIn(r) = {t \in InArena : owner[t] = r}
    BY DEF Promise!LiveIn, Life, InArena
  <2> QED
    BY <1>1, <2>1, <2>2 DEF Promise!ChildrenOf
<1> QED
  BY <1>1, <1>2

\* A step that changes nothing the promise sees.
LEMMA Unseen ==
    ASSUME UNCHANGED <<Stage, Life, parent, owner, CancelledRegions, closeOutcome>>
    PROVE  UNCHANGED Promise!promiseVars
  BY DEF Promise!promiseVars

\* Creating is opening a region, spawning a task, or unseen.
LEMMA PromiseCreate ==
    ASSUME IndInv, OneRoot, Create
    PROVE  [Promise!PromiseNext]_(Promise!promiseVars)
<1> USE DEF IndInv, TypeOK, RegionTypeOK, TaskTypeOK
<1>1. PICK r \in Regions :
        \/ CreateRootRegion(r)
        \/ \E p \in Regions : AttachChild(p, r)
        \/ \E t \in Tasks : CreateTask(r, t)
        \/ \E t \in Tasks, o \in Obligations : CreateObligation(r, t, o)
        \/ \E f \in Finalizers, async \in BOOLEAN : RegisterFinalizer(r, f, async)
  BY DEF Create, CreateChildRegion, OpenScope
<1>2. CASE CreateRootRegion(r)
  <2>1. /\ rstate[r] = "Free" /\ rootRegion = None /\ rstate' = [rstate EXCEPT ![r] = "Open"]
        /\ UNCHANGED <<parent, cancelReason, closeOutcome, owner, tstate>>
    BY <1>2 DEF CreateRootRegion, taskVars
  <2>2. Stage[r] = "Free" /\ Stage' = [Stage EXCEPT ![r] = "Open"]
    BY <2>1 DEF Stage
  <2>3. parent' = [parent EXCEPT ![r] = None]
    BY <2>1 DEF NewRegionsBlank
  <2>4. \A x \in Promise!Standing : parent[x] # None
    BY <2>1, View, ConstantsAssumption DEF OneRoot, Present
  <2>5. UNCHANGED <<owner, Life, CancelledRegions, closeOutcome>>
    BY <2>1 DEF Life, InArena, CancelledRegions
  <2>6. Promise!Open(r, None)
    BY <2>2, <2>3, <2>4, <2>5 DEF Promise!Open
  <2> QED
    BY <2>6 DEF Promise!PromiseNext
<1>3. ASSUME NEW p \in Regions, AttachChild(p, r)
      PROVE  Promise!PromiseNext
  <2>1. /\ rstate[r] = "Free" /\ rstate[p] = "Open" /\ rstate' = [rstate EXCEPT ![r] = "Open"]
        /\ parent' = [parent EXCEPT ![r] = p]
        /\ UNCHANGED <<cancelReason, closeOutcome, owner, tstate>>
    BY <1>3 DEF AttachChild, taskVars
  <2>2. Stage[r] = "Free" /\ Stage[p] = "Open" /\ Stage' = [Stage EXCEPT ![r] = "Open"]
    BY <2>1 DEF Stage
  <2>3. UNCHANGED <<owner, Life, CancelledRegions, closeOutcome>>
    BY <2>1 DEF Life, InArena, CancelledRegions
  <2>4. p # None
    BY ConstantsAssumption
  <2>5. Promise!Open(r, p)
    BY <2>1, <2>2, <2>3, <2>4 DEF Promise!Open
  <2> QED
    BY <2>5 DEF Promise!PromiseNext
<1>4. ASSUME NEW t \in Tasks, CreateTask(r, t)
      PROVE  Promise!PromiseNext
  <2>1. /\ tstate[t] = "Free" /\ rstate[r] = "Open" /\ tstate' = [tstate EXCEPT ![t] = "Created"]
        /\ owner' = [owner EXCEPT ![t] = r]
        /\ UNCHANGED <<rstate, parent, cancelReason, closeOutcome>>
    BY <1>4 DEF CreateTask
  <2>2. Life[t] = "Free" /\ Life' = [Life EXCEPT ![t] = "Live"]
    BY <2>1 DEF Life, InArena
  <2>3. Stage[r] = "Open" /\ UNCHANGED <<Stage, CancelledRegions>>
    BY <2>1 DEF Stage, CancelledRegions
  <2>4. Promise!Spawn(t, r)
    BY <2>1, <2>2, <2>3 DEF Promise!Spawn, Promise!Begin
  <2> QED
    BY <2>4 DEF Promise!PromiseNext
<1>5. CASE \/ \E t \in Tasks, o \in Obligations : CreateObligation(r, t, o)
           \/ \E f \in Finalizers, async \in BOOLEAN : RegisterFinalizer(r, f, async)
  <2>1. UNCHANGED <<rstate, parent, cancelReason, closeOutcome, owner, tstate>>
    BY <1>5 DEF CreateObligation, RegisterFinalizer, taskVars, regionVars
  <2> QED
    BY <2>1, Unseen DEF Stage, Life, InArena, CancelledRegions
<1> QED
  BY <1>1, <1>2, <1>3, <1>4, <1>5

\* The task that a guard's retry completes has ended with an outcome.
EndedWithOutcome == \A t \in Tasks : tstate[t] = "Completed" => outcome[t] \in Outcomes

\* TaskRecord::complete records an outcome.
LEMMA OutcomeOfPoll ==
    ASSUME NEW t, NEW polled \in Outcomes PROVE CompletedOutcome(t, polled) \in Outcomes
  BY DEF CompletedOutcome, Outcomes, Ok, Err, Cancelled, Panicked

\* Only an unwinding completion leaves a terminal task, after recording its
\* outcome.
LEMMA EndedStep ==
    ASSUME IndInv, EndedWithOutcome, Next PROVE EndedWithOutcome'
<1> USE DEF IndInv, TypeOK, TaskTypeOK
<1>1. ASSUME NEW t \in Tasks,
             tstate'[t] = "Completed" => tstate[t] = "Completed" /\ outcome'[t] = outcome[t]
      PROVE  tstate'[t] = "Completed" => outcome'[t] \in Outcomes
  BY <1>1 DEF EndedWithOutcome
<1> SUFFICES ASSUME NEW t \in Tasks, tstate'[t] = "Completed"
             PROVE  outcome'[t] \in Outcomes
  BY DEF EndedWithOutcome
<1>2. CASE Advance
  <2>1. tstate'[t] = tstate[t] \/ tstate'[t] = "Created"
    BY <1>2 DEF Advance, AdvanceToFinalizing, AdvanceToDraining, AdvanceLeaks, AdvanceToClosed,
       AdvanceStops, RunSyncFinalizer, SpawnFinalizer, taskVars
  <2>2. outcome' = outcome
    BY <1>2 DEF Advance, AdvanceToFinalizing, AdvanceToDraining, AdvanceLeaks, AdvanceToClosed,
       AdvanceStops, RunSyncFinalizer, SpawnFinalizer, taskVars
  <2> QED
    BY <1>1, <2>1, <2>2
<1>3. CASE Create
  <2>1. (tstate'[t] = tstate[t] \/ tstate'[t] = "Created") /\ outcome' = outcome
    BY <1>3 DEF Create, CreateRootRegion, CreateChildRegion, OpenScope, AttachChild, CreateTask,
       CreateObligation, RegisterFinalizer, taskVars
  <2> QED
    BY <1>1, <2>1
<1>4. CASE Request
  <2>1. outcome' = outcome
    BY <1>4 DEF Request, CloseRegion, CancelRequest, CancelAndClose, CancelTask, CancelSiblings,
       CancelTasks, ResolveObligation, FactoryReturns, FactoryPanics, taskVars
  <2>2. \/ tstate' = tstate
        \/ \E S : tstate'[t] = RequestCancel(S)[t]
        \/ tstate'[t] = "Gone"
    BY <1>4 DEF Request, CloseRegion, CancelRequest, CancelAndClose, CancelTask, CancelSiblings,
       CancelTasks, ResolveObligation, FactoryReturns, FactoryPanics, taskVars
  <2>3. tstate[t] = "Completed"
    BY <2>2 DEF RequestCancel
  <2> QED
    BY <1>1, <2>1, <2>3
<1>5. ASSUME NEW u \in Tasks, NEW polled \in Outcomes,
             PollReady(u, polled) \/ PollReadyUnwinds(u, polled)
      PROVE  outcome'[t] \in Outcomes
  <2>1. /\ outcome' = [outcome EXCEPT ![u] = CompletedOutcome(u, polled)]
        /\ t # u => tstate'[t] = tstate[t]
    BY <1>5 DEF PollReady, PollReadyUnwinds, PollEnds, TaskCompleted
  <2> QED
    BY <1>1, <2>1, OutcomeOfPoll
<1>6. CASE Execute /\ ~ \E u \in Tasks, polled \in Outcomes :
                          PollReady(u, polled) \/ PollReadyUnwinds(u, polled)
  <2>1. outcome' = outcome
    BY <1>6 DEF Execute, StartRunning, Checkpoint, PollPending, GuardRetries,
       ScheduleReadyFinalizers, DrainEnds, taskVars
  <2>2. tstate[t] = "Completed"
    BY <1>6 DEF Execute, StartRunning, Checkpoint, PollPending, GuardRetries, TaskCompleted,
       ScheduleReadyFinalizers, DrainEnds, taskVars
  <2> QED
    BY <1>1, <2>1, <2>2
<1> QED
  BY <1>2, <1>3, <1>4, <1>5, <1>6 DEF Next, Execute

\* A finalizing region without a barrier has nothing but finalizers left.
LEMMA CleanupAlone ==
    ASSUME IndInv, FinalizingEmpty, NEW r \in Regions, NoBarrier(r)
    PROVE  Promise!Alone(r)
<1>1. children[r] = {} /\ rtasks[r] = {}
  BY ConstantsAssumption DEF NoBarrier, FinalizingEmpty, IndInv, TypeOK, RegionTypeOK
<1>2. Stage[r] = "Ending"
  BY DEF NoBarrier, Stage
<1> QED
  BY <1>1, <1>2, View DEF Promise!Alone

\* advance_region_state runs and starts cleanup, closes, or is unseen.
LEMMA PromiseAdvance ==
    ASSUME IndInv, OrderInv, FinalizingEmpty, Advance
    PROVE  [Promise!PromiseNext]_(Promise!promiseVars)
<1> USE DEF IndInv, TypeOK, RegionTypeOK, TaskTypeOK
<1>1. PICK r \in Regions :
        \/ AdvanceToFinalizing(r)
        \/ AdvanceToDraining(r)
        \/ AdvanceLeaks(r)
        \/ AdvanceToClosed(r)
        \/ AdvanceStops(r)
        \/ \E panics \in BOOLEAN : RunSyncFinalizer(r, panics)
        \/ \E t \in Tasks : SpawnFinalizer(r, t)
  BY DEF Advance
<1>2. CASE AdvanceToClosed(r)
  <2>1. NoBarrier(r)
    BY <1>2 DEF AdvanceToClosed, CanCompleteClose
  <2>2. /\ rstate' = [rstate EXCEPT ![r] = "Closed"]
        /\ UNCHANGED <<parent, cancelReason, owner, tstate>>
    BY <1>2 DEF AdvanceToClosed, taskVars
  <2>3. Stage' = [Stage EXCEPT ![r] = "Closed"]
    BY <2>2 DEF Stage
  <2>4. closeOutcome' = [closeOutcome EXCEPT ![r] =
                           IF @ # -1 THEN @ ELSE IF r \in CancelledRegions THEN 2 ELSE 0]
    BY <1>2 DEF AdvanceToClosed, NoOutcome, Cancelled, Ok, CancelledRegions
  <2>5. UNCHANGED <<Life, CancelledRegions>>
    BY <2>2 DEF Life, InArena, CancelledRegions
  <2>6. Promise!Finish(r)
    BY <2>1, <2>2, <2>3, <2>4, <2>5, CleanupAlone DEF Promise!Finish
  <2> QED
    BY <2>6 DEF Promise!PromiseNext
<1>3. ASSUME NEW panics \in BOOLEAN, RunSyncFinalizer(r, panics)
      PROVE  [Promise!PromiseNext]_(Promise!promiseVars)
  <2>1. NoBarrier(r)
    BY <1>3 DEF RunSyncFinalizer, DrainVisits, NoBarrier, OrderInv, FinalizingListed
  <2>2. UNCHANGED <<rstate, parent, cancelReason, owner, tstate>>
    BY <1>3 DEF RunSyncFinalizer, taskVars
  <2>3. UNCHANGED <<Stage, Life, CancelledRegions>>
    BY <2>2 DEF Stage, Life, InArena, CancelledRegions
  <2>4. CASE panics
    <3>1. join(closeOutcome[r], Panicked) = 3
      BY DEF join, Panicked, Outcomes, Ok, NoOutcome
    <3>2. closeOutcome' = [closeOutcome EXCEPT ![r] = 3]
      BY <1>3, <2>4, <3>1 DEF RunSyncFinalizer
    <3>3. Promise!CleanupPanics(r)
      BY <2>1, <2>2, <2>3, <3>2, CleanupAlone DEF Promise!CleanupPanics
    <3> QED
      BY <3>3 DEF Promise!PromiseNext
  <2>5. CASE ~panics
    <3>1. closeOutcome' = closeOutcome
      BY <1>3, <2>5 DEF RunSyncFinalizer
    <3> QED
      BY <2>2, <2>3, <3>1, Unseen
  <2> QED
    BY <2>4, <2>5
<1>4. ASSUME NEW t \in Tasks, SpawnFinalizer(r, t)
      PROVE  Promise!PromiseNext
  <2>1. NoBarrier(r)
    BY <1>4 DEF SpawnFinalizer, DrainVisits, NoBarrier
  <2>2. /\ tstate[t] = "Free" /\ tstate' = [tstate EXCEPT ![t] = "Created"]
        /\ owner' = [owner EXCEPT ![t] = r]
        /\ UNCHANGED <<rstate, parent, cancelReason, closeOutcome>>
    BY <1>4 DEF SpawnFinalizer
  <2>3. Life[t] = "Free" /\ Life' = [Life EXCEPT ![t] = "Live"]
    BY <2>2 DEF Life, InArena
  <2>4. UNCHANGED <<Stage, CancelledRegions>>
    BY <2>2 DEF Stage, CancelledRegions
  <2>5. Promise!SpawnCleanup(t, r)
    BY <2>1, <2>2, <2>3, <2>4, CleanupAlone DEF Promise!SpawnCleanup, Promise!Begin
  <2> QED
    BY <2>5 DEF Promise!PromiseNext
<1>5. CASE AdvanceToFinalizing(r) \/ AdvanceToDraining(r) \/ AdvanceLeaks(r) \/ AdvanceStops(r)
  <2>1. UNCHANGED <<parent, cancelReason, closeOutcome, owner, tstate>>
    BY <1>5 DEF AdvanceToFinalizing, AdvanceToDraining, AdvanceLeaks, AdvanceStops, taskVars,
       regionVars
  <2>2. Stage' = Stage
    BY <1>5 DEF AdvanceToFinalizing, AdvanceToDraining, AdvanceLeaks, AdvanceStops,
       ReadyToFinalize, ReadyToDrain, Stage, regionVars
  <2> QED
    BY <2>1, <2>2, Unseen DEF Life, InArena, CancelledRegions
<1> QED
  BY <1>1, <1>2, <1>3, <1>4, <1>5

\* A worker's step ends a task or is unseen.
LEMMA PromiseExecute ==
    ASSUME IndInv, EndedWithOutcome, Execute
    PROVE  [Promise!PromiseNext]_(Promise!promiseVars)
<1> USE DEF IndInv, TypeOK, RegionTypeOK, TaskTypeOK
<1>1. ASSUME NEW t \in InArena, NEW final \in Outcomes,
             TaskCompleted(t, final)
      PROVE  Promise!PromiseNext
  <2>1. /\ t \in Tasks /\ tstate' = [tstate EXCEPT ![t] = "Gone"]
        /\ closeOutcome' = [closeOutcome EXCEPT ![owner[t]] = join(@, final)]
        /\ UNCHANGED <<rstate, parent, cancelReason, owner>>
    BY <1>1 DEF TaskCompleted, InArena
  <2>2. Life[t] = "Live" /\ Life' = [Life EXCEPT ![t] = "Over"]
    BY <2>1 DEF Life, InArena
  <2>3. UNCHANGED <<Stage, CancelledRegions>>
    BY <2>1 DEF Stage, CancelledRegions
  <2>4. Promise!End(t, final)
    BY <2>1, <2>2, <2>3 DEF Promise!End, Promise!Worse, join
  <2>5. final \in 0..3
    BY DEF Outcomes, Ok, Panicked
  <2> QED
    BY <2>1, <2>4, <2>5 DEF Promise!PromiseNext
<1>2. ASSUME NEW t \in Tasks, NEW polled \in Outcomes, PollReady(t, polled)
      PROVE  Promise!PromiseNext
  BY <1>1, <1>2, OutcomeOfPoll DEF PollReady, PollEnds, Live
<1>3. ASSUME NEW t \in Tasks, GuardRetries(t)
      PROVE  Promise!PromiseNext
  BY <1>1, <1>3 DEF GuardRetries, InArena, EndedWithOutcome
<1>4. CASE ~ \E t \in Tasks : GuardRetries(t) \/ \E polled \in Outcomes : PollReady(t, polled)
  <2>1. UNCHANGED <<rstate, parent, cancelReason, closeOutcome, owner>>
    BY <1>4 DEF Execute, StartRunning, Checkpoint, PollPending, PollReadyUnwinds,
       ScheduleReadyFinalizers, DrainEnds, taskVars, regionVars
  <2>2. InArena' = InArena
    BY <1>4, SameTreeExecute DEF SameTree
  <2>3. \A t \in Tasks : tstate'[t] = "Free" <=> tstate[t] = "Free"
    BY <1>4 DEF Execute, StartRunning, Checkpoint, PollPending, PollReadyUnwinds, PollEnds, Live,
       InArena, ScheduleReadyFinalizers, DrainEnds, taskVars
  <2>4. UNCHANGED <<Stage, Life, CancelledRegions>>
    BY <2>1, <2>2, <2>3 DEF Stage, Life, CancelledRegions
  <2> QED
    BY <2>1, <2>4, Unseen
<1> QED
  BY <1>2, <1>3, <1>4

\* cancel_request, with the tasks a panicked factory leaves, is one Cancel of the
\* region and all below it; a factory whose region has closed cancels nothing.
LEMMA PromiseCancel ==
    ASSUME IndInv, NEW r \in Regions, NEW kind \in 0..5, NEW also, CancelSubtree(r, kind, also),
           UNCHANGED <<parent, owner, closeOutcome>>, NEW dropped \in SUBSET rtasks[r],
           Life' = [t \in Tasks |-> IF t \in dropped THEN "Over" ELSE Life[t]]
    PROVE  [Promise!PromiseNext]_(Promise!promiseVars)
<1> USE DEF IndInv, TypeOK, RegionTypeOK
<1> DEFINE S == Subtree(r) \cap Present
<1>1. S \subseteq Present /\ Present \subseteq Regions /\ r \in Subtree(r)
  BY SubtreeClosed DEF Present
<1>2. /\ cancelReason' = [x \in Regions |-> IF x \in S
                            THEN strengthen(cancelReason[x], IF x = r THEN kind ELSE ParentCancelled)
                            ELSE cancelReason[x]]
      /\ rstate' = [x \in Regions |-> IF x \in S /\ rstate[x] = "Open" THEN "Closing" ELSE rstate[x]]
  BY DEF CancelSubtree
<1>3. CancelledRegions' = CancelledRegions \cup S
  <2>1. \A x \in Regions : /\ strengthen(cancelReason[x], kind) # NoReason
                           /\ strengthen(cancelReason[x], ParentCancelled) # NoReason
    BY DEF strengthen, NoReason, ParentCancelled, Reasons
  <2> HIDE DEF S
  <2>2. \A x \in Regions : cancelReason'[x] # NoReason <=> cancelReason[x] # NoReason \/ x \in S
    BY <1>2, <2>1
  <2> QED
    BY <1>1, <2>2 DEF CancelledRegions
<1>4. Stage' = [x \in Regions |-> IF x \in S THEN "Ending" ELSE Stage[x]]
  <2>1. \A x \in S : rstate[x] \in {"Open", "Closing", "Draining", "Finalizing"}
    BY DEF Present, RegionStates
  <2> HIDE DEF S
  <2>2. \A x \in Regions : Stage'[x] = IF x \in S THEN "Ending" ELSE Stage[x]
    BY <1>2, <2>1 DEF Stage
  <2>3. Stage' = [x \in Regions |-> Stage'[x]]
    BY DEF Stage
  <2> QED
    BY <2>2, <2>3
<1>5. CASE r \in Present
  <2>1. ASSUME NEW x \in Present, x # r, x \in S PROVE parent[x] \in S
    <3>1. parent[x] \in Subtree(r)
      BY <2>1, SubtreeParent
    <3>2. parent[x] # None
      BY <3>1, ConstantsAssumption DEF Subtree
    <3> QED
      BY <3>1, <3>2 DEF TreeConsistent
  <2>2. ASSUME NEW x \in Present, parent[x] \in S PROVE x \in S
    <3>1. x \in children[parent[x]]
      BY <1>1, <2>2 DEF TreeConsistent
    <3> QED
      BY <2>2, <3>1, SubtreeClosed
  <2>3. Promise!Cancel(r, S, dropped)
    <3> HIDE DEF S
    <3>1. r \in S
      BY <1>1, <1>5 DEF S
    <3> QED
      BY <1>1, <1>3, <1>4, <2>1, <2>2, <3>1, View DEF Promise!Cancel
  <2>4. S \in SUBSET Regions /\ dropped \in SUBSET Tasks
    BY <1>1
  <2> QED
    BY <2>3, <2>4 DEF Promise!PromiseNext
<1>6. CASE r \notin Present
  <2>1. children[r] = {} /\ rtasks[r] = {}
    BY <1>1, <1>6, ConstantsAssumption DEF TreeConsistent
  <2>2. S = {} /\ dropped = {}
    BY <1>6, <2>1, SubtreeLeaf
  <2>3. CancelledRegions' = CancelledRegions
    BY <1>3, <2>2
  <2>4. Stage' = Stage
    BY <1>4, <2>2 DEF Stage
  <2>5. Life' = Life
    BY <2>2 DEF Life
  <2> QED
    BY <2>3, <2>4, <2>5, Unseen
<1> QED
  BY <1>5, <1>6

\* A request closes, cancels or is unseen.
LEMMA PromiseRequest ==
    ASSUME IndInv, Request
    PROVE  [Promise!PromiseNext]_(Promise!promiseVars)
<1> USE DEF IndInv, TypeOK, RegionTypeOK, TaskTypeOK
<1>1. ASSUME NEW S, NEW t \in Tasks, tstate'[t] = RequestCancel(S)[t]
      PROVE  Life'[t] = Life[t]
  <2>1. tstate'[t] \in {"Free", "Gone"} <=> tstate[t] \in {"Free", "Gone"}
    BY <1>1, RequestCancelKeepsArena
  <2>2. tstate'[t] = "Free" <=> tstate[t] = "Free"
    BY <1>1 DEF RequestCancel
  <2> QED
    BY <2>1, <2>2 DEF Life, InArena
<1>2. ASSUME \A t \in Tasks : Life'[t] = Life[t] PROVE Life' = Life
  BY <1>2 DEF Life
<1>3. ASSUME NEW r \in Regions, CloseRegion(r)
      PROVE  Promise!PromiseNext
  <2>1. /\ rstate[r] = "Open" /\ rstate' = [rstate EXCEPT ![r] = "Closing"]
        /\ UNCHANGED <<parent, cancelReason, closeOutcome, owner, tstate>>
    BY <1>3 DEF CloseRegion, taskVars
  <2>2. Stage[r] = "Open" /\ Stage' = [Stage EXCEPT ![r] = "Ending"]
    BY <2>1 DEF Stage
  <2>3. UNCHANGED <<Life, CancelledRegions>>
    BY <2>1 DEF Life, InArena, CancelledRegions
  <2>4. Promise!Close(r)
    BY <2>1, <2>2, <2>3 DEF Promise!Close
  <2> QED
    BY <2>4 DEF Promise!PromiseNext
<1>4. ASSUME NEW r \in Regions, NEW kind \in CancelKinds,
             CancelRequest(r, kind) \/ CancelAndClose(r, kind)
      PROVE  [Promise!PromiseNext]_(Promise!promiseVars)
  <2>1. PICK also : CancelSubtree(r, kind, also)
    BY <1>4 DEF CancelRequest, CancelAndClose
  <2>2. /\ UNCHANGED <<parent, owner, closeOutcome>>
        /\ tstate' = RequestCancel(UNION {rtasks[x] : x \in Subtree(r) \cap Present})
    BY <1>4 DEF CancelRequest, CancelAndClose
  <2>3. Life' = Life
    BY <1>1, <1>2, <2>2
  <2>4. Life' = [t \in Tasks |-> IF t \in {} THEN "Over" ELSE Life[t]]
    BY <2>3 DEF Life
  <2>5. kind \in 0..5 /\ {} \in SUBSET rtasks[r]
    BY ConstantsAssumption
  <2> QED
    BY <2>1, <2>2, <2>4, <2>5, PromiseCancel
<1>5. CASE FactoryPanics
  <2> DEFINE reaped == {t \in Tasks : /\ owner[t] = factory
                                      /\ tstate[t] \in {"Created", "Running", "CancelRequested"}}
             asked == UNION {rtasks[x] : x \in Subtree(factory) \cap Present}
  <2>1. /\ factory \in Regions /\ CancelSubtree(factory, FailFast, {factory})
        /\ UNCHANGED <<parent, owner, closeOutcome>>
        /\ tstate' = [t \in Tasks |-> IF t \in reaped THEN "Gone" ELSE RequestCancel(asked)[t]]
    BY <1>5 DEF FactoryPanics, ControlTypeOK
  <2>2. reaped \in SUBSET rtasks[factory]
    BY <2>1 DEF TreeConsistent, InArena
  <2> HIDE DEF reaped, asked
  <2>3. \A t \in Tasks : Life'[t] = IF t \in reaped THEN "Over" ELSE Life[t]
    <3>1. ASSUME NEW t \in Tasks, t \in reaped PROVE Life'[t] = "Over"
      BY <2>1, <3>1 DEF Life, InArena
    <3>2. ASSUME NEW t \in Tasks, t \notin reaped PROVE Life'[t] = Life[t]
      BY <1>1, <2>1, <3>2
    <3> QED
      BY <3>1, <3>2
  <2>4. Life' = [t \in Tasks |-> IF t \in reaped THEN "Over" ELSE Life[t]]
    <3>1. Life' = [t \in Tasks |-> Life'[t]]
      BY DEF Life
    <3> QED
      BY <2>3, <3>1
  <2>5. FailFast \in 0..5
    BY DEF FailFast
  <2> QED
    BY <2>1, <2>2, <2>4, <2>5, PromiseCancel
<1>6. ASSUME UNCHANGED <<rstate, parent, cancelReason, closeOutcome, owner>>,
             tstate' = tstate \/ \E S : tstate' = RequestCancel(S)
      PROVE  UNCHANGED Promise!promiseVars
  <2>1. Life' = Life
    BY <1>1, <1>2, <1>6 DEF Life, InArena
  <2> QED
    BY <1>6, <2>1, Unseen DEF Stage, CancelledRegions
<1> QED
  BY <1>3, <1>4, <1>5, <1>6 DEF Request, CancelTask, CancelSiblings, CancelTasks,
     ResolveObligation, FactoryReturns, regionVars, taskVars

\* Every behaviour of RuntimeState is one of RegionPromise: the loop of
\* advance_region_state, which may be left by a panic, the drain of finalizers
\* and the retry of task_completed show nothing that the promise does not allow.
THEOREM RuntimeKeepsPromise == Spec => ImplementsPromise
<1>1. Init => Promise!PromiseInit
  BY DEF Init, Promise!PromiseInit, Stage, Life, InArena, CancelledRegions, NoOutcome
<1>2. Init => OneRoot /\ EndedWithOutcome
  BY DEF Init, OneRoot, Present, EndedWithOutcome
<1>3. IndInv /\ OneRoot /\ EndedWithOutcome /\ [Next]_vars => OneRoot' /\ EndedWithOutcome'
  <2>1. ASSUME UNCHANGED vars, OneRoot, EndedWithOutcome PROVE OneRoot' /\ EndedWithOutcome'
    BY <2>1 DEF vars, regionVars, taskVars, OneRoot, Present, EndedWithOutcome
  <2> QED
    BY <2>1, OneRootStep, EndedStep
<1>4. IndInv /\ OrderInv /\ AdvanceInv /\ OneRoot /\ EndedWithOutcome /\ [Next]_vars
        => [Promise!PromiseNext]_(Promise!promiseVars)
  <2>1. ASSUME UNCHANGED vars PROVE UNCHANGED Promise!promiseVars
    BY <2>1, Unseen DEF vars, regionVars, taskVars, Stage, Life, InArena, CancelledRegions
  <2> QED
    BY <2>1, PromiseAdvance, PromiseCreate, PromiseRequest, PromiseExecute DEF Next, AdvanceInv
<1> QED
  BY <1>1, <1>2, <1>3, <1>4, Invariance, OrderInvariance, AdvanceInvariance, PTL
  DEF Spec, ImplementsPromise, Promise!PromiseSpec
=============================================================================
