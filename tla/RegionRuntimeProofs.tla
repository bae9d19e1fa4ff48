------------------------ MODULE RegionRuntimeProofs ------------------------
(***************************************************************************)
(* Theorems about RegionRuntime: types, the ownership tree, the obligation *)
(* account, the finalizers and the quiescence of a close follow from one   *)
(* inductive invariant, and the order of the finalizers from a second one  *)
(* relative to it.  Both are proved for every set of regions, tasks and    *)
(* obligations, every limit and every leak response.                       *)
(***************************************************************************)
EXTENDS RegionRuntime, FiniteSetTheorems, SequenceTheorems, TLAPS

\* Nothing is known of a region or a finalizer before it is created.
NewRegionsBlank == \A r \in Regions : rstate[r] = "Free" => parent[r] = None
NewFinalizersBlank == \A f \in Finalizers : fstate[f] = "Free" => fregion[f] = None

\* None of the three invariants is inductive alone: the account and the
\* tracking of finalizers need the tree (an obligation's region stays in the
\* arena while its holder does), and quiescence needs all of them.
IndInv ==
    /\ TypeOK
    /\ TreeConsistent
    /\ NewRegionsBlank
    /\ ObligationAccounting
    /\ FinalizersTracked
    /\ NewFinalizersBlank

\* What resolve_obligation leaves of the counters is again a natural number.
LEMMA ReleasedType ==
    ASSUME RegionTypeOK, NEW S \in SUBSET Obligations
    PROVE  Released(S) \in [Regions -> Nat]
<1>1. ASSUME NEW r \in Regions
      PROVE  Cardinality({o \in S : oregion[o] = r}) \in Nat
  BY ConstantsAssumption, FS_Subset, FS_CardinalityType
<1> QED
  BY <1>1 DEF Released, RegionTypeOK

\* The count of leaks, held against the threshold of leak_escalation.
LEMMA CountLeaksType ==
    ASSUME ObligationTypeOK, NEW S \in SUBSET Obligations
    PROVE  CountLeaks(S) \in 0 .. EscalateAfter
<1>1. Cardinality(S) \in Nat
  BY ConstantsAssumption, FS_Subset, FS_CardinalityType
<1> QED
  BY <1>1, ConstantsAssumption DEF CountLeaks, ObligationTypeOK

\* The state RuntimeState::new builds is well typed.
LEMMA TypeInit == Init => TypeOK
<1> SUFFICES ASSUME Init PROVE TypeOK
  OBVIOUS
<1> USE DEF Init
<1>1. RegionTypeOK
  BY DEF RegionTypeOK, RegionStates, Reasons, NoReason, Outcomes, NoOutcome
<1>2. FinalizerTypeOK
  BY DEF FinalizerTypeOK
<1>3. TaskTypeOK
  BY DEF TaskTypeOK, TaskStates, Reasons, NoReason, Outcomes, NoOutcome
<1>4. ObligationTypeOK
  BY ConstantsAssumption DEF ObligationTypeOK, ObligationStates
<1>5. ControlTypeOK
  BY DEF ControlTypeOK
<1> QED
  BY <1>1, <1>2, <1>3, <1>4, <1>5 DEF TypeOK

\* One iteration of advance_region_state, or one finalizer started, keeps the types.
LEMMA TypeAdvance ==
    ASSUME TypeOK, Advance PROVE TypeOK'
<1> USE DEF TypeOK
<1>1. PICK r \in Regions :
        \/ AdvanceToFinalizing(r)
        \/ AdvanceToDraining(r)
        \/ AdvanceLeaks(r)
        \/ AdvanceToClosed(r)
        \/ AdvanceStops(r)
        \/ \E panics \in BOOLEAN : RunSyncFinalizer(r, panics)
        \/ \E t \in Tasks : SpawnFinalizer(r, t)
  BY DEF Advance
<1>2. CASE AdvanceToFinalizing(r)
  BY <1>2 DEF AdvanceToFinalizing, RegionTypeOK, FinalizerTypeOK, TaskTypeOK,
     ObligationTypeOK, ControlTypeOK, RegionStates, taskVars, obligationVars, control
<1>3. CASE AdvanceToDraining(r)
  BY <1>3 DEF AdvanceToDraining, RegionTypeOK, FinalizerTypeOK, TaskTypeOK,
     ObligationTypeOK, ControlTypeOK, RegionStates, taskVars, obligationVars, finalizerVars
<1>4. CASE AdvanceLeaks(r)
  <2>1. Released(PendingIn(r)) \in [Regions -> Nat]
    BY ReleasedType DEF PendingIn
  <2>2. CountLeaks(PendingIn(r)) \in 0 .. EscalateAfter
    BY CountLeaksType DEF PendingIn
  <2> QED
    BY <1>4, <2>1, <2>2 DEF AdvanceLeaks, RegionTypeOK, FinalizerTypeOK, TaskTypeOK,
      ObligationTypeOK, ControlTypeOK, ObligationStates, LeakState, taskVars, finalizerVars
<1>5. CASE AdvanceToClosed(r)
  BY <1>5 DEF AdvanceToClosed, RegionTypeOK, FinalizerTypeOK, TaskTypeOK,
     ObligationTypeOK, ControlTypeOK, RegionStates, taskVars, obligationVars, Unlisted,
     Outcomes, NoOutcome, Ok, Cancelled, Panicked
<1>6. CASE AdvanceStops(r)
  BY <1>6 DEF AdvanceStops, RegionTypeOK, FinalizerTypeOK, TaskTypeOK,
     ObligationTypeOK, ControlTypeOK, taskVars, obligationVars, finalizerVars, regionVars
<1>7. ASSUME NEW panics \in BOOLEAN, RunSyncFinalizer(r, panics)
      PROVE  TypeOK'
  BY <1>7 DEF RunSyncFinalizer, RegionTypeOK, FinalizerTypeOK, TaskTypeOK,
     ObligationTypeOK, ControlTypeOK, taskVars, obligationVars, control, SyncOnTop, Top, Pop,
     Outcomes, NoOutcome, Ok, Panicked, join
<1>8. ASSUME NEW t \in Tasks, SpawnFinalizer(r, t)
      PROVE  TypeOK'
  BY <1>8 DEF SpawnFinalizer, RegionTypeOK, FinalizerTypeOK, TaskTypeOK,
     ObligationTypeOK, ControlTypeOK, obligationVars, control, AsyncOnTop, Top, Pop, TaskStates
<1> QED
  BY <1>1, <1>2, <1>3, <1>4, <1>5, <1>6, <1>7, <1>8

\* Creating a region, task, obligation or finalizer keeps the types.
LEMMA TypeCreate ==
    ASSUME TypeOK, Create PROVE TypeOK'
<1> USE DEF TypeOK, RegionTypeOK, FinalizerTypeOK, TaskTypeOK, ObligationTypeOK,
            ControlTypeOK
<1>1. PICK r \in Regions :
        \/ CreateRootRegion(r)
        \/ \E p \in Regions : CreateChildRegion(p, r) \/ OpenScope(p, r)
        \/ \E t \in Tasks : CreateTask(r, t)
        \/ \E t \in Tasks, o \in Obligations : CreateObligation(r, t, o)
        \/ \E f \in Finalizers, async \in BOOLEAN : RegisterFinalizer(r, f, async)
  BY DEF Create
<1>2. CASE CreateRootRegion(r)
  BY <1>2 DEF CreateRootRegion, RegionStates, finalizerVars, taskVars,
     obligationVars, control
<1>3. ASSUME NEW p \in Regions, CreateChildRegion(p, r) \/ OpenScope(p, r)
      PROVE  TypeOK'
  <2>1. AttachChild(p, r) /\ factory' \in Regions \cup {None}
    BY <1>3 DEF CreateChildRegion, OpenScope
  <2> QED
    BY <2>1 DEF AttachChild, RegionStates, finalizerVars, taskVars, obligationVars
<1>4. ASSUME NEW t \in Tasks, CreateTask(r, t)
      PROVE  TypeOK'
  BY <1>4 DEF CreateTask, TaskStates, finalizerVars, obligationVars, control
<1>5. ASSUME NEW t \in Tasks, NEW o \in Obligations, CreateObligation(r, t, o)
      PROVE  TypeOK'
  BY <1>5 DEF CreateObligation, ObligationStates, finalizerVars, taskVars, control
<1>6. ASSUME NEW f \in Finalizers, NEW async \in BOOLEAN,
             RegisterFinalizer(r, f, async)
      PROVE  TypeOK'
  BY <1>6 DEF RegisterFinalizer, regionVars, taskVars, obligationVars, control
<1> QED
  BY <1>1, <1>2, <1>3, <1>4, <1>5, <1>6

\* request_cancel_with_budget leaves task states and reasons of their types.
LEMMA RequestTypes ==
    ASSUME TypeOK, NEW S, NEW reason \in [Tasks -> Reasons]
    PROVE  /\ RequestCancel(S) \in [Tasks -> TaskStates]
           /\ RequestReason(S, reason) \in [Tasks -> Reasons]
  BY DEF TypeOK, TaskTypeOK, RequestCancel, RequestReason, TaskStates, strengthen, Reasons

\* The regions, reasons and worklist that cancel_request writes are well typed.
LEMMA CancelSubtreeTypes ==
    ASSUME TypeOK, NEW r \in Regions, NEW kind \in Reasons, NEW also \in SUBSET Regions,
           CancelSubtree(r, kind, also)
    PROVE  /\ cancelReason' \in [Regions -> Reasons]
           /\ rstate' \in [Regions -> RegionStates]
           /\ treason' \in [Tasks -> Reasons]
           /\ todo' \subseteq Regions
<1> USE DEF TypeOK, RegionTypeOK, TaskTypeOK
<1>1. treason' \in [Tasks -> Reasons]
  <2>1. [t \in Tasks |-> IF owner[t] = r THEN kind ELSE ParentCancelled] \in [Tasks -> Reasons]
    BY DEF Reasons, NoReason, ParentCancelled
  <2> QED
    BY <2>1, RequestTypes DEF CancelSubtree
<1>2. todo' \subseteq Regions
  BY DEF CancelSubtree, Present
<1>3. rstate' \in [Regions -> RegionStates]
  BY DEF CancelSubtree, RegionStates
<1>4. cancelReason' \in [Regions -> Reasons]
  BY DEF CancelSubtree, Reasons, NoReason, ParentCancelled, strengthen
<1> QED
  BY <1>1, <1>2, <1>3, <1>4

\* Cancel, close and resolve requests keep the types.
LEMMA TypeRequest ==
    ASSUME TypeOK, Request,
           \A o \in Obligations : ostate[o] = "Reserved" => oregion[o] \in Regions
    PROVE TypeOK'
<1> USE DEF TypeOK, RegionTypeOK, FinalizerTypeOK, TaskTypeOK, ObligationTypeOK,
            ControlTypeOK
<1>0. /\ FailFast \in Reasons
      /\ \A kind \in CancelKinds : kind \in Reasons
  BY ConstantsAssumption DEF FailFast, Reasons, NoReason
<1>1. ASSUME NEW r \in Regions, CloseRegion(r)
      PROVE  TypeOK'
  BY <1>1 DEF CloseRegion, RegionStates, finalizerVars, taskVars, obligationVars
<1>2. ASSUME NEW r \in Regions, NEW kind \in CancelKinds,
             CancelRequest(r, kind) \/ CancelAndClose(r, kind)
      PROVE  TypeOK'
  <2>1. \E also \in SUBSET Regions : CancelSubtree(r, kind, also)
    BY <1>2 DEF CancelRequest, CancelAndClose
  <2>2. tstate' \in [Tasks -> TaskStates]
    BY <1>2 DEF CancelRequest, CancelAndClose, RequestCancel, TaskStates
  <2>3. UNCHANGED <<parent, children, rtasks, pending, closeOutcome, rootRegion,
                    finalizerVars, owner, ack, outcome, obligationVars, factory, drain>>
    BY <1>2 DEF CancelRequest, CancelAndClose
  <2> QED
    BY <1>0, <2>1, <2>2, <2>3, CancelSubtreeTypes DEF finalizerVars, obligationVars
<1>3. ASSUME NEW S, NEW kind \in Reasons, CancelTasks(S, kind)
      PROVE  TypeOK'
  BY <1>3 DEF CancelTasks, RequestCancel, RequestReason, TaskStates, Reasons, strengthen,
     regionVars, finalizerVars, obligationVars, control
<1>4. ASSUME NEW t \in Tasks, NEW kind \in CancelKinds, CancelTask(t, kind)
      PROVE  TypeOK'
  BY <1>0, <1>3, <1>4 DEF CancelTask
<1>5. ASSUME NEW r \in Regions, NEW t \in Tasks, CancelSiblings(r, t)
      PROVE  TypeOK'
  BY <1>0, <1>3, <1>5 DEF CancelSiblings
<1>6. ASSUME NEW o \in Obligations, NEW how \in {"Committed", "Aborted", "Leaked"},
             ResolveObligation(o, how)
      PROVE  TypeOK'
  <2>1. Released({o}) \in [Regions -> Nat]
    BY ReleasedType
  <2> QED
    BY <1>6, <2>1 DEF ResolveObligation, ObligationStates, finalizerVars, taskVars
<1>7. CASE FactoryReturns
  BY <1>7 DEF FactoryReturns, regionVars, finalizerVars, taskVars, obligationVars
<1>8. CASE FactoryPanics
  <2>1. factory \in Regions /\ CancelSubtree(factory, FailFast, {factory})
    BY <1>8 DEF FactoryPanics
  <2>2. tstate' \in [Tasks -> TaskStates]
    BY <1>8 DEF FactoryPanics, RequestCancel, TaskStates
  <2>3. rtasks' \in [Regions -> SUBSET Tasks]
    BY <1>8 DEF FactoryPanics
  <2>4. /\ factory' = None
        /\ UNCHANGED <<parent, children, pending, closeOutcome, rootRegion,
                       finalizerVars, owner, ack, outcome, obligationVars, drain>>
    BY <1>8 DEF FactoryPanics
  <2> QED
    BY <1>0, <2>1, <2>2, <2>3, <2>4, CancelSubtreeTypes DEF finalizerVars, obligationVars
<1> QED
  BY <1>1, <1>2, <1>4, <1>5, <1>6, <1>7, <1>8 DEF Request

\* The steps of the worker, task_completed included, keep the types.
LEMMA TypeExecute ==
    ASSUME TypeOK, Execute, \A t \in InArena : owner[t] \in Regions
    PROVE  TypeOK'
<1> USE DEF TypeOK, RegionTypeOK, FinalizerTypeOK, TaskTypeOK, ObligationTypeOK,
            ControlTypeOK
<1>1. ASSUME NEW t \in Tasks, StartRunning(t)
      PROVE  TypeOK'
  BY <1>1 DEF StartRunning, TaskStates, regionVars, finalizerVars, obligationVars, control
<1>2. ASSUME NEW t \in Tasks, Checkpoint(t)
      PROVE  TypeOK'
  BY <1>2 DEF Checkpoint, regionVars, finalizerVars, obligationVars, control
<1>3. ASSUME NEW t \in Tasks, PollPending(t)
      PROVE  TypeOK'
  BY <1>3 DEF PollPending, TaskStates, regionVars, finalizerVars, obligationVars, control
<1>4. ASSUME NEW t \in Tasks, NEW final \in Outcomes \cup {NoOutcome},
             t \in InArena, TaskCompleted(t, final),
             ack' \in [Tasks -> BOOLEAN], outcome' \in [Tasks -> Outcomes \cup {NoOutcome}]
      PROVE  TypeOK'
  <2>1. Released(Pending(t)) \in [Regions -> Nat]
    BY ReleasedType DEF Pending
  <2>2. owner[t] \in Regions
    BY <1>4
  <2>3. RegionTypeOK' /\ ControlTypeOK'
    BY <1>4, <2>1, <2>2 DEF TaskCompleted, Outcomes, NoOutcome, Ok, Panicked, join
  <2>4. FinalizerTypeOK'
    BY <1>4, <2>2 DEF TaskCompleted
  <2>5. TaskTypeOK'
    BY <1>4 DEF TaskCompleted, TaskStates, Reasons, NoReason
  <2>6. ObligationTypeOK'
    <3>1. CountLeaks(LeakedBy(t, final)) \in 0 .. EscalateAfter
      BY CountLeaksType DEF LeakedBy, Pending
    <3> QED
      BY <1>4, <3>1 DEF TaskCompleted, ObligationStates, LeakState
  <2> QED
    BY <2>1, <2>2, <2>3, <2>4, <2>5, <2>6
<1>5. ASSUME NEW t \in Tasks, NEW polled \in Outcomes, PollEnds(t, polled)
      PROVE  /\ t \in InArena
             /\ CompletedOutcome(t, polled) \in Outcomes
             /\ ack' \in [Tasks -> BOOLEAN]
             /\ outcome' \in [Tasks -> Outcomes \cup {NoOutcome}]
  BY <1>5 DEF PollEnds, Live, CompletedOutcome, Outcomes, Ok, Cancelled, Panicked
<1>6. ASSUME NEW t \in Tasks, NEW polled \in Outcomes, PollReady(t, polled)
      PROVE  TypeOK'
  BY <1>4, <1>5, <1>6 DEF PollReady
<1>7. ASSUME NEW t \in Tasks, NEW polled \in Outcomes, PollReadyUnwinds(t, polled)
      PROVE  TypeOK'
  <2>1. Released(Pending(t)) \in [Regions -> Nat]
    BY ReleasedType DEF Pending
  <2>2. CountLeaks(Pending(t)) \in 0 .. EscalateAfter
    BY CountLeaksType DEF Pending
  <2> QED
    BY <1>5, <1>7, <2>1, <2>2 DEF PollReadyUnwinds, TaskStates, ObligationStates, finalizerVars
<1>8. ASSUME NEW t \in Tasks, GuardRetries(t)
      PROVE  TypeOK'
  BY <1>4, <1>8 DEF GuardRetries, InArena
<1>9. CASE ScheduleReadyFinalizers
  BY <1>9 DEF ScheduleReadyFinalizers, regionVars, finalizerVars, taskVars, obligationVars
<1>10. CASE DrainEnds
  BY <1>10 DEF DrainEnds, regionVars, finalizerVars, taskVars, obligationVars
<1> QED
  BY <1>1, <1>2, <1>3, <1>6, <1>7, <1>8, <1>9, <1>10 DEF Execute

-----------------------------------------------------------------------------
(* The ownership tree.                                                     *)

\* The shape of the tree: who is in the arenas, and who names whom.
SameTree ==
    /\ UNCHANGED <<parent, children, rtasks, owner>>
    /\ Present' = Present
    /\ InArena' = InArena
    /\ \A r \in Regions : rstate'[r] = "Free" <=> rstate[r] = "Free"

\* Advancing a region leaves the tree alone unless it closes or spawns.
LEMMA SameTreeAdvance ==
    ASSUME TypeOK, NEW r \in Regions,
           \/ AdvanceToFinalizing(r)
           \/ AdvanceToDraining(r)
           \/ AdvanceLeaks(r)
           \/ AdvanceStops(r)
           \/ \E panics \in BOOLEAN : RunSyncFinalizer(r, panics)
    PROVE  SameTree
<1> USE DEF TypeOK, RegionTypeOK, SameTree, Present, InArena, taskVars, regionVars
<1>1. CASE AdvanceToFinalizing(r)
  BY <1>1 DEF AdvanceToFinalizing, ReadyToFinalize
<1>2. CASE AdvanceToDraining(r)
  BY <1>2 DEF AdvanceToDraining, ReadyToDrain
<1>3. CASE AdvanceLeaks(r)
  BY <1>3 DEF AdvanceLeaks
<1>4. CASE AdvanceStops(r)
  BY <1>4 DEF AdvanceStops
<1>5. ASSUME NEW panics \in BOOLEAN, RunSyncFinalizer(r, panics)
      PROVE  SameTree
  BY <1>5 DEF RunSyncFinalizer
<1> QED
  BY <1>1, <1>2, <1>3, <1>4, <1>5

\* Obligations and finalizers are created without touching the tree.
LEMMA SameTreeCreate ==
    ASSUME TypeOK, NEW r \in Regions,
           \/ \E t \in Tasks, o \in Obligations : CreateObligation(r, t, o)
           \/ \E f \in Finalizers, async \in BOOLEAN : RegisterFinalizer(r, f, async)
    PROVE  SameTree
  BY DEF CreateObligation, RegisterFinalizer, SameTree, Present, InArena, taskVars,
         regionVars

\* A cancel request neither admits nor removes a task.
LEMMA RequestCancelKeepsArena ==
    ASSUME TypeOK, NEW S, NEW t \in Tasks
    PROVE  RequestCancel(S)[t] \in {"Free", "Gone"} <=> tstate[t] \in {"Free", "Gone"}
  BY DEF RequestCancel

\* cancel_request neither creates nor removes a region.
LEMMA CancelSubtreeKeepsPresent ==
    ASSUME TypeOK, NEW r \in Regions, NEW kind, NEW also, CancelSubtree(r, kind, also)
    PROVE  /\ Present' = Present
           /\ \A x \in Regions : rstate'[x] = "Free" <=> rstate[x] = "Free"
  BY DEF CancelSubtree, Present

\* No request but a panicking factory removes anything from the tree.
LEMMA SameTreeRequest ==
    ASSUME TypeOK, Request, ~FactoryPanics
    PROVE  SameTree
<1> USE DEF TypeOK, RegionTypeOK, TaskTypeOK, SameTree, Present, InArena, taskVars, regionVars
<1>1. ASSUME NEW r \in Regions, CloseRegion(r)
      PROVE  SameTree
  BY <1>1 DEF CloseRegion
<1>2. ASSUME NEW r \in Regions, NEW kind \in CancelKinds,
             CancelRequest(r, kind) \/ CancelAndClose(r, kind)
      PROVE  SameTree
  BY <1>2, CancelSubtreeKeepsPresent, RequestCancelKeepsArena DEF CancelRequest, CancelAndClose
<1>3. ASSUME NEW S, NEW kind, CancelTasks(S, kind)
      PROVE  SameTree
  BY <1>3, RequestCancelKeepsArena DEF CancelTasks
<1>4. ASSUME NEW o \in Obligations, NEW how, ResolveObligation(o, how)
      PROVE  SameTree
  BY <1>4 DEF ResolveObligation
<1>5. CASE FactoryReturns
  BY <1>5 DEF FactoryReturns
<1> QED
  BY <1>1, <1>2, <1>3, <1>4, <1>5 DEF Request, CancelTask, CancelSiblings

\* No step of the worker but task_completed removes anything from the tree.
LEMMA SameTreeExecute ==
    ASSUME TypeOK, Execute,
           ~ \E t \in Tasks : GuardRetries(t) \/ \E polled \in Outcomes : PollReady(t, polled)
    PROVE  SameTree
<1> USE DEF TypeOK, RegionTypeOK, TaskTypeOK, SameTree, Present, InArena, taskVars, regionVars
<1>1. ASSUME NEW t \in Tasks, StartRunning(t) \/ Checkpoint(t) \/ PollPending(t)
      PROVE  SameTree
  BY <1>1 DEF StartRunning, Checkpoint, PollPending, Live
<1>2. ASSUME NEW t \in Tasks, NEW polled \in Outcomes, PollReadyUnwinds(t, polled)
      PROVE  SameTree
  BY <1>2 DEF PollReadyUnwinds, PollEnds, Live
<1>3. CASE ScheduleReadyFinalizers \/ DrainEnds
  BY <1>3 DEF ScheduleReadyFinalizers, DrainEnds
<1> QED
  BY <1>1, <1>2, <1>3 DEF Execute

\* A step that leaves the tree alone keeps it consistent.
LEMMA TreeSame ==
    ASSUME TypeOK, TreeConsistent, NewRegionsBlank, SameTree
    PROVE  TreeConsistent' /\ NewRegionsBlank'
  BY DEF TreeConsistent, NewRegionsBlank, SameTree

\* Removing a closed region keeps the tree consistent: it has no child or task left.
LEMMA TreeClosed ==
    ASSUME TypeOK, TreeConsistent, NewRegionsBlank, NEW r \in Regions, AdvanceToClosed(r)
    PROVE  TreeConsistent' /\ NewRegionsBlank'
<1> USE DEF TypeOK, RegionTypeOK, TaskTypeOK
<1>1. Present' = Present \ {r}
  BY DEF AdvanceToClosed, Present
<1>2. InArena' = InArena
  BY DEF AdvanceToClosed, InArena, taskVars
<1>3. rtasks[r] = {} /\ children[r] = {} /\ r \in Present
  BY DEF AdvanceToClosed, CanCompleteClose, NoBarrier, Present
<1>4. UNCHANGED <<parent, rtasks, owner>>
  BY DEF AdvanceToClosed, taskVars
<1>5. \A x \in Regions : children'[x] = IF parent[r] = x THEN children[x] \ {r} ELSE children[x]
  BY ConstantsAssumption DEF AdvanceToClosed, Unlisted
<1>6. NewRegionsBlank'
  BY <1>4 DEF NewRegionsBlank, AdvanceToClosed
<1>7. TreeConsistent'
  <2>1. ASSUME NEW x \in Regions
        PROVE  children'[x] = {c \in Present' : parent'[c] = x}
    <3>1. children[x] = {c \in Present : parent[c] = x}
      BY DEF TreeConsistent
    <3>2. {c \in Present' : parent'[c] = x} = {c \in Present \ {r} : parent[c] = x}
      BY <1>1, <1>4
    <3>3. children'[x] = children[x] \ {r}
      BY <1>5, <3>1
    <3> QED
      BY <3>1, <3>2, <3>3
  <2>2. \A c \in Present' : parent'[c] # None => parent'[c] \in Present'
    BY <1>1, <1>3, <1>4 DEF TreeConsistent
  <2>3. \A x \in Regions : rtasks'[x] = {t \in InArena' : owner'[t] = x}
    BY <1>2, <1>4 DEF TreeConsistent
  <2>4. \A t \in InArena' : owner'[t] \in Present'
    BY <1>1, <1>2, <1>3, <1>4 DEF TreeConsistent
  <2> QED
    BY <2>1, <2>2, <2>3, <2>4 DEF TreeConsistent
<1> QED
  BY <1>6, <1>7

\* Admitting a task into a present region keeps the tree consistent.
LEMMA TreeSpawn ==
    ASSUME TypeOK, TreeConsistent, NewRegionsBlank, NEW r \in Present, NEW t \in Tasks,
           CreateTask(r, t) \/ SpawnFinalizer(r, t)
    PROVE  TreeConsistent' /\ NewRegionsBlank'
<1> USE DEF TypeOK, RegionTypeOK, TaskTypeOK
<1>1. /\ tstate[t] = "Free"
      /\ UNCHANGED <<parent, children, rstate>>
      /\ rtasks' = [rtasks EXCEPT ![r] = @ \cup {t}]
      /\ owner' = [owner EXCEPT ![t] = r]
      /\ tstate' = [tstate EXCEPT ![t] = "Created"]
  BY DEF CreateTask, SpawnFinalizer
<1>2. Present' = Present /\ InArena' = InArena \cup {t} /\ t \notin InArena
  BY <1>1 DEF Present, InArena
<1> QED
  BY <1>1, <1>2 DEF TreeConsistent, NewRegionsBlank, Present, InArena

\* Creating a root, or a child of an open region, keeps the tree consistent.
LEMMA TreeCreateRegion ==
    ASSUME TypeOK, TreeConsistent, NewRegionsBlank, NEW r \in Regions,
           CreateRootRegion(r) \/ \E p \in Regions : AttachChild(p, r)
    PROVE  TreeConsistent' /\ NewRegionsBlank'
<1> USE DEF TypeOK, RegionTypeOK, TaskTypeOK, taskVars
<1>1. CASE CreateRootRegion(r)
  <2>1. Present' = Present \cup {r} /\ InArena' = InArena /\ r \notin Present
    BY <1>1 DEF CreateRootRegion, Present, InArena
  <2> QED
    BY <1>1, <2>1, ConstantsAssumption DEF CreateRootRegion, TreeConsistent, NewRegionsBlank
<1>2. ASSUME NEW p \in Regions, AttachChild(p, r)
      PROVE  TreeConsistent' /\ NewRegionsBlank'
  <2>1. Present' = Present \cup {r} /\ InArena' = InArena /\ r \notin Present /\ p \in Present
    BY <1>2 DEF AttachChild, Present, InArena
  <2> QED
    BY <1>2, <2>1, ConstantsAssumption DEF AttachChild, TreeConsistent, NewRegionsBlank
<1> QED
  BY <1>1, <1>2

\* task_completed removes the task from the arena and from its owner alike.
LEMMA TreeCompleted ==
    ASSUME TypeOK, TreeConsistent, NewRegionsBlank, NEW t \in InArena, NEW final,
           TaskCompleted(t, final)
    PROVE  TreeConsistent' /\ NewRegionsBlank'
<1> USE DEF TypeOK, RegionTypeOK, TaskTypeOK
<1>1. Present' = Present /\ InArena' = InArena \ {t}
  BY DEF TaskCompleted, Present, InArena
<1> QED
  BY <1>1 DEF TaskCompleted, TreeConsistent, NewRegionsBlank, Present, InArena

\* Reaping the tasks of a panicked factory removes them from both sides.
LEMMA TreeFactoryPanics ==
    ASSUME TypeOK, TreeConsistent, NewRegionsBlank, FactoryPanics
    PROVE  TreeConsistent' /\ NewRegionsBlank'
<1> USE DEF TypeOK, RegionTypeOK, TaskTypeOK, ControlTypeOK
<1> DEFINE reaped == {t \in Tasks : /\ owner[t] = factory
                                    /\ tstate[t] \in {"Created", "Running", "CancelRequested"}}
<1>1. factory \in Regions
  BY DEF FactoryPanics
<1>2. Present' = Present /\ \A x \in Regions : rstate'[x] = "Free" <=> rstate[x] = "Free"
  BY <1>1, CancelSubtreeKeepsPresent DEF FactoryPanics
<1>3. InArena' = InArena \ reaped
  BY RequestCancelKeepsArena DEF FactoryPanics, InArena
<1>4. /\ UNCHANGED <<parent, children, owner>>
      /\ rtasks' = [rtasks EXCEPT ![factory] = @ \ reaped]
  BY DEF FactoryPanics
<1> QED
  BY <1>1, <1>2, <1>3, <1>4 DEF TreeConsistent, NewRegionsBlank

-----------------------------------------------------------------------------
(* Obligations.                                                            *)

\* A region's reserved obligations are finitely many, so they can be counted.
LEMMA PendingInFinite ==
    ASSUME NEW r
    PROVE  IsFiniteSet(PendingIn(r)) /\ Cardinality(PendingIn(r)) \in Nat
<1>1. PendingIn(r) \in SUBSET Obligations
  BY DEF PendingIn
<1> QED
  BY <1>1, ConstantsAssumption, FS_Subset, FS_CardinalityType

\* Resolving a set S of reserved obligations keeps the counters exact.
LEMMA ReleaseKeepsAccount ==
    ASSUME TypeOK, ObligationAccounting, NEW S \in SUBSET Obligations,
           \A o \in S : ostate[o] = "Reserved",
           \A o \in Obligations :
              ostate'[o] = "Reserved" <=> ostate[o] = "Reserved" /\ o \notin S,
           pending' = Released(S), oregion' = oregion, Present' = Present
    PROVE  ObligationAccounting'
<1>1. ASSUME NEW r \in Regions
      PROVE  pending'[r] = Cardinality(PendingIn(r)')
  <2> DEFINE mine == {o \in S : oregion[o] = r}
  <2>1. PendingIn(r)' = PendingIn(r) \ mine
    BY DEF PendingIn
  <2>2. PendingIn(r) \cap mine = mine
    BY DEF PendingIn
  <2>3. /\ Cardinality(PendingIn(r)') = Cardinality(PendingIn(r)) - Cardinality(mine)
        /\ Cardinality(mine) \in Nat
        /\ Cardinality(PendingIn(r)') \in Nat
    BY <2>1, <2>2, PendingInFinite, FS_Difference, FS_Intersection, FS_CardinalityType
  <2>4. pending[r] = Cardinality(PendingIn(r))
    BY DEF ObligationAccounting
  <2>5. CASE r \in Present
    <3>1. Cardinality(mine) <= pending[r]
      BY <2>3, <2>4, PendingInFinite
    <3> HIDE DEF mine
    <3>2. pending'[r] = pending[r] - Cardinality(mine)
      BY <2>5, <3>1 DEF Released, mine
    <3> QED
      BY <2>3, <2>4, <3>2
  <2>6. CASE r \notin Present
    <3>1. PendingIn(r)' = PendingIn(r)
      BY <2>6 DEF ObligationAccounting, PendingIn
    <3> QED
      BY <2>4, <2>6, <3>1 DEF Released
  <2> QED
    BY <2>5, <2>6
<1>2. \A o \in Obligations : ostate'[o] = "Reserved" => oregion'[o] \in Present'
  BY DEF ObligationAccounting
<1> QED
  BY <1>1, <1>2 DEF ObligationAccounting

\* A step that leaves obligations, counters and arena alone keeps the account.
LEMMA AccountSame ==
    ASSUME ObligationAccounting, UNCHANGED <<pending, ostate, oregion>>, 
           Present \subseteq Present'
    PROVE  ObligationAccounting'
<1>1. \A r : PendingIn(r)' = PendingIn(r)
  BY DEF PendingIn
<1> QED
  BY <1>1 DEF ObligationAccounting

\* A region closes with no reserved obligation, so the account survives it.
LEMMA AccountClosed ==
    ASSUME TypeOK, ObligationAccounting, NEW r \in Regions, AdvanceToClosed(r)
    PROVE  ObligationAccounting'
<1>1. Present' = Present \ {r}
  BY DEF AdvanceToClosed, Present, TypeOK, RegionTypeOK
<1>2. PendingIn(r) = {}
  BY PendingInFinite, FS_EmptySet DEF AdvanceToClosed, CanCompleteClose, ObligationAccounting
<1>3. \A x : PendingIn(x)' = PendingIn(x)
  BY DEF AdvanceToClosed, PendingIn, obligationVars
<1>4. UNCHANGED <<pending, ostate, oregion>>
  BY DEF AdvanceToClosed, obligationVars
<1>5. \A o \in Obligations : ostate[o] = "Reserved" => oregion[o] # r
  BY <1>2 DEF PendingIn
<1> QED
  BY <1>1, <1>3, <1>4, <1>5 DEF ObligationAccounting

\* create_obligation counts the record it makes, in a region of the arena.
LEMMA AccountCreate ==
    ASSUME TypeOK, ObligationAccounting, NEW r \in Regions, NEW t \in Tasks,
           NEW o \in Obligations, CreateObligation(r, t, o)
    PROVE  ObligationAccounting'
<1> USE DEF TypeOK, RegionTypeOK, ObligationTypeOK
<1>1. Present' = Present /\ r \in Present
  BY DEF CreateObligation, Present
<1>2. ASSUME NEW x \in Regions
      PROVE  pending'[x] = Cardinality(PendingIn(x)')
  <2>1. CASE x = r
    <3>1. PendingIn(r)' = PendingIn(r) \cup {o} /\ o \notin PendingIn(r)
      BY DEF CreateObligation, PendingIn
    <3>2. Cardinality(PendingIn(r)') = Cardinality(PendingIn(r)) + 1
      BY <3>1, PendingInFinite, FS_AddElement
    <3> QED
      BY <2>1, <3>2 DEF CreateObligation, ObligationAccounting
  <2>2. CASE x # r
    <3>1. PendingIn(x)' = PendingIn(x)
      BY <2>2 DEF CreateObligation, PendingIn
    <3> QED
      BY <2>2, <3>1 DEF CreateObligation, ObligationAccounting
  <2> QED
    BY <2>1, <2>2
<1> QED
  BY <1>1, <1>2 DEF CreateObligation, ObligationAccounting

\* Marking the leaks of a finalizing region releases exactly what it counted.
LEMMA AccountLeaks ==
    ASSUME TypeOK, ObligationAccounting, NEW r \in Regions, AdvanceLeaks(r)
    PROVE  ObligationAccounting'
<1>1. PendingIn(r) \in SUBSET Obligations /\ \A o \in PendingIn(r) : ostate[o] = "Reserved"
  BY DEF PendingIn
<1>2. Present' = Present /\ oregion' = oregion /\ pending' = Released(PendingIn(r))
  BY DEF AdvanceLeaks, Present
<1>3. \A o \in Obligations :
        ostate'[o] = "Reserved" <=> ostate[o] = "Reserved" /\ o \notin PendingIn(r)
  BY DEF AdvanceLeaks, LeakState
<1> QED
  BY <1>1, <1>2, <1>3, ReleaseKeepsAccount

\* Commit, abort and leak release the one obligation they resolve.
LEMMA AccountResolve ==
    ASSUME TypeOK, ObligationAccounting, NEW o \in Obligations,
           NEW how \in {"Committed", "Aborted", "Leaked"}, ResolveObligation(o, how)
    PROVE  ObligationAccounting'
<1>1. Present' = Present /\ oregion' = oregion /\ pending' = Released({o})
  BY DEF ResolveObligation, Present
<1>2. \A p \in Obligations :
        ostate'[p] = "Reserved" <=> ostate[p] = "Reserved" /\ p \notin {o}
  BY DEF ResolveObligation, TypeOK, ObligationTypeOK
<1>3. \A p \in {o} : ostate[p] = "Reserved"
  BY DEF ResolveObligation
<1> QED
  BY <1>1, <1>2, <1>3, ReleaseKeepsAccount

\* Resolving every obligation of an ended task releases each exactly once.
LEMMA AccountCompleted ==
    ASSUME TypeOK, ObligationAccounting, NEW t \in Tasks,
           \/ \E final : TaskCompleted(t, final)
           \/ \E polled \in Outcomes : PollReadyUnwinds(t, polled)
    PROVE  ObligationAccounting'
<1>1. Pending(t) \in SUBSET Obligations /\ \A o \in Pending(t) : ostate[o] = "Reserved"
  BY DEF Pending
<1>2. Present' = Present /\ oregion' = oregion /\ pending' = Released(Pending(t))
  BY DEF TaskCompleted, PollReadyUnwinds, Present
<1>3. \A o \in Obligations :
        ostate'[o] = "Reserved" <=> ostate[o] = "Reserved" /\ o \notin Pending(t)
  BY DEF TaskCompleted, PollReadyUnwinds, LeakedBy, LeakState
<1> QED
  BY <1>1, <1>2, <1>3, ReleaseKeepsAccount

-----------------------------------------------------------------------------
(* Finalizers.                                                             *)

FinalizersKept == FinalizersTracked /\ NewFinalizersBlank

\* A step that leaves the finalizers and the arena alone keeps them tracked.
LEMMA TrackedSame ==
    ASSUME TypeOK, FinalizersKept,
           UNCHANGED <<finalizers, activeAsync, finalizerOf, fstate, fregion>>,
           Present \subseteq Present',
           \A t \in InArena : activeAsync[owner[t]] = t => t \in InArena' /\ owner'[t] = owner[t],
           factory' # None => ~drain' /\ activeAsync[factory'] = None
    PROVE  FinalizersKept'
  BY DEF FinalizersKept, FinalizersTracked, PendingTracked, RunningTracked, StacksOwn,
         BarriersOwn, FactoryUnbarriered, NewFinalizersBlank

\* A region that was never created has no barrier.
LEMMA BlankUnbarriered ==
    ASSUME TypeOK, TreeConsistent, FinalizersKept, NEW r \in Regions, rstate[r] = "Free"
    PROVE  activeAsync[r] = None
  BY DEF FinalizersKept, FinalizersTracked, BarriersOwn, TreeConsistent, Present

\* Registering pushes the finalizer on the stack of its region.
LEMMA TrackedRegister ==
    ASSUME TypeOK, FinalizersKept, NEW r \in Regions, NEW f \in Finalizers,
           NEW async \in BOOLEAN, RegisterFinalizer(r, f, async)
    PROVE  FinalizersKept'
<1> USE DEF TypeOK, FinalizerTypeOK, FinalizersKept, FinalizersTracked
<1>1. /\ Present' = Present /\ InArena' = InArena /\ r \in Present
      /\ UNCHANGED <<activeAsync, finalizerOf, owner, factory, drain>>
  BY DEF RegisterFinalizer, Present, InArena, regionVars, taskVars, control
<1>2. /\ fstate' = [fstate EXCEPT ![f] = "Pending"]
      /\ fregion' = [fregion EXCEPT ![f] = r]
      /\ fstate[f] = "Free" /\ fregion[f] = None
      /\ finalizers' = [finalizers EXCEPT ![r] = Append(@, f)]
  BY DEF RegisterFinalizer, NewFinalizersBlank
<1>3. /\ Len(finalizers'[r]) = Len(finalizers[r]) + 1
      /\ finalizers'[r][Len(finalizers[r]) + 1] = f
      /\ \A i \in 1..Len(finalizers[r]) : finalizers'[r][i] = finalizers[r][i]
      /\ \A x \in Regions : x # r => finalizers'[x] = finalizers[x]
      /\ \A x \in Regions : Len(finalizers[x]) \in Nat
  BY <1>2
<1>4. PendingTracked'
  BY <1>1, <1>2, <1>3, ConstantsAssumption DEF PendingTracked, Present
<1>5. RunningTracked'
  BY <1>1, <1>2 DEF RunningTracked
<1>6. StacksOwn'
  <2> SUFFICES ASSUME NEW x \in Regions, NEW i \in 1..Len(finalizers'[x])
               PROVE  fregion'[finalizers'[x][i]] = x
    BY DEF StacksOwn
  <2>1. CASE x = r /\ i = Len(finalizers[r]) + 1
    BY <2>1, <1>2, <1>3
  <2>2. CASE ~(x = r /\ i = Len(finalizers[r]) + 1)
    <3>1. i \in 1..Len(finalizers[x]) /\ finalizers'[x][i] = finalizers[x][i]
      BY <2>2, <1>3
    <3>2. fregion[finalizers[x][i]] = x /\ finalizers[x][i] # f
      BY <3>1, <1>2, ConstantsAssumption DEF StacksOwn
    <3> QED
      BY <3>1, <3>2, <1>2
  <2> QED
    BY <2>1, <2>2
<1>7. BarriersOwn' /\ FactoryUnbarriered'
  BY <1>1 DEF BarriersOwn, FactoryUnbarriered
<1>8. NewFinalizersBlank'
  BY <1>2 DEF NewFinalizersBlank
<1> QED
  BY <1>4, <1>5, <1>6, <1>7, <1>8

\* Popping the top of a stack leaves the rest of it in place.
LEMMA PopKeeps ==
    ASSUME TypeOK, NEW r \in Regions, finalizers[r] # << >>
    PROVE  /\ Top(r) \in Finalizers
           /\ Len(finalizers[r]) \in 1..Len(finalizers[r])
           /\ Len(Pop(r)) = Len(finalizers[r]) - 1
           /\ \A i \in 1..Len(Pop(r)) : /\ i \in 1..Len(finalizers[r])
                                        /\ Pop(r)[i] = finalizers[r][i]
           /\ \A i \in 1..Len(finalizers[r]) :
                 finalizers[r][i] # Top(r) => i \in 1..Len(Pop(r))
<1> DEFINE s == finalizers[r]
<1>1. s \in Seq(Finalizers) /\ s # << >>
  BY DEF TypeOK, FinalizerTypeOK
<1> HIDE DEF s
<1>2. Len(s) \in 1..Len(s) /\ s[Len(s)] \in Finalizers
  BY <1>1
<1> DEFINE n == Len(s) - 1
           p == SubSeq(s, 1, n)
<1>3. n \in Nat /\ Len(s) = n + 1 /\ \A i \in 1..n : s[i] \in Finalizers
  BY <1>1, <1>2
<1> HIDE DEF n
<1>4. /\ Len(p) = IF 1 <= n THEN n - 1 + 1 ELSE 0
      /\ \A i \in 1..(n - 1 + 1) : p[i] = s[1 + i - 1]
  BY <1>3, SubSeqProperties
<1> HIDE DEF p
<1>5. Len(p) = n /\ \A i \in 1..n : p[i] = s[i]
  BY <1>3, <1>4
<1>6. Pop(r) = p /\ Top(r) = s[Len(s)]
  BY DEF Pop, Top, p, n, s
<1>7. \A i \in 1..Len(s) : s[i] # s[Len(s)] => i \in 1..n
  BY <1>3
<1> QED
  BY <1>2, <1>3, <1>5, <1>6, <1>7 DEF s

\* Popping leaves every stack with finalizers of its own region.
LEMMA StacksOwnPop ==
    ASSUME TypeOK, StacksOwn, NEW r \in Regions, finalizers[r] # << >>,
           finalizers' = [finalizers EXCEPT ![r] = Pop(r)], fregion' = fregion
    PROVE  StacksOwn'
<1>1. finalizers'[r] = Pop(r) /\ \A x \in Regions : x # r => finalizers'[x] = finalizers[x]
  BY DEF TypeOK, FinalizerTypeOK
<1> QED
  BY <1>1, PopKeeps DEF StacksOwn

\* A finalizer that waits is not the one that was popped, so it stays on its stack.
LEMMA PendingTrackedPop ==
    ASSUME TypeOK, PendingTracked, NEW r \in Regions, finalizers[r] # << >>,
           finalizers' = [finalizers EXCEPT ![r] = Pop(r)], fregion' = fregion,
           NEW s \in {"Running", "Run"}, fstate' = [fstate EXCEPT ![Top(r)] = s],
           Present' = Present
    PROVE  PendingTracked'
<1> SUFFICES ASSUME NEW f \in Finalizers, fstate'[f] = "Pending"
             PROVE  /\ fregion[f] \in Present
                    /\ \E i \in 1..Len(finalizers'[fregion[f]]) : finalizers'[fregion[f]][i] = f
  BY DEF PendingTracked
<1>1. f # Top(r) /\ fstate[f] = "Pending"
  BY PopKeeps DEF TypeOK, FinalizerTypeOK
<1>2. PICK i \in 1..Len(finalizers[fregion[f]]) : finalizers[fregion[f]][i] = f
  BY <1>1 DEF PendingTracked
<1>3. fregion[f] \in Present /\ fregion[f] \in Regions
  BY <1>1 DEF PendingTracked, Present
<1>4. finalizers'[r] = Pop(r) /\ \A x \in Regions : x # r => finalizers'[x] = finalizers[x]
  BY DEF TypeOK, FinalizerTypeOK
<1>5. CASE fregion[f] = r
  BY <1>1, <1>2, <1>3, <1>4, <1>5, PopKeeps
<1>6. CASE fregion[f] # r
  BY <1>2, <1>3, <1>4, <1>6
<1> QED
  BY <1>5, <1>6

\* Running a sync finalizer loses no other finalizer.
LEMMA TrackedRunSync ==
    ASSUME TypeOK, FinalizersKept, NEW r \in Regions, NEW panics \in BOOLEAN,
           RunSyncFinalizer(r, panics)
    PROVE  FinalizersKept'
<1> USE DEF TypeOK, FinalizerTypeOK, FinalizersKept, FinalizersTracked
<1>1. /\ Present' = Present /\ InArena' = InArena
      /\ UNCHANGED <<activeAsync, finalizerOf, owner, factory, drain, fregion>>
  BY DEF RunSyncFinalizer, Present, InArena, taskVars, control
<1>2. /\ finalizers[r] # << >>
      /\ fstate' = [fstate EXCEPT ![Top(r)] = "Run"]
      /\ finalizers' = [finalizers EXCEPT ![r] = Pop(r)]
  BY DEF RunSyncFinalizer, SyncOnTop
<1>3. PendingTracked' /\ StacksOwn'
  BY <1>1, <1>2, StacksOwnPop, PendingTrackedPop
<1>4. RunningTracked' /\ NewFinalizersBlank'
  BY <1>1, <1>2, PopKeeps DEF RunningTracked, NewFinalizersBlank
<1>5. BarriersOwn' /\ FactoryUnbarriered'
  BY <1>1 DEF BarriersOwn, FactoryUnbarriered
<1> QED
  BY <1>3, <1>4, <1>5

\* spawn_finalizer_task moves the finalizer from the stack to the barrier.
LEMMA TrackedSpawn ==
    ASSUME TypeOK, FinalizersKept, NEW r \in Regions, NEW t \in Tasks, SpawnFinalizer(r, t)
    PROVE  FinalizersKept'
<1> USE DEF TypeOK, FinalizerTypeOK, TaskTypeOK, FinalizersKept, FinalizersTracked
<1>1. /\ Present' = Present /\ InArena' = InArena \cup {t} /\ t \notin InArena
      /\ r \in Present
      /\ UNCHANGED <<factory, drain, fregion>>
  BY DEF SpawnFinalizer, Present, InArena, taskVars, control
<1>2. /\ finalizers[r] # << >>
      /\ fstate' = [fstate EXCEPT ![Top(r)] = "Running"]
      /\ finalizers' = [finalizers EXCEPT ![r] = Pop(r)]
      /\ activeAsync[r] = None
      /\ activeAsync' = [activeAsync EXCEPT ![r] = t]
      /\ finalizerOf' = [finalizerOf EXCEPT ![t] = Top(r)]
      /\ owner' = [owner EXCEPT ![t] = r]
      /\ drain
  BY DEF SpawnFinalizer, AsyncOnTop, DrainVisits
<1>3. PendingTracked' /\ StacksOwn'
  BY <1>1, <1>2, StacksOwnPop, PendingTrackedPop
<1>4. fregion[Top(r)] = r /\ Top(r) \in Finalizers
  BY <1>2, PopKeeps DEF StacksOwn, Top
<1>5. RunningTracked'
  <2> SUFFICES ASSUME NEW f \in Finalizers, fstate'[f] = "Running"
               PROVE  /\ fregion[f] \in Present
                      /\ activeAsync'[fregion[f]] # None
                      /\ finalizerOf'[activeAsync'[fregion[f]]] = f
    BY <1>1 DEF RunningTracked
  <2>1. CASE f = Top(r)
    BY <1>1, <1>2, <1>4, <2>1, ConstantsAssumption
  <2>2. CASE f # Top(r)
    BY <1>1, <1>2, <2>2 DEF RunningTracked, BarriersOwn, Present
  <2> QED
    BY <2>1, <2>2
<1>6. BarriersOwn'
  BY <1>1, <1>2, <1>4, ConstantsAssumption DEF BarriersOwn, InArena
<1>7. FactoryUnbarriered' /\ NewFinalizersBlank'
  BY <1>1, <1>2, <1>4 DEF FactoryUnbarriered, NewFinalizersBlank
<1> QED
  BY <1>3, <1>5, <1>6, <1>7

\* task_completed lifts the barrier exactly when the finalizer behind it has run.
LEMMA TrackedCompleted ==
    ASSUME TypeOK, TreeConsistent, FinalizersKept, factory = None, NEW t \in InArena,
           NEW final, TaskCompleted(t, final)
    PROVE  FinalizersKept'
<1> USE DEF TypeOK, FinalizerTypeOK, TaskTypeOK, FinalizersKept, FinalizersTracked
<1> DEFINE r == owner[t]
           f == finalizerOf[t]
<1>1. /\ Present' = Present /\ InArena' = InArena \ {t} /\ r \in Regions /\ t \in Tasks
      /\ UNCHANGED <<owner, fregion, finalizers, factory>>
  BY DEF TaskCompleted, Present, InArena, TreeConsistent
<1>2. /\ fstate' = IF f # None THEN [fstate EXCEPT ![f] = "Run"] ELSE fstate
      /\ finalizerOf' = [finalizerOf EXCEPT ![t] = None]
      /\ activeAsync' = IF f # None /\ activeAsync[r] = t
                        THEN [activeAsync EXCEPT ![r] = None] ELSE activeAsync
  BY DEF TaskCompleted
<1>3. \A g \in Finalizers : fstate'[g] \in {"Free", "Pending", "Running"}
                            => fstate'[g] = fstate[g] /\ g # f
  BY <1>2, <1>1, ConstantsAssumption
<1>4. \A x \in Regions : activeAsync'[x] # None =>
                            activeAsync'[x] = activeAsync[x] /\ activeAsync[x] # t
  BY <1>1, <1>2 DEF BarriersOwn
<1>5. \A x \in Regions : activeAsync[x] # None /\ activeAsync[x] # t
                            => activeAsync'[x] = activeAsync[x]
  BY <1>1, <1>2
<1> HIDE DEF f, r
<1>6. PendingTracked' /\ StacksOwn' /\ NewFinalizersBlank' /\ FactoryUnbarriered'
  BY <1>1, <1>3 DEF PendingTracked, StacksOwn, NewFinalizersBlank, FactoryUnbarriered
<1>7. RunningTracked'
  <2> SUFFICES ASSUME NEW g \in Finalizers, fstate'[g] = "Running"
               PROVE  /\ fregion[g] \in Present
                      /\ activeAsync'[fregion[g]] # None
                      /\ finalizerOf'[activeAsync'[fregion[g]]] = g
    BY <1>1 DEF RunningTracked
  <2>1. fstate[g] = "Running" /\ g # f
    BY <1>3
  <2>2. /\ fregion[g] \in Regions /\ fregion[g] \in Present
        /\ activeAsync[fregion[g]] # None
        /\ finalizerOf[activeAsync[fregion[g]]] = g
    BY <2>1 DEF RunningTracked, Present
  <2>3. activeAsync[fregion[g]] # t
    BY <2>1, <2>2 DEF f
  <2> QED
    BY <1>1, <1>2, <1>5, <2>2, <2>3
<1>8. BarriersOwn'
  <2> SUFFICES ASSUME NEW x \in Regions, activeAsync'[x] # None
               PROVE  /\ activeAsync'[x] \in InArena'
                      /\ owner'[activeAsync'[x]] = x
                      /\ finalizerOf'[activeAsync'[x]] # None
    BY DEF BarriersOwn
  <2>1. activeAsync'[x] = activeAsync[x] /\ activeAsync[x] # t
    BY <1>4
  <2> QED
    BY <1>1, <1>2, <2>1 DEF BarriersOwn
<1> QED
  BY <1>6, <1>7, <1>8

\* A closed region had neither a stack nor a barrier.
LEMMA TrackedClosed ==
    ASSUME TypeOK, FinalizersKept, NEW r \in Regions, AdvanceToClosed(r)
    PROVE  FinalizersKept'
<1> USE DEF TypeOK, FinalizerTypeOK, FinalizersKept, FinalizersTracked
<1>1. /\ Present' = Present \ {r} /\ InArena' = InArena
      /\ UNCHANGED <<owner, fregion, finalizers, factory, drain, fstate, activeAsync,
                     finalizerOf>>
  BY DEF AdvanceToClosed, Present, InArena, taskVars, RegionTypeOK
<1>2. finalizers[r] = << >> /\ activeAsync[r] = None
  BY DEF AdvanceToClosed, CanCompleteClose, NoBarrier
<1>3. PendingTracked'
  BY <1>1, <1>2 DEF PendingTracked
<1>4. RunningTracked'
  BY <1>1, <1>2 DEF RunningTracked
<1>5. StacksOwn' /\ NewFinalizersBlank' /\ FactoryUnbarriered' /\ BarriersOwn'
  BY <1>1 DEF StacksOwn, NewFinalizersBlank, FactoryUnbarriered, BarriersOwn
<1> QED
  BY <1>3, <1>4, <1>5

\* The tasks a panicked factory leaves are no finalizer tasks.
LEMMA TrackedFactoryPanics ==
    ASSUME TypeOK, FinalizersKept, FactoryPanics
    PROVE  FinalizersKept'
<1>1. Present' = Present
  BY CancelSubtreeKeepsPresent DEF FactoryPanics, TypeOK, ControlTypeOK
<1>2. ASSUME NEW t \in InArena, activeAsync[owner[t]] = t
      PROVE  t \in InArena' /\ owner'[t] = owner[t]
  <2>1. activeAsync[factory] = None /\ factory # None
    BY DEF FactoryPanics, FinalizersKept, FinalizersTracked, FactoryUnbarriered
  <2>2. owner[t] # factory
    BY <1>2, <2>1, ConstantsAssumption DEF InArena
  <2> QED
    BY <2>2, RequestCancelKeepsArena DEF FactoryPanics, InArena
<1>3. UNCHANGED <<finalizers, activeAsync, finalizerOf, fstate, fregion>> /\ factory' = None
  BY DEF FactoryPanics, finalizerVars
<1> QED
  BY <1>1, <1>2, <1>3, TrackedSame

-----------------------------------------------------------------------------
(* The inductive invariant.                                                *)

\* The inductive invariant holds initially ...
LEMMA IndInvInit == Init => IndInv
<1> SUFFICES ASSUME Init PROVE IndInv
  OBVIOUS
<1>1. Present = {} /\ InArena = {} /\ \A r : PendingIn(r) = {}
  BY DEF Init, Present, InArena, PendingIn
<1>2. TreeConsistent /\ NewRegionsBlank
  BY <1>1 DEF Init, TreeConsistent, NewRegionsBlank
<1>3. ObligationAccounting
  BY <1>1, FS_EmptySet DEF Init, ObligationAccounting
<1>4. FinalizersTracked /\ NewFinalizersBlank
  BY DEF Init, FinalizersTracked, PendingTracked, RunningTracked, StacksOwn, BarriersOwn,
         FactoryUnbarriered, NewFinalizersBlank
<1> QED
  BY <1>2, <1>3, <1>4, TypeInit DEF IndInv

\* ... is preserved by every step of advance_region_state and of the drain ...
LEMMA IndInvAdvance ==
    ASSUME IndInv, Advance PROVE IndInv'
<1>1. TypeOK'
  BY TypeAdvance DEF IndInv
<1>2. PICK r \in Regions :
        \/ AdvanceToFinalizing(r)
        \/ AdvanceToDraining(r)
        \/ AdvanceLeaks(r)
        \/ AdvanceToClosed(r)
        \/ AdvanceStops(r)
        \/ \E panics \in BOOLEAN : RunSyncFinalizer(r, panics)
        \/ \E t \in Tasks : SpawnFinalizer(r, t)
  BY DEF Advance
<1> USE DEF IndInv, FinalizersKept
<1>3. CASE AdvanceToFinalizing(r) \/ AdvanceToDraining(r) \/ AdvanceStops(r)
  <2>1. SameTree
    BY <1>3, SameTreeAdvance
  <2>2. UNCHANGED <<finalizers, activeAsync, finalizerOf, fstate, fregion, factory, drain,
                    pending, ostate, oregion>>
    BY <1>3 DEF AdvanceToFinalizing, AdvanceToDraining, AdvanceStops, finalizerVars,
                obligationVars, regionVars, control
  <2>3. FinalizersKept'
    BY <2>1, <2>2, TrackedSame DEF SameTree, FinalizersTracked, FactoryUnbarriered
  <2> QED
    BY <1>1, <2>1, <2>2, <2>3, TreeSame, AccountSame DEF SameTree
<1>4. CASE AdvanceLeaks(r)
  <2>1. SameTree
    BY <1>4, SameTreeAdvance
  <2>2. UNCHANGED <<finalizers, activeAsync, finalizerOf, fstate, fregion, factory, drain>>
    BY <1>4 DEF AdvanceLeaks, finalizerVars
  <2>3. FinalizersKept'
    BY <2>1, <2>2, TrackedSame DEF SameTree, FinalizersTracked, FactoryUnbarriered
  <2> QED
    BY <1>1, <1>4, <2>1, <2>3, TreeSame, AccountLeaks
<1>5. CASE AdvanceToClosed(r)
  BY <1>1, <1>5, TreeClosed, AccountClosed, TrackedClosed
<1>6. ASSUME NEW panics \in BOOLEAN, RunSyncFinalizer(r, panics)
      PROVE  IndInv'
  <2>1. SameTree
    BY <1>6, SameTreeAdvance
  <2>2. UNCHANGED <<pending, ostate, oregion>>
    BY <1>6 DEF RunSyncFinalizer, obligationVars
  <2> QED
    BY <1>1, <1>6, <2>1, <2>2, TreeSame, AccountSame, TrackedRunSync DEF SameTree
<1>7. ASSUME NEW t \in Tasks, SpawnFinalizer(r, t)
      PROVE  IndInv'
  <2>1. r \in Present /\ Present' = Present /\ UNCHANGED <<pending, ostate, oregion>>
    BY <1>7 DEF SpawnFinalizer, Present, obligationVars
  <2> QED
    BY <1>1, <1>7, <2>1, TreeSpawn, AccountSame, TrackedSpawn
<1> QED
  BY <1>2, <1>3, <1>4, <1>5, <1>6, <1>7

\* ... by every creation ...
LEMMA IndInvCreate ==
    ASSUME IndInv, Create PROVE IndInv'
<1>1. TypeOK'
  BY TypeCreate DEF IndInv
<1>2. PICK r \in Regions :
        \/ CreateRootRegion(r)
        \/ \E p \in Regions : CreateChildRegion(p, r) \/ OpenScope(p, r)
        \/ \E t \in Tasks : CreateTask(r, t)
        \/ \E t \in Tasks, o \in Obligations : CreateObligation(r, t, o)
        \/ \E f \in Finalizers, async \in BOOLEAN : RegisterFinalizer(r, f, async)
  BY DEF Create
<1> USE DEF IndInv, FinalizersKept
<1>3. ASSUME \/ CreateRootRegion(r)
             \/ \E p \in Regions : CreateChildRegion(p, r) \/ OpenScope(p, r)
      PROVE  IndInv'
  <2>1. CreateRootRegion(r) \/ \E p \in Regions : AttachChild(p, r)
    BY <1>3 DEF CreateChildRegion, OpenScope
  <2>2. /\ Present \subseteq Present' /\ InArena' = InArena /\ rstate[r] = "Free"
        /\ UNCHANGED <<finalizers, activeAsync, finalizerOf, fstate, fregion, owner, drain,
                       pending, ostate, oregion>>
    BY <2>1 DEF CreateRootRegion, AttachChild, Present, InArena, taskVars, finalizerVars,
       obligationVars, control, TypeOK, RegionTypeOK
  <2>3. factory' = factory \/ (factory' = r /\ ~drain)
    BY <1>3 DEF CreateRootRegion, CreateChildRegion, OpenScope, control, SchedulerMayRun, Idle
  <2>4. FinalizersKept'
    BY <2>2, <2>3, TrackedSame, BlankUnbarriered DEF FinalizersTracked, FactoryUnbarriered
  <2> QED
    BY <1>1, <2>1, <2>2, <2>4, TreeCreateRegion, AccountSame
<1>4. ASSUME NEW t \in Tasks, CreateTask(r, t)
      PROVE  IndInv'
  <2>1. /\ r \in Present /\ Present' = Present
        /\ UNCHANGED <<finalizers, activeAsync, finalizerOf, fstate, fregion, factory, drain,
                       pending, ostate, oregion>>
    BY <1>4 DEF CreateTask, Present, finalizerVars, obligationVars, control
  <2>2. \A u \in InArena : u \in InArena' /\ owner'[u] = owner[u]
    BY <1>4 DEF CreateTask, InArena, TypeOK, TaskTypeOK
  <2>3. FinalizersKept'
    BY <2>1, <2>2, TrackedSame DEF FinalizersTracked, FactoryUnbarriered
  <2> QED
    BY <1>1, <1>4, <2>1, <2>3, TreeSpawn, AccountSame
<1>5. ASSUME NEW t \in Tasks, NEW o \in Obligations, CreateObligation(r, t, o)
      PROVE  IndInv'
  <2>1. SameTree
    BY <1>5, SameTreeCreate
  <2>2. UNCHANGED <<finalizers, activeAsync, finalizerOf, fstate, fregion, factory, drain>>
    BY <1>5 DEF CreateObligation, finalizerVars, control
  <2>3. FinalizersKept'
    BY <2>1, <2>2, TrackedSame DEF SameTree, FinalizersTracked, FactoryUnbarriered
  <2> QED
    BY <1>1, <1>5, <2>1, <2>3, TreeSame, AccountCreate
<1>6. ASSUME NEW f \in Finalizers, NEW async \in BOOLEAN,
             RegisterFinalizer(r, f, async)
      PROVE  IndInv'
  <2>1. SameTree
    BY <1>6, SameTreeCreate
  <2>2. UNCHANGED <<pending, ostate, oregion>>
    BY <1>6 DEF RegisterFinalizer, regionVars, obligationVars
  <2> QED
    BY <1>1, <1>6, <2>1, <2>2, TreeSame, AccountSame, TrackedRegister DEF SameTree
<1> QED
  BY <1>2, <1>3, <1>4, <1>5, <1>6

\* ... by every request ...
LEMMA IndInvRequest ==
    ASSUME IndInv, Request PROVE IndInv'
<1>1. TypeOK'
  BY TypeRequest DEF IndInv, ObligationAccounting, Present
<1> USE DEF IndInv, FinalizersKept
<1>2. UNCHANGED <<finalizers, activeAsync, finalizerOf, fstate, fregion, drain>>
  BY DEF Request, CloseRegion, CancelRequest, CancelAndClose, CancelTask, CancelSiblings,
     CancelTasks, ResolveObligation, FactoryReturns, FactoryPanics, finalizerVars, control
<1>3. factory' = factory \/ factory' = None
  BY DEF Request, CloseRegion, CancelRequest, CancelAndClose, CancelTask, CancelSiblings,
     CancelTasks, ResolveObligation, FactoryReturns, FactoryPanics, control
<1>4. CASE FactoryPanics
  <2>1. Present' = Present
    BY <1>4, CancelSubtreeKeepsPresent DEF FactoryPanics, TypeOK, ControlTypeOK
  <2>2. UNCHANGED <<pending, ostate, oregion>>
    BY <1>4 DEF FactoryPanics, obligationVars
  <2> QED
    BY <1>1, <1>4, <2>1, <2>2, TreeFactoryPanics, TrackedFactoryPanics, AccountSame
<1>5. CASE ~FactoryPanics
  <2>1. SameTree
    BY <1>5, SameTreeRequest
  <2>2. FinalizersKept'
    BY <1>2, <1>3, <2>1, TrackedSame DEF SameTree, FinalizersTracked, FactoryUnbarriered
  <2>3. ObligationAccounting'
    <3>1. CASE \E o \in Obligations, how \in {"Committed", "Aborted", "Leaked"} :
                  ResolveObligation(o, how)
      BY <3>1, AccountResolve
    <3>2. CASE UNCHANGED <<pending, ostate, oregion>>
      BY <2>1, <3>2, AccountSame DEF SameTree
    <3> QED
      BY <1>5, <3>1, <3>2 DEF Request, CloseRegion, CancelRequest, CancelAndClose, CancelTask,
         CancelSiblings, CancelTasks, FactoryReturns, regionVars, obligationVars
  <2> QED
    BY <1>1, <2>1, <2>2, <2>3, TreeSame
<1> QED
  BY <1>4, <1>5

\* ... by every step of the worker ...
LEMMA IndInvExecute ==
    ASSUME IndInv, Execute PROVE IndInv'
<1>1. TypeOK'
  BY TypeExecute DEF IndInv, TreeConsistent, Present
<1> USE DEF IndInv, FinalizersKept
<1>2. ASSUME NEW t \in InArena, NEW final,
             TaskCompleted(t, final), factory = None
      PROVE  IndInv'
  <2>1. t \in Tasks
    BY DEF InArena
  <2> QED
    BY <1>1, <1>2, <2>1, TreeCompleted, AccountCompleted, TrackedCompleted
<1>3. ASSUME NEW t \in Tasks, NEW polled \in Outcomes, PollReady(t, polled)
      PROVE  IndInv'
  <2>1. t \in InArena /\ factory = None
    BY <1>3 DEF PollReady, PollEnds, Live, SchedulerMayRun
  <2> QED
    BY <1>2, <1>3, <2>1 DEF PollReady
<1>4. ASSUME NEW t \in Tasks, GuardRetries(t)
      PROVE  IndInv'
  <2>1. t \in InArena /\ factory = None
    BY <1>4 DEF GuardRetries, InArena, SchedulerMayRun
  <2> QED
    BY <1>2, <1>4, <2>1 DEF GuardRetries
<1>5. ASSUME ~ \E t \in Tasks : \/ GuardRetries(t)
                                \/ \E polled \in Outcomes : PollReady(t, polled)
      PROVE  IndInv'
  <2>1. SameTree
    BY <1>5, SameTreeExecute
  <2>2. /\ UNCHANGED <<finalizers, activeAsync, finalizerOf, fstate, fregion, factory>>
        /\ drain' => drain \/ factory = None
    BY <1>5 DEF Execute, StartRunning, Checkpoint, PollPending, PollReadyUnwinds, 
       ScheduleReadyFinalizers, DrainEnds, finalizerVars, control, SchedulerMayRun
  <2>3. FinalizersKept'
    BY <2>1, <2>2, TrackedSame DEF SameTree, FinalizersTracked, FactoryUnbarriered
  <2>4. ObligationAccounting'
    <3>1. CASE \E t \in Tasks, polled \in Outcomes : PollReadyUnwinds(t, polled)
      BY <3>1, AccountCompleted
    <3>2. CASE UNCHANGED <<pending, ostate, oregion>>
      BY <2>1, <3>2, AccountSame DEF SameTree
    <3> QED
      BY <1>5, <3>1, <3>2 DEF Execute, StartRunning, Checkpoint, PollPending,
         ScheduleReadyFinalizers, DrainEnds, regionVars, obligationVars
  <2> QED
    BY <1>1, <2>1, <2>3, <2>4, TreeSame
<1> QED
  BY <1>3, <1>4, <1>5

\* ... and by stuttering.
LEMMA IndInvStutter ==
    ASSUME IndInv, UNCHANGED vars PROVE IndInv'
<1> USE DEF IndInv, vars, regionVars, finalizerVars, taskVars, obligationVars, control
<1>1. TypeOK'
  BY DEF TypeOK, RegionTypeOK, FinalizerTypeOK, TaskTypeOK, ObligationTypeOK, ControlTypeOK
<1>2. TreeConsistent' /\ NewRegionsBlank'
  BY DEF TreeConsistent, NewRegionsBlank, Present, InArena
<1>3. ObligationAccounting'
  BY DEF ObligationAccounting, Present, PendingIn
<1>4. FinalizersTracked' /\ NewFinalizersBlank'
  BY DEF FinalizersTracked, PendingTracked, RunningTracked, StacksOwn, BarriersOwn,
     FactoryUnbarriered, NewFinalizersBlank, Present, InArena
<1> QED
  BY <1>1, <1>2, <1>3, <1>4

\* The inductive invariant holds in every state of RuntimeState.
THEOREM Invariance == Spec => []IndInv
<1>1. IndInv /\ [Next]_vars => IndInv'
  BY IndInvAdvance, IndInvCreate, IndInvRequest, IndInvExecute, IndInvStutter DEF Next
<1> QED
  BY <1>1, IndInvInit, PTL DEF Spec

\* Every field keeps its type; advance_region_state is never called for the
\* absent parent of a root.
THEOREM TypeCorrect == Spec => []TypeOK
<1>1. IndInv => TypeOK
  BY DEF IndInv
<1> QED
  BY <1>1, Invariance, PTL

\* Regions and tasks are listed by exactly the region that owns them, for trees
\* of any size and every order of creation, completion, cancellation and close.
THEOREM TreeIsConsistent == Spec => []TreeConsistent
<1>1. IndInv => TreeConsistent
  BY DEF IndInv
<1> QED
  BY <1>1, Invariance, PTL

\* The counter a region keeps of its pending obligations is exact, whatever the
\* leak response and even across the unwind of task_completed.
THEOREM ObligationsAccounted == Spec => []ObligationAccounting
<1>1. IndInv => ObligationAccounting
  BY DEF IndInv
<1> QED
  BY <1>1, Invariance, PTL

\* A registered finalizer that has not run is on its region's stack or is the
\* task that is the barrier of its region.
THEOREM NoFinalizerLost == Spec => []FinalizersTracked
<1>1. IndInv => FinalizersTracked
  BY DEF IndInv
<1> QED
  BY <1>1, Invariance, PTL

\* Region close implies quiescence: no task, child, obligation or finalizer of a
\* closed region is left over.
THEOREM CloseIsQuiescent == Spec => []QuiescentClose
<1>1. IndInv => QuiescentClose
  <2> SUFFICES ASSUME IndInv, NEW r \in Regions, rstate[r] = "Closed"
               PROVE  /\ \A t \in InArena : owner[t] # r
                      /\ \A c \in Present : parent[c] # r
                      /\ PendingIn(r) = {}
                      /\ \A f \in Finalizers : fregion[f] = r => fstate[f] = "Run"
    BY DEF QuiescentClose
  <2>1. r \notin Present /\ r # None
    BY ConstantsAssumption DEF Present
  <2>2. \A t \in InArena : owner[t] # r
    BY <2>1 DEF IndInv, TreeConsistent
  <2>3. \A c \in Present : parent[c] # r
    BY <2>1 DEF IndInv, TreeConsistent
  <2>4. PendingIn(r) = {}
    BY <2>1 DEF IndInv, ObligationAccounting, PendingIn
  <2>5. \A f \in Finalizers : fregion[f] = r => fstate[f] = "Run"
    BY <2>1 DEF IndInv, FinalizersTracked, PendingTracked, RunningTracked,
       NewFinalizersBlank, TypeOK, FinalizerTypeOK
  <2> QED
    BY <2>2, <2>3, <2>4, <2>5
<1> QED
  BY <1>1, Invariance, PTL

-----------------------------------------------------------------------------
(* The order in which finalizers run.                                      *)

\* Finalizers are numbered in the order of their registration, so a stack is
\* ascending and what waits on it is below what runs.
RegisteredInOrder ==
    \A f, g \in Finalizers : g < f /\ fstate[f] # "Free" => fstate[g] # "Free"
StacksAscend ==
    \A r \in Regions :
        /\ \A i \in 1..Len(finalizers[r]) : fstate[finalizers[r][i]] = "Pending"
        /\ \A i, j \in 1..Len(finalizers[r]) : i < j => finalizers[r][i] < finalizers[r][j]
\* A barrier belongs to a finalizing region, is a running finalizer of it, and
\* everything that still waits there was registered before it.
BarriersOnTop ==
    \A r \in Regions : activeAsync[r] # None =>
        /\ rstate[r] = "Finalizing"
        /\ \E f \in Finalizers :
              /\ finalizerOf[activeAsync[r]] = f
              /\ fstate[f] = "Running" /\ fregion[f] = r
              /\ \A i \in 1..Len(finalizers[r]) : finalizers[r][i] < f
\* A finalizer task is the barrier of the region that owns it.
FinalizerTasksAreBarriers ==
    \A t \in Tasks : finalizerOf[t] # None =>
        owner[t] \in Regions /\ activeAsync[owner[t]] = t
\* The list that drain_ready_async_finalizers walks is exact.
FinalizingListed == finalizingRegions = {r \in Regions : rstate[r] = "Finalizing"}

OrderInv ==
    /\ RegisteredInOrder
    /\ StacksAscend
    /\ BarriersOnTop
    /\ FinalizerTasksAreBarriers
    /\ FinalizingListed

\* A step that touches neither stacks nor barriers keeps the order.
LEMMA OrderSame ==
    ASSUME TypeOK, OrderInv,
           UNCHANGED <<finalizers, activeAsync, finalizerOf, fstate, fregion>>,
           \A r \in Regions : activeAsync[r] # None /\ rstate[r] = "Finalizing"
               => rstate'[r] = "Finalizing",
           \A t \in Tasks : finalizerOf[t] # None => owner'[t] = owner[t],
           FinalizingListed'
    PROVE  OrderInv'
<1>1. RegisteredInOrder' /\ StacksAscend'
  BY DEF OrderInv, RegisteredInOrder, StacksAscend
<1>2. BarriersOnTop'
  BY DEF OrderInv, BarriersOnTop
<1>3. FinalizerTasksAreBarriers'
  BY DEF OrderInv, FinalizerTasksAreBarriers
<1> QED
  BY <1>1, <1>2, <1>3 DEF OrderInv

\* A task that is not in the arena is nobody's finalizer task.
LEMMA OutsidersBlank ==
    ASSUME IndInv, OrderInv, NEW t \in Tasks, t \notin InArena
    PROVE  finalizerOf[t] = None
  BY ConstantsAssumption DEF IndInv, FinalizersTracked, BarriersOwn, OrderInv,
     FinalizerTasksAreBarriers

\* What was registered later on the region of the top of its stack, or of the
\* barrier above it, has run.
LEMMA NothingAboveTop ==
    ASSUME IndInv, OrderInv, NEW r \in Regions, finalizers[r] # << >>, activeAsync[r] = None
    PROVE  /\ Top(r) \in Finalizers /\ fregion[Top(r)] = r /\ fstate[Top(r)] = "Pending"
           /\ \A g \in Finalizers : g > Top(r) /\ fregion[g] = r => fstate[g] = "Run"
<1> USE DEF IndInv, TypeOK, FinalizersTracked, OrderInv
<1> DEFINE n == Len(finalizers[r])
<1>1. Top(r) \in Finalizers /\ n \in 1..n /\ Top(r) = finalizers[r][n]
  BY PopKeeps DEF Top
<1>2. fregion[Top(r)] = r /\ fstate[Top(r)] = "Pending"
  BY <1>1 DEF StacksOwn, StacksAscend
<1>3. ASSUME NEW g \in Finalizers, g > Top(r), fregion[g] = r PROVE fstate[g] = "Run"
  <2>1. fstate[g] # "Free"
    BY <1>3, ConstantsAssumption DEF NewFinalizersBlank
  <2>2. fstate[g] # "Running"
    BY <1>3 DEF RunningTracked
  <2>3. fstate[g] # "Pending"
    <3> SUFFICES ASSUME fstate[g] = "Pending" PROVE FALSE
      OBVIOUS
    <3>1. PICK i \in 1..n : finalizers[r][i] = g
      BY <1>3 DEF PendingTracked
    <3>2. \A j \in 1..n : j < n => finalizers[r][j] < Top(r)
      BY <1>1 DEF StacksAscend
    <3>3. i = n \/ i < n
      BY <1>1, <3>1
    <3>4. g = Top(r) \/ g < Top(r)
      BY <1>1, <3>1, <3>2, <3>3
    <3> QED
      BY <1>1, <1>3, <3>4, ConstantsAssumption DEF Finalizers
  <2> QED
    BY <2>1, <2>2, <2>3 DEF FinalizerTypeOK
<1> QED
  BY <1>1, <1>2, <1>3

\* Popping leaves an ascending stack below what was popped.
LEMMA PopAscends ==
    ASSUME IndInv, OrderInv, NEW r \in Regions, finalizers[r] # << >>, activeAsync[r] = None,
           NEW s \in {"Running", "Run"}, fstate' = [fstate EXCEPT ![Top(r)] = s],
           finalizers' = [finalizers EXCEPT ![r] = Pop(r)]
    PROVE  /\ RegisteredInOrder' /\ StacksAscend'
           /\ \A i \in 1..Len(finalizers'[r]) : finalizers'[r][i] < Top(r)
<1> USE DEF IndInv, TypeOK, FinalizerTypeOK, FinalizersTracked, OrderInv
<1> DEFINE n == Len(finalizers[r])
           m == Len(Pop(r))
<1>1. /\ Top(r) \in Finalizers /\ n \in 1..n /\ Top(r) = finalizers[r][n] /\ m = n - 1
      /\ \A i \in 1..m : i \in 1..n /\ Pop(r)[i] = finalizers[r][i]
  BY PopKeeps DEF Top
<1>2. fregion[Top(r)] = r /\ fstate[Top(r)] = "Pending"
  BY NothingAboveTop
<1>3. RegisteredInOrder'
  BY <1>2 DEF RegisteredInOrder
<1>4. finalizers'[r] = Pop(r) /\ \A x \in Regions : x # r => finalizers'[x] = finalizers[x]
  OBVIOUS
<1>5. \A i \in 1..m : i < n
  BY <1>1
<1>6. \A i \in 1..m : finalizers'[r][i] < Top(r)
  <2>1. \A i, j \in 1..n : i < j => finalizers[r][i] < finalizers[r][j]
    BY DEF StacksAscend
  <2> HIDE DEF n, m, IndInv, OrderInv
  <2> SUFFICES ASSUME NEW i \in 1..m PROVE finalizers'[r][i] < Top(r)
    OBVIOUS
  <2>2. i \in 1..n /\ i < n /\ finalizers'[r][i] = finalizers[r][i]
    BY <1>1, <1>4, <1>5
  <2>3. finalizers[r][i] < finalizers[r][n]
    BY <1>1, <2>1, <2>2
  <2> QED
    BY <1>1, <2>2, <2>3
<1>7. \A i \in 1..m : finalizers'[r][i] # Top(r)
  BY <1>1, <1>4, <1>6, ConstantsAssumption DEF Finalizers
<1>8. ASSUME NEW x \in Regions
      PROVE  /\ \A i \in 1..Len(finalizers'[x]) : fstate'[finalizers'[x][i]] = "Pending"
             /\ \A i, j \in 1..Len(finalizers'[x]) : i < j => finalizers'[x][i] < finalizers'[x][j]
  <2>1. CASE x = r
    <3>1. \A i \in 1..m : finalizers'[r][i] \in Finalizers /\ fstate[finalizers'[r][i]] = "Pending"
      <4>1. \A i \in 1..n : finalizers[r][i] \in Finalizers /\ fstate[finalizers[r][i]] = "Pending"
        BY DEF StacksAscend
      <4> HIDE DEF n, m, IndInv, OrderInv
      <4> QED
        BY <1>1, <1>4, <4>1
    <3>2. \A i \in 1..m : fstate'[finalizers'[r][i]] = "Pending"
      BY <1>7, <3>1
    <3>3. \A i, j \in 1..m : i < j => finalizers'[r][i] < finalizers'[r][j]
      BY <1>1, <1>4 DEF StacksAscend
    <3> QED
      BY <1>4, <2>1, <3>2, <3>3
  <2>2. CASE x # r
    <3>1. finalizers'[x] = finalizers[x] /\ x # None
      BY <1>4, <2>2, ConstantsAssumption
    <3>2. \A i \in 1..Len(finalizers[x]) : /\ fstate[finalizers[x][i]] = "Pending"
                                            /\ fregion[finalizers[x][i]] = x
                                            /\ finalizers[x][i] \in Finalizers
      BY DEF StacksAscend, StacksOwn
    <3>3. \A i \in 1..Len(finalizers[x]) : fstate'[finalizers[x][i]] = "Pending"
      BY <1>2, <2>2, <3>2
    <3> QED
      BY <3>1, <3>3 DEF StacksAscend
  <2> QED
    BY <2>1, <2>2
<1> QED
  BY <1>3, <1>4, <1>6, <1>8 DEF StacksAscend

\* Registering puts a finalizer above everything registered before.
LEMMA OrderRegister ==
    ASSUME IndInv, OrderInv, NEW r \in Regions, NEW f \in Finalizers, NEW async \in BOOLEAN,
           RegisterFinalizer(r, f, async)
    PROVE  OrderInv'
<1> USE DEF IndInv, TypeOK, FinalizerTypeOK, FinalizersTracked, OrderInv
<1>1. /\ fstate[f] = "Free" /\ rstate[r] = "Open"
      /\ \A g \in Finalizers : g < f => fstate[g] # "Free"
      /\ fstate' = [fstate EXCEPT ![f] = "Pending"]
      /\ fregion' = [fregion EXCEPT ![f] = r]
      /\ finalizers' = [finalizers EXCEPT ![r] = Append(finalizers[r], f)]
      /\ UNCHANGED <<rstate, finalizingRegions, activeAsync, finalizerOf, owner>>
  BY DEF RegisterFinalizer, regionVars, taskVars
<1>2. RegisteredInOrder'
  BY <1>1, ConstantsAssumption DEF RegisteredInOrder, Finalizers
<1>3. ASSUME NEW x \in Regions, NEW i \in 1..Len(finalizers[x])
      PROVE  /\ finalizers[x][i] \in Finalizers /\ finalizers[x][i] < f
             /\ fstate'[finalizers[x][i]] = "Pending"
  <2>1. finalizers[x][i] \in Finalizers /\ fstate[finalizers[x][i]] = "Pending"
    BY <1>3 DEF StacksAscend
  <2>2. ~(f < finalizers[x][i]) /\ finalizers[x][i] # f
    BY <1>1, <2>1 DEF RegisteredInOrder
  <2> QED
    BY <1>1, <2>1, <2>2, ConstantsAssumption DEF Finalizers
<1>4. StacksAscend'
  <2> SUFFICES ASSUME NEW x \in Regions
               PROVE  /\ \A i \in 1..Len(finalizers'[x]) : fstate'[finalizers'[x][i]] = "Pending"
                      /\ \A i, j \in 1..Len(finalizers'[x]) :
                            i < j => finalizers'[x][i] < finalizers'[x][j]
    BY DEF StacksAscend
  <2>1. CASE x # r
    <3>1. finalizers'[x] = finalizers[x]
      BY <1>1, <2>1
    <3> QED
      BY <1>3, <3>1 DEF StacksAscend
  <2>2. CASE x = r
    <3> DEFINE n == Len(finalizers[r])
               s == finalizers'[r]
    <3>1. /\ n \in Nat /\ Len(s) = n + 1 /\ s[n + 1] = f
          /\ \A i \in 1..n : s[i] = finalizers[r][i]
      BY <1>1, AppendProperties, LenProperties
    <3>2. \A i \in 1..n : s[i] < f /\ fstate'[s[i]] = "Pending"
      BY <1>3, <3>1
    <3>3. \A i, j \in 1..n : i < j => s[i] < s[j]
      BY <3>1 DEF StacksAscend
    <3> HIDE DEF n, s
    <3>4. \A i \in 1..Len(s) : i \in 1..n \/ i = n + 1
      BY <3>1
    <3>5. \A i, j \in 1..Len(s) : i < j => i \in 1..n
      BY <3>1
    <3>6. fstate'[f] = "Pending"
      BY <1>1
    <3>7. \A i \in 1..Len(s) : fstate'[s[i]] = "Pending"
      BY <3>1, <3>2, <3>4, <3>6
    <3>8. \A i, j \in 1..Len(s) : i < j => s[i] < s[j]
      BY <3>1, <3>2, <3>3, <3>4, <3>5
    <3> QED
      BY <2>2, <3>7, <3>8 DEF s
  <2> QED
    BY <2>1, <2>2
<1>5. BarriersOnTop'
  <2> SUFFICES ASSUME NEW x \in Regions, activeAsync[x] # None
               PROVE  /\ rstate'[x] = "Finalizing"
                      /\ \E g \in Finalizers :
                            /\ finalizerOf'[activeAsync'[x]] = g
                            /\ fstate'[g] = "Running" /\ fregion'[g] = x
                            /\ \A i \in 1..Len(finalizers'[x]) : finalizers'[x][i] < g
    BY <1>1 DEF BarriersOnTop
  <2>1. rstate[x] = "Finalizing" /\ x # r
    BY <1>1 DEF BarriersOnTop
  <2>2. PICK g \in Finalizers :
                            /\ finalizerOf[activeAsync[x]] = g
                            /\ fstate[g] = "Running" /\ fregion[g] = x
                            /\ \A i \in 1..Len(finalizers[x]) : finalizers[x][i] < g
    BY DEF BarriersOnTop
  <2>3. g # f /\ finalizers'[x] = finalizers[x]
    BY <1>1, <2>1, <2>2
  <2> QED
    BY <1>1, <2>1, <2>2, <2>3
<1>6. FinalizerTasksAreBarriers' /\ FinalizingListed'
  BY <1>1 DEF FinalizerTasksAreBarriers, FinalizingListed
<1> QED
  BY <1>2, <1>4, <1>5, <1>6

\* A sync finalizer or an async one leaves the top of the stack of a finalizing
\* region without a barrier.
LEMMA StartsOnTop ==
    ASSUME IndInv, OrderInv, NEW r \in Regions,
           (\E panics \in BOOLEAN : RunSyncFinalizer(r, panics)) \/ (\E t \in Tasks : SpawnFinalizer(r, t))
    PROVE  finalizers[r] # << >> /\ activeAsync[r] = None /\ rstate[r] = "Finalizing"
  BY DEF RunSyncFinalizer, SpawnFinalizer, NoBarrier, DrainVisits, SyncOnTop, AsyncOnTop,
     OrderInv, FinalizingListed

\* Running a sync finalizer keeps the order and runs the last one first.
LEMMA OrderRunSync ==
    ASSUME IndInv, OrderInv, NEW r \in Regions, NEW panics \in BOOLEAN,
           RunSyncFinalizer(r, panics)
    PROVE  OrderInv' /\ RunsLastFirst
<1> USE DEF IndInv, TypeOK, FinalizerTypeOK
<1>1. finalizers[r] # << >> /\ activeAsync[r] = None /\ rstate[r] = "Finalizing"
  BY StartsOnTop
<1>2. /\ fstate' = [fstate EXCEPT ![Top(r)] = "Run"]
      /\ finalizers' = [finalizers EXCEPT ![r] = Pop(r)]
      /\ UNCHANGED <<rstate, finalizingRegions, activeAsync, finalizerOf, fregion, owner>>
  BY DEF RunSyncFinalizer, taskVars
<1>3. /\ Top(r) \in Finalizers /\ fregion[Top(r)] = r /\ fstate[Top(r)] = "Pending"
      /\ \A g \in Finalizers : g > Top(r) /\ fregion[g] = r => fstate[g] = "Run"
  BY <1>1, NothingAboveTop
<1>4. RegisteredInOrder' /\ StacksAscend'
  BY <1>1, <1>2, PopAscends
<1>5. BarriersOnTop'
  <2> SUFFICES ASSUME NEW x \in Regions, activeAsync[x] # None
               PROVE  /\ rstate'[x] = "Finalizing"
                      /\ \E g \in Finalizers :
                            /\ finalizerOf'[activeAsync'[x]] = g
                            /\ fstate'[g] = "Running" /\ fregion'[g] = x
                            /\ \A i \in 1..Len(finalizers'[x]) : finalizers'[x][i] < g
    BY <1>2 DEF BarriersOnTop
  <2>1. rstate[x] = "Finalizing" /\ x # r
    BY <1>1 DEF OrderInv, BarriersOnTop
  <2>2. PICK g \in Finalizers :
                            /\ finalizerOf[activeAsync[x]] = g
                            /\ fstate[g] = "Running" /\ fregion[g] = x
                            /\ \A i \in 1..Len(finalizers[x]) : finalizers[x][i] < g
    BY DEF OrderInv, BarriersOnTop
  <2>3. g # Top(r) /\ finalizers'[x] = finalizers[x]
    BY <1>2, <1>3, <2>1, <2>2
  <2> QED
    BY <1>2, <2>1, <2>2, <2>3
<1>6. FinalizerTasksAreBarriers' /\ FinalizingListed'
  BY <1>2 DEF OrderInv, FinalizerTasksAreBarriers, FinalizingListed
<1>7. RunsLastFirst
  BY <1>1, <1>2, <1>3 DEF RunsLastFirst
<1> QED
  BY <1>4, <1>5, <1>6, <1>7 DEF OrderInv

\* Spawning an async finalizer makes it the barrier above the rest of its stack.
LEMMA OrderSpawn ==
    ASSUME IndInv, OrderInv, NEW r \in Regions, NEW t \in Tasks, SpawnFinalizer(r, t)
    PROVE  OrderInv' /\ RunsLastFirst
<1> USE DEF IndInv, TypeOK, FinalizerTypeOK, TaskTypeOK
<1>1. finalizers[r] # << >> /\ activeAsync[r] = None /\ rstate[r] = "Finalizing"
  BY StartsOnTop
<1>2. /\ fstate' = [fstate EXCEPT ![Top(r)] = "Running"]
      /\ finalizers' = [finalizers EXCEPT ![r] = Pop(r)]
      /\ activeAsync' = [activeAsync EXCEPT ![r] = t]
      /\ finalizerOf' = [finalizerOf EXCEPT ![t] = Top(r)]
      /\ owner' = [owner EXCEPT ![t] = r]
      /\ UNCHANGED <<rstate, finalizingRegions, fregion>>
      /\ t \notin InArena
  BY DEF SpawnFinalizer, InArena
<1>3. /\ Top(r) \in Finalizers /\ fregion[Top(r)] = r /\ fstate[Top(r)] = "Pending"
      /\ \A g \in Finalizers : g > Top(r) /\ fregion[g] = r => fstate[g] = "Run"
  BY <1>1, NothingAboveTop
<1>4. /\ RegisteredInOrder' /\ StacksAscend'
      /\ \A i \in 1..Len(finalizers'[r]) : finalizers'[r][i] < Top(r)
  BY <1>1, <1>2, PopAscends
<1>5. BarriersOnTop'
  <2> SUFFICES ASSUME NEW x \in Regions, activeAsync'[x] # None
               PROVE  /\ rstate'[x] = "Finalizing"
                      /\ \E g \in Finalizers :
                            /\ finalizerOf'[activeAsync'[x]] = g
                            /\ fstate'[g] = "Running" /\ fregion'[g] = x
                            /\ \A i \in 1..Len(finalizers'[x]) : finalizers'[x][i] < g
    BY DEF BarriersOnTop
  <2>1. CASE x = r
    <3>1. activeAsync'[x] = t /\ finalizerOf'[t] = Top(r) /\ fstate'[Top(r)] = "Running"
      BY <1>2, <1>3, <2>1
    <3> QED
      BY <1>1, <1>2, <1>3, <1>4, <2>1, <3>1
  <2>2. CASE x # r
    <3>1. activeAsync'[x] = activeAsync[x] /\ activeAsync[x] # None
      BY <1>2, <2>2
    <3>2. rstate[x] = "Finalizing"
      BY <3>1 DEF OrderInv, BarriersOnTop
    <3>3. PICK g \in Finalizers :
                              /\ finalizerOf[activeAsync[x]] = g
                              /\ fstate[g] = "Running" /\ fregion[g] = x
                              /\ \A i \in 1..Len(finalizers[x]) : finalizers[x][i] < g
      BY <3>1 DEF OrderInv, BarriersOnTop
    <3>4. g # Top(r) /\ finalizers'[x] = finalizers[x] /\ activeAsync[x] # t
      BY <1>2, <1>3, <2>2, <3>1, <3>3 DEF FinalizersTracked, BarriersOwn
    <3>5. finalizerOf'[activeAsync'[x]] = g
      BY <1>2, <3>1, <3>3, <3>4
    <3> QED
      BY <1>2, <3>2, <3>3, <3>4, <3>5
  <2> QED
    BY <2>1, <2>2
<1>6. FinalizerTasksAreBarriers'
  <2> SUFFICES ASSUME NEW u \in Tasks, finalizerOf'[u] # None
               PROVE  owner'[u] \in Regions /\ activeAsync'[owner'[u]] = u
    BY DEF FinalizerTasksAreBarriers
  <2>1. CASE u = t
    BY <1>2, <2>1
  <2>2. CASE u # t
    <3>1. owner[u] \in Regions /\ activeAsync[owner[u]] = u
      BY <1>2, <2>2 DEF OrderInv, FinalizerTasksAreBarriers
    <3>2. owner[u] # r
      BY <1>1, <3>1, ConstantsAssumption
    <3> QED
      BY <1>2, <2>2, <3>1, <3>2
  <2> QED
    BY <2>1, <2>2
<1>7. FinalizingListed'
  BY <1>2 DEF OrderInv, FinalizingListed
<1>8. RunsLastFirst
  BY <1>1, <1>2, <1>3 DEF RunsLastFirst
<1> QED
  BY <1>4, <1>5, <1>6, <1>7, <1>8 DEF OrderInv

\* A finalizer task that ends was the barrier: all above it has run.
LEMMA OrderCompleted ==
    ASSUME IndInv, OrderInv, NEW t \in InArena, NEW final,
           TaskCompleted(t, final)
    PROVE  OrderInv' /\ RunsLastFirst
<1> USE DEF IndInv, TypeOK, FinalizerTypeOK, TaskTypeOK
<1> DEFINE r == owner[t]
           f == finalizerOf[t]
<1>1. t \in Tasks /\ r \in Regions
  BY DEF InArena, TreeConsistent, Present
<1>2. /\ fstate' = IF f # None THEN [fstate EXCEPT ![f] = "Run"] ELSE fstate
      /\ finalizerOf' = [finalizerOf EXCEPT ![t] = None]
      /\ activeAsync' = IF f # None /\ activeAsync[r] = t
                        THEN [activeAsync EXCEPT ![r] = None] ELSE activeAsync
      /\ UNCHANGED <<rstate, finalizers, finalizingRegions, fregion, owner>>
  BY DEF TaskCompleted
<1>3. CASE f = None
  <2>1. UNCHANGED <<fstate, activeAsync, finalizerOf>>
    BY <1>1, <1>2, <1>3
  <2>2. OrderInv'
    BY <1>2, <2>1, OrderSame DEF OrderInv, FinalizingListed
  <2>3. RunsLastFirst
    BY <2>1 DEF RunsLastFirst
  <2> QED
    BY <2>2, <2>3
<1>4. CASE f # None
  <2>1. f \in Finalizers /\ activeAsync[r] = t
    BY <1>1, <1>4 DEF OrderInv, FinalizerTasksAreBarriers
  <2>2. /\ fstate' = [fstate EXCEPT ![f] = "Run"]
        /\ activeAsync' = [activeAsync EXCEPT ![r] = None]
    BY <1>2, <1>4, <2>1
  <2>3. /\ rstate[r] = "Finalizing" /\ fstate[f] = "Running" /\ fregion[f] = r
        /\ \A i \in 1..Len(finalizers[r]) : finalizers[r][i] < f
    BY <1>1, <2>1, ConstantsAssumption DEF OrderInv, BarriersOnTop
  <2> HIDE DEF f, r
  <2>4. RegisteredInOrder' /\ StacksAscend'
    BY <1>2, <2>1, <2>2, <2>3 DEF OrderInv, RegisteredInOrder, StacksAscend
  <2>5. BarriersOnTop'
    <3> SUFFICES ASSUME NEW x \in Regions, activeAsync'[x] # None
                 PROVE  /\ rstate'[x] = "Finalizing"
                        /\ \E g \in Finalizers :
                              /\ finalizerOf'[activeAsync'[x]] = g
                              /\ fstate'[g] = "Running" /\ fregion'[g] = x
                              /\ \A i \in 1..Len(finalizers'[x]) : finalizers'[x][i] < g
      BY DEF BarriersOnTop
    <3>1. x # r /\ activeAsync'[x] = activeAsync[x] /\ activeAsync[x] # None
      BY <1>1, <2>2
    <3>2. rstate[x] = "Finalizing" /\ activeAsync[x] # t
      BY <3>1 DEF OrderInv, BarriersOnTop, FinalizersTracked, BarriersOwn, r
    <3>3. PICK g \in Finalizers :
                              /\ finalizerOf[activeAsync[x]] = g
                              /\ fstate[g] = "Running" /\ fregion[g] = x
                              /\ \A i \in 1..Len(finalizers[x]) : finalizers[x][i] < g
      BY <3>1 DEF OrderInv, BarriersOnTop
    <3>4. g # f /\ finalizerOf'[activeAsync'[x]] = g
      BY <1>1, <1>2, <2>3, <3>1, <3>2, <3>3
    <3> QED
      BY <1>2, <2>2, <3>2, <3>3, <3>4
  <2>6. FinalizerTasksAreBarriers'
    <3> SUFFICES ASSUME NEW u \in Tasks, finalizerOf'[u] # None
                 PROVE  owner'[u] \in Regions /\ activeAsync'[owner'[u]] = u
      BY DEF FinalizerTasksAreBarriers
    <3>1. u # t
      BY <1>1, <1>2
    <3>2. owner[u] \in Regions /\ activeAsync[owner[u]] = u
      BY <1>2, <3>1 DEF OrderInv, FinalizerTasksAreBarriers
    <3> QED
      BY <1>2, <2>1, <2>2, <3>1, <3>2
  <2>7. FinalizingListed'
    BY <1>2 DEF OrderInv, FinalizingListed
  <2>8. ASSUME NEW g \in Finalizers, g > f, fregion[g] = r PROVE fstate[g] = "Run"
    <3>1. fstate[g] # "Free"
      BY <1>1, <2>8, ConstantsAssumption DEF NewFinalizersBlank
    <3>2. fstate[g] # "Running"
      <4>1. fstate[g] = "Running" => g = f
        BY <2>1, <2>8 DEF FinalizersTracked, RunningTracked, f
      <4> QED
        BY <2>1, <2>8, <4>1, ConstantsAssumption DEF Finalizers
    <3>3. fstate[g] # "Pending"
      <4>1. fstate[g] = "Pending" => g < f
        BY <2>3, <2>8 DEF FinalizersTracked, PendingTracked
      <4> QED
        BY <2>1, <2>8, <4>1, ConstantsAssumption DEF Finalizers
    <3> QED
      BY <3>1, <3>2, <3>3
  <2>9. RunsLastFirst
    BY <2>1, <2>2, <2>3, <2>8 DEF RunsLastFirst
  <2> QED
    BY <2>4, <2>5, <2>6, <2>7, <2>9 DEF OrderInv
<1> QED
  BY <1>3, <1>4

\* Advancing a region keeps the order, and runs the last finalizer first.
LEMMA OrderAdvance ==
    ASSUME IndInv, OrderInv, Advance PROVE OrderInv' /\ RunsLastFirst
<1> USE DEF IndInv, TypeOK, RegionTypeOK
<1>1. PICK r \in Regions :
        \/ AdvanceToFinalizing(r)
        \/ AdvanceToDraining(r)
        \/ AdvanceLeaks(r)
        \/ AdvanceToClosed(r)
        \/ AdvanceStops(r)
        \/ \E panics \in BOOLEAN : RunSyncFinalizer(r, panics)
        \/ \E t \in Tasks : SpawnFinalizer(r, t)
  BY DEF Advance
<1>2. CASE AdvanceToFinalizing(r) \/ AdvanceToDraining(r) \/ AdvanceLeaks(r)
           \/ AdvanceToClosed(r) \/ AdvanceStops(r)
  <2>1. UNCHANGED <<finalizers, activeAsync, finalizerOf, fstate, fregion, owner>>
    BY <1>2 DEF AdvanceToFinalizing, AdvanceToDraining, AdvanceLeaks, AdvanceToClosed,
       AdvanceStops, finalizerVars, taskVars
  <2>2. FinalizingListed /\ \A x \in Regions : activeAsync[x] # None => rstate[x] = "Finalizing"
    BY DEF OrderInv, BarriersOnTop
  <2>3. CASE AdvanceToFinalizing(r)
    BY <2>1, <2>2, <2>3, OrderSame DEF AdvanceToFinalizing, FinalizingListed, RunsLastFirst
  <2>4. CASE AdvanceToDraining(r)
    BY <2>1, <2>2, <2>4, OrderSame
    DEF AdvanceToDraining, ReadyToDrain, FinalizingListed, RunsLastFirst, finalizerVars
  <2>5. CASE AdvanceLeaks(r) \/ AdvanceStops(r)
    BY <2>1, <2>2, <2>5, OrderSame
    DEF AdvanceLeaks, AdvanceStops, FinalizingListed, RunsLastFirst, finalizerVars, regionVars
  <2>6. CASE AdvanceToClosed(r)
    BY <2>1, <2>2, <2>6, OrderSame
    DEF AdvanceToClosed, CanCompleteClose, NoBarrier, FinalizingListed, RunsLastFirst
  <2> QED
    BY <1>2, <2>3, <2>4, <2>5, <2>6
<1> QED
  BY <1>1, <1>2, OrderRunSync, OrderSpawn

\* Creating things keeps the order and starts no finalizer.
LEMMA OrderCreate ==
    ASSUME IndInv, OrderInv, Create PROVE OrderInv' /\ RunsLastFirst
<1> USE DEF IndInv, TypeOK, RegionTypeOK
<1>1. PICK r \in Regions :
        \/ CreateRootRegion(r)
        \/ \E p \in Regions : AttachChild(p, r)
        \/ \E t \in Tasks : CreateTask(r, t)
        \/ \E t \in Tasks, o \in Obligations : CreateObligation(r, t, o)
        \/ \E f \in Finalizers, async \in BOOLEAN : RegisterFinalizer(r, f, async)
  BY DEF Create, CreateChildRegion, OpenScope
<1>2. FinalizingListed /\ \A x \in Regions : activeAsync[x] # None => rstate[x] = "Finalizing"
  BY DEF OrderInv, BarriersOnTop
<1>3. CASE CreateRootRegion(r) \/ \E p \in Regions : AttachChild(p, r)
  <2>1. /\ rstate[r] = "Free" /\ rstate' = [rstate EXCEPT ![r] = "Open"]
        /\ UNCHANGED <<finalizers, finalizingRegions, activeAsync, finalizerOf, fstate, fregion,
                       owner>>
    BY <1>3 DEF CreateRootRegion, AttachChild, finalizerVars, taskVars
  <2> QED
    BY <1>2, <2>1, OrderSame DEF FinalizingListed, RunsLastFirst
<1>4. ASSUME NEW t \in Tasks, CreateTask(r, t) PROVE OrderInv' /\ RunsLastFirst
  <2>1. /\ t \notin InArena /\ owner' = [owner EXCEPT ![t] = r]
        /\ UNCHANGED <<finalizers, finalizingRegions, activeAsync, finalizerOf, fstate, fregion,
                       rstate>>
    BY <1>4 DEF CreateTask, finalizerVars, InArena
  <2>2. finalizerOf[t] = None
    BY <2>1, OutsidersBlank
  <2> QED
    BY <1>2, <2>1, <2>2, OrderSame DEF FinalizingListed, RunsLastFirst, TaskTypeOK
<1>5. ASSUME NEW t \in Tasks, NEW o \in Obligations, CreateObligation(r, t, o)
      PROVE  OrderInv' /\ RunsLastFirst
  BY <1>2, <1>5, OrderSame
  DEF CreateObligation, finalizerVars, taskVars, FinalizingListed, RunsLastFirst
<1>6. ASSUME NEW f \in Finalizers, NEW async \in BOOLEAN, RegisterFinalizer(r, f, async)
      PROVE  OrderInv' /\ RunsLastFirst
  <2>1. fstate[f] = "Free" /\ fstate' = [fstate EXCEPT ![f] = "Pending"]
    BY <1>6 DEF RegisterFinalizer
  <2>2. RunsLastFirst
    BY <2>1 DEF RunsLastFirst, FinalizerTypeOK
  <2> QED
    BY <1>6, <2>2, OrderRegister
<1> QED
  BY <1>1, <1>3, <1>4, <1>5, <1>6

\* Requests close open regions only.
LEMMA OrderRequest ==
    ASSUME IndInv, OrderInv, Request PROVE OrderInv' /\ RunsLastFirst
<1> USE DEF IndInv, TypeOK, RegionTypeOK
<1>1. UNCHANGED <<finalizers, finalizingRegions, activeAsync, finalizerOf, fstate, fregion, owner>>
  BY DEF Request, CloseRegion, CancelRequest, CancelAndClose, CancelTask, CancelSiblings,
     CancelTasks, ResolveObligation, FactoryReturns, FactoryPanics, finalizerVars, taskVars
<1>2. \A x \in Regions : rstate'[x] = rstate[x] \/ (rstate[x] = "Open" /\ rstate'[x] = "Closing")
  <2>1. ASSUME NEW r \in Regions, CloseRegion(r)
        PROVE  \A x \in Regions : rstate'[x] = rstate[x] \/ (rstate[x] = "Open" /\ rstate'[x] = "Closing")
    BY <2>1 DEF CloseRegion
  <2>2. ASSUME NEW r, NEW kind, NEW also, CancelSubtree(r, kind, also)
        PROVE  \A x \in Regions : rstate'[x] = rstate[x] \/ (rstate[x] = "Open" /\ rstate'[x] = "Closing")
    BY <2>2 DEF CancelSubtree
  <2> QED
    BY <2>1, <2>2 DEF Request, CancelRequest, CancelAndClose, CancelTask, CancelSiblings,
       CancelTasks, ResolveObligation, FactoryReturns, FactoryPanics, regionVars
<1>3. \A x \in Regions : rstate'[x] = "Finalizing" <=> rstate[x] = "Finalizing"
  BY <1>2
<1>4. FinalizingListed'
  BY <1>1, <1>3 DEF OrderInv, FinalizingListed
<1> QED
  BY <1>1, <1>3, <1>4, OrderSame DEF RunsLastFirst

\* Of the steps of the worker only task_completed ends a finalizer.
LEMMA OrderExecute ==
    ASSUME IndInv, OrderInv, Execute PROVE OrderInv' /\ RunsLastFirst
<1>1. ASSUME NEW t \in Tasks, NEW polled \in Outcomes, PollReady(t, polled)
      PROVE  OrderInv' /\ RunsLastFirst
  BY <1>1, OrderCompleted DEF PollReady, PollEnds, Live
<1>2. ASSUME NEW t \in Tasks, GuardRetries(t)
      PROVE  OrderInv' /\ RunsLastFirst
  BY <1>2, OrderCompleted DEF GuardRetries, InArena
<1>3. CASE ~ \E t \in Tasks : GuardRetries(t) \/ \E polled \in Outcomes : PollReady(t, polled)
  <2>1. UNCHANGED <<rstate, finalizers, finalizingRegions, activeAsync, finalizerOf, fstate,
                    fregion, owner>>
    BY <1>3 DEF Execute, StartRunning, Checkpoint, PollPending, PollReadyUnwinds,
       ScheduleReadyFinalizers, DrainEnds, finalizerVars, regionVars, taskVars
  <2>2. FinalizingListed'
    BY <2>1 DEF OrderInv, FinalizingListed
  <2> QED
    BY <2>1, <2>2, OrderSame DEF IndInv, RunsLastFirst
<1> QED
  BY <1>1, <1>2, <1>3

\* The order holds in every state of RuntimeState.
THEOREM OrderInvariance == Spec => []OrderInv
<1>1. Init => OrderInv
  BY DEF Init, OrderInv, RegisteredInOrder, StacksAscend, BarriersOnTop,
     FinalizerTasksAreBarriers, FinalizingListed
<1>2. OrderInv /\ UNCHANGED vars => OrderInv'
  BY DEF OrderInv, RegisteredInOrder, StacksAscend, BarriersOnTop, FinalizerTasksAreBarriers,
     FinalizingListed, vars, regionVars, finalizerVars, taskVars
<1>3. IndInv /\ OrderInv /\ [Next]_vars => OrderInv'
  BY <1>2, OrderAdvance, OrderCreate, OrderRequest, OrderExecute DEF Next
<1> QED
  BY <1>1, <1>3, Invariance, PTL DEF Spec

\* The finalizers of a region run last in, first out, sync and async ones mixed:
\* none starts or ends before every later one of the region has run, whatever
\* cancels, resolved obligations and passes of the idle loop come in between.
THEOREM FinalizersRunLastInFirstOut == Spec => FinalizersLIFO
<1>1. IndInv /\ OrderInv /\ [Next]_vars => [RunsLastFirst]_vars
  BY OrderAdvance, OrderCreate, OrderRequest, OrderExecute DEF Next
<1> QED
  BY <1>1, Invariance, OrderInvariance, PTL DEF Spec, FinalizersLIFO
=============================================================================
