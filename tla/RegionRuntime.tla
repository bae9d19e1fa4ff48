--------------------------- MODULE RegionRuntime ---------------------------
(***************************************************************************)
(* The structured-concurrency core of the runtime: RuntimeState            *)
(* (src/src/runtime/state.rs) over the region, task, obligation and        *)
(* finalizer records (src/src/record).                                     *)
(*                                                                         *)
(* Regions own tasks and child regions.  A region closes in stages, Open,  *)
(* Closing, Draining, Finalizing, Closed, and may only close when its      *)
(* tasks are gone, its children are closed, its obligations are resolved   *)
(* and its finalizers have run.                                            *)
(*                                                                         *)
(* Every method of RuntimeState takes &mut self, so a method is one        *)
(* critical section.  Most of them end in advance_region_state, a loop     *)
(* that walks up the tree; one iteration of that loop is one Advance       *)
(* action here.  The variable `todo' holds the regions the running         *)
(* critical section has still to advance and `drain' is TRUE while its     *)
(* call of drain_ready_async_finalizers is still to come.  Every other     *)
(* action waits until both are done, so no foreign step falls inside a     *)
(* critical section.                                                       *)
(*                                                                         *)
(* Abstractions: identifiers are never reused (the arenas are generation   *)
(* counted); a cancel reason is its severity (CancelKind::severity), an    *)
(* outcome is its Severity; budgets, traces, metrics and the protocol      *)
(* validators, which only log, are left out.                               *)
(***************************************************************************)
EXTENDS Integers, Sequences, FiniteSets

CONSTANTS
    Regions,        \* region identifiers
    Tasks,          \* task identifiers
    Obligations,    \* obligation identifiers
    NumFinalizers,  \* how many finalizers may be registered
    CancelKinds,    \* severities callers pass to the cancel operations
    MaxChildren,    \* RegionLimits::max_children
    MaxTasks,       \* RegionLimits::max_tasks
    MaxObligations, \* RegionLimits::max_obligations
    LeakResponse,   \* RuntimeConfig::obligation_leak_response
    EscalateAfter,  \* RuntimeConfig::leak_escalation: its threshold, 0 for none,
    EscalateTo,     \* ... and the response from then on
    None            \* the absent region, task or finalizer

Finalizers == 1..NumFinalizers

\* CancelKind::severity of the kinds the runtime itself issues.
FailFast == 3
ParentCancelled == 4
NoReason == -1
Reasons == NoReason..5

\* Severity of an Outcome, with the absent close_outcome below all of them.
Ok == 0
Err == 1
Cancelled == 2
Panicked == 3
NoOutcome == -1
Outcomes == Ok..Panicked

LeakResponses == {"Panic", "Log", "Silent", "Recover"}

ASSUME ConstantsAssumption ==
    /\ IsFiniteSet(Obligations)
    /\ NumFinalizers \in Nat
    /\ CancelKinds \subseteq 0..5
    /\ MaxChildren \in Nat /\ MaxTasks \in Nat /\ MaxObligations \in Nat
    /\ LeakResponse \in LeakResponses /\ EscalateTo \in LeakResponses
    /\ EscalateAfter \in Nat
    /\ None \notin Regions \cup Tasks \cup Finalizers

VARIABLES
    rstate,            \* RegionRecord::state ("Free" before creation)
    parent,            \* RegionRecord::parent
    children,          \* RegionInner::children
    rtasks,            \* RegionInner::tasks
    pending,           \* RegionInner::pending_obligations
    finalizers,        \* RegionInner::finalizers, a stack whose top is last
    cancelReason,      \* RegionInner::cancel_reason
    closeOutcome,      \* RegionInner::close_outcome
    rootRegion,        \* RuntimeState::root_region
    finalizingRegions, \* RuntimeState::finalizing_regions
    activeAsync,       \* RuntimeState::active_async_finalizers
    tstate,            \* TaskRecord::state ("Free", then after recycle "Gone")
    owner,             \* TaskRecord::owner
    treason,           \* reason carried by the cancelling task states
    ack,               \* CxInner::cancel_acknowledged
    outcome,           \* outcome a task completed with (history)
    finalizerOf,       \* RuntimeState::async_finalizer_tasks
    ostate,            \* ObligationRecord::state
    holder,            \* ObligationRecord::holder
    oregion,           \* ObligationRecord::region
    leakCount,         \* RuntimeState::leak_count, up to the threshold
    fstate,            \* a finalizer's life: "Free", "Pending", "Running", "Run"
    fregion,           \* the region a finalizer was registered on
    fasync,            \* Finalizer::Async rather than Finalizer::Sync
    factory,           \* scope whose factory closure holds the runtime
    todo,              \* regions this critical section has still to advance
    drain              \* this critical section still drains async finalizers

regionVars == <<rstate, parent, children, rtasks, pending, cancelReason,
                closeOutcome, rootRegion>>
finalizerVars == <<finalizers, finalizingRegions, activeAsync, finalizerOf,
                   fstate, fregion, fasync>>
taskVars == <<tstate, owner, treason, ack, outcome>>
obligationVars == <<ostate, holder, oregion, leakCount>>
control == <<factory, todo, drain>>
vars == <<regionVars, finalizerVars, taskVars, obligationVars, control>>

-----------------------------------------------------------------------------
\* TaskState::Finalizing is passed through inside one completion and is not
\* seen between critical sections.
RegionStates == {"Free", "Open", "Closing", "Draining", "Finalizing", "Closed"}
TaskStates == {"Free", "Created", "Running", "CancelRequested", "Cancelling",
               "Completed", "Gone"}
ObligationStates == {"Free", "Reserved", "Committed", "Aborted", "Leaked"}

\* Regions in the arena: created and not yet removed by the close.
Present == {r \in Regions : rstate[r] \notin {"Free", "Closed"}}
\* Tasks in the arena, and those of them whose state is not terminal.
InArena == {t \in Tasks : tstate[t] \notin {"Free", "Gone"}}
Live == {t \in InArena : tstate[t] # "Completed"}
\* TaskState::is_cancelling
IsCancelling(t) == tstate[t] \in {"CancelRequested", "Cancelling"}

Pending(t) == {o \in Obligations : ostate[o] = "Reserved" /\ holder[o] = t}
PendingIn(r) == {o \in Obligations : ostate[o] = "Reserved" /\ oregion[o] = r}

\* No critical section of the runtime lock is under way.
Idle == todo = {} /\ ~drain
\* ... and no scope factory holds the exclusive borrow of the runtime.
SchedulerMayRun == Idle /\ factory = None

\* Mutants of the two lattices: the last writer wins.
LastReason(old, new) == new
LastOutcome(left, right) == right

\* CancelReason::strengthen (and the first setting of an absent reason).
strengthen(old, new) == IF new > old THEN new ELSE old
\* Outcome::join (and the first recording of an absent outcome).
join(left, right) == IF left >= right THEN left ELSE right

Init ==
    /\ rstate = [r \in Regions |-> "Free"]
    /\ parent = [r \in Regions |-> None]
    /\ children = [r \in Regions |-> {}]
    /\ rtasks = [r \in Regions |-> {}]
    /\ pending = [r \in Regions |-> 0]
    /\ finalizers = [r \in Regions |-> << >>]
    /\ cancelReason = [r \in Regions |-> NoReason]
    /\ closeOutcome = [r \in Regions |-> NoOutcome]
    /\ rootRegion = None
    /\ finalizingRegions = {}
    /\ activeAsync = [r \in Regions |-> None]
    /\ tstate = [t \in Tasks |-> "Free"]
    /\ owner = [t \in Tasks |-> None]
    /\ treason = [t \in Tasks |-> NoReason]
    /\ ack = [t \in Tasks |-> FALSE]
    /\ outcome = [t \in Tasks |-> NoOutcome]
    /\ finalizerOf = [t \in Tasks |-> None]
    /\ ostate = [o \in Obligations |-> "Free"]
    /\ holder = [o \in Obligations |-> None]
    /\ oregion = [o \in Obligations |-> None]
    /\ leakCount = 0
    /\ fstate = [f \in Finalizers |-> "Free"]
    /\ fregion = [f \in Finalizers |-> None]
    /\ fasync = [f \in Finalizers |-> FALSE]
    /\ factory = None
    /\ todo = {}
    /\ drain = FALSE

-----------------------------------------------------------------------------
(* Bounds of the model: identifiers are finite, and one task identifier is *)
(* kept back for every registered async finalizer that has not started, so *)
(* that the bound never stops a finalizer from being spawned.              *)
FreeTasks == {t \in Tasks : tstate[t] = "Free"}
AsyncWaiting == {f \in Finalizers : fstate[f] = "Pending" /\ fasync[f]}
TaskIdsLeft == Cardinality(FreeTasks) > Cardinality(AsyncWaiting)

-----------------------------------------------------------------------------
(* Creation of regions, tasks, obligations and finalizers.  A refused      *)
(* request is rolled back and leaves the state as it was.                  *)

\* create_root_region; the debug assertion is the guard.
CreateRootRegion(r) ==
    /\ Idle
    /\ rootRegion = None
    /\ rstate[r] = "Free"
    /\ rstate' = [rstate EXCEPT ![r] = "Open"]
    /\ rootRegion' = r
    /\ UNCHANGED <<parent, children, rtasks, pending, cancelReason, closeOutcome,
                   finalizerVars, taskVars, obligationVars, control>>

\* RegionTable::create_child and RegionRecord::add_child.
AttachChild(p, r) ==
    /\ rstate[p] = "Open"
    /\ Cardinality(children[p]) < MaxChildren
    /\ rstate[r] = "Free"
    /\ rstate' = [rstate EXCEPT ![r] = "Open"]
    /\ parent' = [parent EXCEPT ![r] = p]
    /\ children' = [children EXCEPT ![p] = @ \cup {r}]
    /\ UNCHANGED <<rtasks, pending, cancelReason, closeOutcome, rootRegion,
                   finalizerVars, taskVars, obligationVars, todo, drain>>

CreateChildRegion(p, r) ==
    /\ Idle
    /\ AttachChild(p, r)
    /\ UNCHANGED factory

\* Scope::region creates the child and hands it to the factory closure, which
\* holds the exclusive borrow of the runtime until it returns or panics.
OpenScope(p, r) ==
    /\ SchedulerMayRun
    /\ AttachChild(p, r)
    /\ factory' = r

FactoryReturns ==
    /\ Idle
    /\ factory # None
    /\ factory' = None
    /\ UNCHANGED <<regionVars, finalizerVars, taskVars, obligationVars, todo, drain>>

\* create_task: the record is admitted by add_task only while the region is
\* Open and below its limit, and recycled otherwise.
CreateTask(r, t) ==
    /\ Idle
    /\ TaskIdsLeft
    /\ rstate[r] = "Open"
    /\ Cardinality(rtasks[r]) < MaxTasks
    /\ tstate[t] = "Free"
    /\ tstate' = [tstate EXCEPT ![t] = "Created"]
    /\ owner' = [owner EXCEPT ![t] = r]
    /\ rtasks' = [rtasks EXCEPT ![r] = @ \cup {t}]
    /\ UNCHANGED <<rstate, parent, children, pending, cancelReason, closeOutcome,
                   rootRegion, finalizerVars, treason, ack, outcome,
                   obligationVars, control>>

\* create_obligation: the holder must be in the arena and owned by the region.
CreateObligation(r, t, o) ==
    /\ Idle
    /\ ostate[o] = "Free"
    /\ t \in InArena
    /\ owner[t] = r
    /\ rstate[r] = "Open"
    /\ pending[r] < MaxObligations
    /\ ostate' = [ostate EXCEPT ![o] = "Reserved"]
    /\ holder' = [holder EXCEPT ![o] = t]
    /\ oregion' = [oregion EXCEPT ![o] = r]
    /\ pending' = [pending EXCEPT ![r] = @ + 1]
    /\ UNCHANGED <<rstate, parent, children, rtasks, cancelReason, closeOutcome,
                   rootRegion, finalizerVars, taskVars, leakCount, control>>

\* Mutant: a batch of obligations is resolved once.
ReleasedOnce(S) ==
    [r \in Regions |-> IF \E o \in S : oregion[o] = r THEN pending[r] - 1 ELSE pending[r]]

\* RegionRecord::resolve_obligation for every obligation of S: the counter of
\* a region still in the arena goes down and saturates at zero.
Released(S) ==
    [r \in Regions |->
        LET n == Cardinality({o \in S : oregion[o] = r}) IN
        IF r \notin Present THEN pending[r]
        ELSE IF n <= pending[r] THEN pending[r] - n
        ELSE 0]

\* commit_obligation, abort_obligation and mark_obligation_leaked: refused
\* unless pending; commit and abort also when the region is finalized.
ResolveObligation(o, how) ==
    /\ Idle
    /\ ostate[o] = "Reserved"
    /\ how = "Leaked" \/ rstate[oregion[o]] # "Closed"
    /\ ostate' = [ostate EXCEPT ![o] = how]
    /\ pending' = Released({o})
    /\ todo' = {oregion[o]}
    /\ UNCHANGED <<rstate, parent, children, rtasks, cancelReason, closeOutcome,
                   rootRegion, finalizerVars, taskVars, holder, oregion, leakCount,
                   factory, drain>>

\* register_sync_finalizer and register_async_finalizer: only while Open.
RegisterFinalizer(r, f, async) ==
    /\ Idle
    /\ fstate[f] = "Free"
    /\ \A g \in Finalizers : g < f => fstate[g] # "Free"
    /\ async => TaskIdsLeft
    /\ rstate[r] = "Open"
    /\ fstate' = [fstate EXCEPT ![f] = "Pending"]
    /\ fregion' = [fregion EXCEPT ![f] = r]
    /\ fasync' = [fasync EXCEPT ![f] = async]
    /\ finalizers' = [finalizers EXCEPT ![r] = Append(@, f)]
    /\ UNCHANGED <<regionVars, finalizingRegions, activeAsync, finalizerOf,
                   taskVars, obligationVars, control>>

-----------------------------------------------------------------------------
(* Cancellation and close requests.                                        *)

\* Mutant: only the children are collected.
RegionAndChildren(r) == {r} \cup children[r]

\* collect_region_and_descendants_with_depth: the least set that holds r and
\* the children of its members.
Subtree(r) ==
    {x \in Regions : \A S \in SUBSET Regions :
        (r \in S /\ \A y \in S : children[y] \subseteq S) => x \in S}

\* request_cancel_with_budget on the tasks S: their new states ...
RequestCancel(S) ==
    [t \in Tasks |-> IF t \in S /\ tstate[t] \in {"Created", "Running"}
                     THEN "CancelRequested" ELSE tstate[t]]
\* ... and reasons; a terminal task ignores the request.
RequestReason(S, reason) ==
    [t \in Tasks |-> IF t \in S /\ t \in Live
                     THEN strengthen(treason[t], reason[t]) ELSE treason[t]]

\* The body of cancel_request: every region of the subtree is closed with a
\* reason and every task in it asked to cancel; then the regions with neither
\* children nor tasks, and those in `also', are advanced.
CancelSubtree(r, kind, also) ==
    LET sub == Subtree(r) \cap Present
        reasonFor(x) == IF x = r THEN kind ELSE ParentCancelled
        ownReason == [t \in Tasks |-> reasonFor(owner[t])]
    IN
    /\ cancelReason' = [x \in Regions |-> IF x \in sub
                            THEN strengthen(cancelReason[x], reasonFor(x))
                            ELSE cancelReason[x]]
    /\ rstate' = [x \in Regions |-> IF x \in sub /\ rstate[x] = "Open"
                                    THEN "Closing" ELSE rstate[x]]
    /\ treason' = RequestReason(UNION {rtasks[x] : x \in sub}, ownReason)
    /\ todo' = {x \in sub : children[x] = {} /\ rtasks[x] = {}} \cup also

\* RuntimeState::cancel_request.
CancelRequest(r, kind) ==
    /\ Idle
    /\ r \in Present
    /\ CancelSubtree(r, kind, {})
    /\ tstate' = RequestCancel(UNION {rtasks[x] : x \in Subtree(r) \cap Present})
    /\ UNCHANGED <<parent, children, rtasks, pending, closeOutcome, rootRegion,
                   finalizerVars, owner, ack, outcome, obligationVars,
                   factory, drain>>

\* A scope body that ended Err, Cancelled or Panicked, a dropped RegionRunner,
\* a failed supervisor start: cancel_request, begin_close, advance.
CancelAndClose(r, kind) ==
    /\ SchedulerMayRun
    /\ r \in Present
    /\ CancelSubtree(r, kind, {r})
    /\ tstate' = RequestCancel(UNION {rtasks[x] : x \in Subtree(r) \cap Present})
    /\ UNCHANGED <<parent, children, rtasks, pending, closeOutcome, rootRegion,
                   finalizerVars, owner, ack, outcome, obligationVars,
                   factory, drain>>

\* The factory closure of Scope::region panicked: its region is cancelled, the
\* never-polled tasks it left are unlinked and recycled, then it is closed.
FactoryPanics ==
    LET r == factory
        reaped == {t \in Tasks : /\ owner[t] = r
                                 /\ tstate[t] \in {"Created", "Running", "CancelRequested"}}
        asked == UNION {rtasks[x] : x \in Subtree(r) \cap Present}
    IN
    /\ Idle
    /\ r # None
    /\ CancelSubtree(r, FailFast, {r})
    /\ tstate' = [t \in Tasks |-> IF t \in reaped THEN "Gone" ELSE RequestCancel(asked)[t]]
    /\ rtasks' = [rtasks EXCEPT ![r] = @ \ reaped]
    /\ factory' = None
    /\ UNCHANGED <<parent, children, pending, closeOutcome, rootRegion,
                   finalizerVars, owner, ack, outcome, obligationVars, drain>>

\* A scope body that ended Ok: begin_close(None), advance_region_state.
CloseRegion(r) ==
    /\ Idle
    /\ rstate[r] = "Open"
    /\ rstate' = [rstate EXCEPT ![r] = "Closing"]
    /\ todo' = {r}
    /\ UNCHANGED <<parent, children, rtasks, pending, cancelReason, closeOutcome,
                   rootRegion, finalizerVars, taskVars, obligationVars,
                   factory, drain>>

\* cancel_task, and cancel_sibling_tasks for the siblings of a failed child.
CancelTasks(S, kind) ==
    /\ Idle
    /\ S \cap Live # {}
    /\ tstate' = RequestCancel(S)
    /\ treason' = RequestReason(S, [t \in Tasks |-> kind])
    /\ UNCHANGED <<regionVars, finalizerVars, owner, ack, outcome,
                   obligationVars, control>>

CancelTask(t, kind) == CancelTasks({t}, kind)
CancelSiblings(r, t) == r \in Present /\ CancelTasks(rtasks[r] \ {t}, FailFast)

-----------------------------------------------------------------------------
(* The scheduler's side: ThreeLaneWorker::execute.                         *)

\* A task is picked for its first poll: start_running.
StartRunning(t) ==
    /\ SchedulerMayRun
    /\ tstate[t] = "Created"
    /\ tstate' = [tstate EXCEPT ![t] = "Running"]
    /\ UNCHANGED <<regionVars, finalizerVars, owner, treason, ack, outcome,
                   obligationVars, control>>

\* Cx::checkpoint in a task that was asked to cancel.  A finalizer task is
\* masked (MaskedFinalizer), so its checkpoints never acknowledge.
Checkpoint(t) ==
    /\ SchedulerMayRun
    /\ IsCancelling(t)
    /\ finalizerOf[t] = None
    /\ ~ack[t]
    /\ ack' = [ack EXCEPT ![t] = TRUE]
    /\ UNCHANGED <<regionVars, finalizerVars, tstate, owner, treason, outcome,
                   obligationVars, control>>

\* The poll returned Pending: an acknowledgement is consumed.
PollPending(t) ==
    /\ SchedulerMayRun
    /\ t \in Live
    /\ ack[t]
    /\ ack' = [ack EXCEPT ![t] = FALSE]
    /\ tstate' = [tstate EXCEPT ![t] = IF @ = "CancelRequested" THEN "Cancelling" ELSE @]
    /\ UNCHANGED <<regionVars, finalizerVars, owner, treason, outcome,
                   obligationVars, control>>

\* TaskRecord::complete: what the outcome of the poll becomes.
CompletedOutcome(t, polled) ==
    IF IsCancelling(t) /\ polled # Panicked THEN Cancelled ELSE polled

\* Obligations task_completed reports as leaked by t, which ended with `final'.
LeakedBy(t, final) == IF final = Cancelled THEN {} ELSE Pending(t)

\* handle_obligation_leaks with the leaks S: it counts them (the counter is only
\* compared with the threshold), responds with escalate_to once the threshold is
\* reached, and leaves the obligations aborted or leaked.
CountLeaks(S) ==
    LET n == leakCount + Cardinality(S) IN IF n < EscalateAfter THEN n ELSE EscalateAfter
Response(S) ==
    IF EscalateAfter > 0 /\ CountLeaks(S) = EscalateAfter THEN EscalateTo ELSE LeakResponse
LeakState(S) == IF Response(S) = "Recover" THEN "Aborted" ELSE "Leaked"

\* task_completed and the drain_ready_async_finalizers that follows it under
\* the same lock: leaks are handled, an async finalizer's barrier is lifted,
\* the other obligations of the task are aborted, the task is recycled and
\* unlinked, and its region advanced.
TaskCompleted(t, final) ==
    LET r == owner[t]
        f == finalizerOf[t]
    IN
    /\ ostate' = [o \in Obligations |->
                     IF o \in LeakedBy(t, final) THEN LeakState(LeakedBy(t, final))
                     ELSE IF o \in Pending(t) THEN "Aborted"
                     ELSE ostate[o]]
    /\ leakCount' = CountLeaks(LeakedBy(t, final))
    /\ pending' = Released(Pending(t))
    /\ finalizerOf' = [finalizerOf EXCEPT ![t] = None]
    /\ activeAsync' = IF f # None /\ activeAsync[r] = t
                      THEN [activeAsync EXCEPT ![r] = None] ELSE activeAsync
    /\ fstate' = IF f # None THEN [fstate EXCEPT ![f] = "Run"] ELSE fstate
    /\ tstate' = [tstate EXCEPT ![t] = "Gone"]
    /\ treason' = [treason EXCEPT ![t] = NoReason]
    /\ closeOutcome' = [closeOutcome EXCEPT ![r] = join(@, final)]
    /\ rtasks' = [rtasks EXCEPT ![r] = @ \ {t}]
    /\ todo' = {r}
    /\ drain' = TRUE
    /\ UNCHANGED <<rstate, parent, children, cancelReason, rootRegion,
                   finalizers, finalizingRegions, fregion, fasync,
                   owner, holder, oregion, factory>>

\* A poll that is over: the body of a finalizer task ends Ok or Panicked.
PollEnds(t, polled) ==
    /\ SchedulerMayRun
    /\ t \in Live
    /\ tstate[t] # "Created"
    /\ finalizerOf[t] # None => polled \in {Ok, Panicked}
    /\ ack' = [ack EXCEPT ![t] = FALSE]
    /\ outcome' = [outcome EXCEPT ![t] = CompletedOutcome(t, polled)]

\* Under the Panic response a leak unwinds out of task_completed.
LeakPanics(t, polled) ==
    LET leaks == LeakedBy(t, CompletedOutcome(t, polled))
    IN  leaks # {} /\ Response(leaks) = "Panic"

PollReady(t, polled) ==
    /\ PollEnds(t, polled)
    /\ ~LeakPanics(t, polled)
    /\ TaskCompleted(t, CompletedOutcome(t, polled))

\* The unwind leaves a terminal task in its region, its leaks already marked.
PollReadyUnwinds(t, polled) ==
    /\ PollEnds(t, polled)
    /\ LeakPanics(t, polled)
    /\ tstate' = [tstate EXCEPT ![t] = "Completed"]
    /\ ostate' = [o \in Obligations |-> IF o \in Pending(t) THEN "Leaked" ELSE ostate[o]]
    /\ leakCount' = CountLeaks(Pending(t))
    /\ pending' = Released(Pending(t))
    /\ todo' = {owner[t]}
    /\ UNCHANGED <<rstate, parent, children, rtasks, cancelReason, closeOutcome,
                   rootRegion, finalizerVars, owner, treason, holder, oregion,
                   factory, drain>>

\* Mutant: the guard leaves the terminal task where it is.
GuardForgets(t) == SchedulerMayRun /\ tstate[t] = "Completed" /\ UNCHANGED vars

\* TaskExecutionGuard::drop runs task_completed again; while the thread is
\* panicking the Panic response is downgraded to Log, which leaves the same.
GuardRetries(t) ==
    /\ SchedulerMayRun
    /\ tstate[t] = "Completed"
    /\ TaskCompleted(t, outcome[t])
    /\ UNCHANGED <<ack, outcome>>

-----------------------------------------------------------------------------
(* One iteration of the loop of advance_region_state for a region of todo. *)

\* Mutant: the tasks of the region are not waited for.
ReadyWithTasks(r) == rstate[r] \in {"Closing", "Draining"} /\ children[r] = {}
ReadyToFinalize(r) ==
    rstate[r] \in {"Closing", "Draining"} /\ children[r] = {} /\ rtasks[r] = {}
ReadyToDrain(r) == rstate[r] = "Closing" /\ children[r] # {}
\* Mutant: the async finalizer barrier is not looked at.
AnyFinalizing(r) == rstate[r] = "Finalizing"
\* In Finalizing, with no async finalizer running.
NoBarrier(r) == rstate[r] = "Finalizing" /\ activeAsync[r] = None
Top(r) == finalizers[r][Len(finalizers[r])]
\* Mutant: the whole stack is taken.
TakeAll(r) == << >>
Pop(r) == SubSeq(finalizers[r], 1, Len(finalizers[r]) - 1)
SyncOnTop(r) == finalizers[r] # << >> /\ ~fasync[Top(r)]
AsyncOnTop(r) == finalizers[r] # << >> /\ fasync[Top(r)]
LeaksAtClose(r) ==
    /\ NoBarrier(r)
    /\ finalizers[r] = << >>
    /\ pending[r] > 0 /\ rtasks[r] = {} /\ PendingIn(r) # {}
\* Mutant: the close forgets obligations.
CloseWithObligations(r) ==
    NoBarrier(r) /\ finalizers[r] = << >> /\ rtasks[r] = {} /\ children[r] = {}
\* can_region_complete_close, together with complete_close's own check.
CanCompleteClose(r) ==
    /\ NoBarrier(r)
    /\ finalizers[r] = << >>
    /\ rtasks[r] = {} /\ pending[r] = 0 /\ children[r] = {}

\* Mutant: the region is not put on the finalizing list.
FinalizeUnlisted(r) ==
    /\ r \in todo
    /\ ReadyToFinalize(r)
    /\ rstate' = [rstate EXCEPT ![r] = "Finalizing"]
    /\ UNCHANGED <<parent, children, rtasks, pending, cancelReason, closeOutcome,
                   rootRegion, finalizerVars, taskVars, obligationVars, control>>

AdvanceToFinalizing(r) ==
    /\ r \in todo
    /\ ReadyToFinalize(r)
    /\ rstate' = [rstate EXCEPT ![r] = "Finalizing"]
    /\ finalizingRegions' = finalizingRegions \cup {r}
    /\ UNCHANGED <<parent, children, rtasks, pending, cancelReason, closeOutcome,
                   rootRegion, finalizers, activeAsync, finalizerOf, fstate,
                   fregion, fasync, taskVars, obligationVars, control>>

AdvanceToDraining(r) ==
    /\ r \in todo
    /\ ReadyToDrain(r)
    /\ rstate' = [rstate EXCEPT ![r] = "Draining"]
    /\ todo' = todo \ {r}
    /\ UNCHANGED <<parent, children, rtasks, pending, cancelReason, closeOutcome,
                   rootRegion, finalizerVars, taskVars, obligationVars,
                   factory, drain>>

\* drain_ready_async_finalizers looks at r: it is finalizing, unbarriered and
\* has finalizers left.
DrainVisits(r) ==
    /\ drain /\ todo = {}
    /\ r \in finalizingRegions
    /\ activeAsync[r] = None
    /\ finalizers[r] # << >>

\* run_sync_finalizers_tracked pops and runs one sync finalizer; a panic in it
\* is caught and recorded.
RunSyncFinalizer(r, panics) ==
    /\ (r \in todo /\ NoBarrier(r)) \/ DrainVisits(r)
    /\ SyncOnTop(r)
    /\ finalizers' = [finalizers EXCEPT ![r] = Pop(r)]
    /\ fstate' = [fstate EXCEPT ![Top(r)] = "Run"]
    /\ closeOutcome' = [closeOutcome EXCEPT ![r] = IF panics THEN join(@, Panicked) ELSE @]
    /\ UNCHANGED <<rstate, parent, children, rtasks, pending, cancelReason,
                   rootRegion, finalizingRegions, activeAsync, finalizerOf,
                   fregion, fasync, taskVars, obligationVars, control>>

\* Obligations left in a finalizing region without tasks are leaks.  The Panic
\* response unwinds out of the critical section, but only after marking them
\* has advanced this region (and its ancestors): the rest of todo is dropped.
AdvanceLeaks(r) ==
    /\ r \in todo
    /\ LeaksAtClose(r)
    /\ ostate' = [o \in Obligations |-> IF o \in PendingIn(r) THEN LeakState(PendingIn(r))
                                        ELSE ostate[o]]
    /\ leakCount' = CountLeaks(PendingIn(r))
    /\ pending' = Released(PendingIn(r))
    /\ todo' = IF Response(PendingIn(r)) = "Panic" THEN {r} ELSE todo
    /\ UNCHANGED <<rstate, parent, children, rtasks, cancelReason, closeOutcome,
                   rootRegion, finalizerVars, taskVars, holder, oregion,
                   factory, drain>>

\* RegionTable::remove and remove_child: the parent no longer lists r.
Unlisted(r) == IF parent[r] = None THEN children
               ELSE [children EXCEPT ![parent[r]] = @ \ {r}]

\* Mutant: the child stays listed.
CloseKeepsChild(r) ==
    /\ r \in todo
    /\ CanCompleteClose(r)
    /\ rstate' = [rstate EXCEPT ![r] = "Closed"]
    /\ finalizingRegions' = finalizingRegions \ {r}
    /\ todo' = (todo \ {r}) \cup ({parent[r]} \ {None})
    /\ UNCHANGED <<parent, children, rtasks, pending, cancelReason, closeOutcome, rootRegion,
                   finalizers, activeAsync, finalizerOf, fstate, fregion, fasync,
                   taskVars, obligationVars, factory, drain>>

\* complete_close and what follows it: the region leaves the finalizing list,
\* its parent and the arena, and the parent is advanced next.
AdvanceToClosed(r) ==
    /\ r \in todo
    /\ CanCompleteClose(r)
    /\ rstate' = [rstate EXCEPT ![r] = "Closed"]
    /\ closeOutcome' = [closeOutcome EXCEPT ![r] =
                           IF @ # NoOutcome THEN @
                           ELSE IF cancelReason[r] # NoReason THEN Cancelled
                           ELSE Ok]
    /\ finalizingRegions' = finalizingRegions \ {r}
    /\ children' = Unlisted(r)
    /\ todo' = (todo \ {r}) \cup ({parent[r]} \ {None})
    /\ rootRegion' = IF rootRegion = r THEN None ELSE rootRegion
    /\ UNCHANGED <<parent, rtasks, pending, cancelReason, finalizers, activeAsync,
                   finalizerOf, fstate, fregion, fasync, taskVars,
                   obligationVars, factory, drain>>

\* The loop stops at r: nothing to do yet, or a barrier or a task is awaited.
AdvanceStops(r) ==
    /\ r \in todo
    /\ ~ReadyToFinalize(r)
    /\ ~ReadyToDrain(r)
    /\ ~(NoBarrier(r) /\ SyncOnTop(r))
    /\ ~LeaksAtClose(r)
    /\ ~CanCompleteClose(r)
    /\ todo' = todo \ {r}
    /\ UNCHANGED <<regionVars, finalizerVars, taskVars, obligationVars,
                   factory, drain>>

-----------------------------------------------------------------------------
(* drain_ready_async_finalizers, after a completion or from the idle loop. *)

ScheduleReadyFinalizers ==
    /\ SchedulerMayRun
    /\ \E r \in finalizingRegions : activeAsync[r] = None /\ finalizers[r] # << >>
    /\ drain' = TRUE
    /\ UNCHANGED <<regionVars, finalizerVars, taskVars, obligationVars, factory, todo>>

\* spawn_finalizer_task: the async finalizer becomes a cleanup task, admitted
\* in Finalizing whatever the limits, and the barrier of its region.
SpawnFinalizer(r, t) ==
    /\ DrainVisits(r)
    /\ AsyncOnTop(r)
    /\ rstate[r] = "Finalizing"
    /\ tstate[t] = "Free"
    /\ tstate' = [tstate EXCEPT ![t] = "Created"]
    /\ owner' = [owner EXCEPT ![t] = r]
    /\ rtasks' = [rtasks EXCEPT ![r] = @ \cup {t}]
    /\ finalizerOf' = [finalizerOf EXCEPT ![t] = Top(r)]
    /\ fstate' = [fstate EXCEPT ![Top(r)] = "Running"]
    /\ finalizers' = [finalizers EXCEPT ![r] = Pop(r)]
    /\ activeAsync' = [activeAsync EXCEPT ![r] = t]
    /\ UNCHANGED <<rstate, parent, children, pending, cancelReason, closeOutcome,
                   rootRegion, finalizingRegions, fregion, fasync, treason, ack,
                   outcome, obligationVars, control>>

DrainEnds ==
    /\ drain
    /\ todo = {}
    /\ \A r \in Regions : ~DrainVisits(r)
    /\ drain' = FALSE
    /\ UNCHANGED <<regionVars, finalizerVars, taskVars, obligationVars, factory, todo>>

-----------------------------------------------------------------------------
Advance ==
    \E r \in Regions :
        \/ AdvanceToFinalizing(r)
        \/ AdvanceToDraining(r)
        \/ AdvanceLeaks(r)
        \/ AdvanceToClosed(r)
        \/ AdvanceStops(r)
        \/ \E panics \in BOOLEAN : RunSyncFinalizer(r, panics)
        \/ \E t \in Tasks : SpawnFinalizer(r, t)

Create ==
    \E r \in Regions :
        \/ CreateRootRegion(r)
        \/ \E p \in Regions : CreateChildRegion(p, r) \/ OpenScope(p, r)
        \/ \E t \in Tasks : CreateTask(r, t)
        \/ \E t \in Tasks, o \in Obligations : CreateObligation(r, t, o)
        \/ \E f \in Finalizers, async \in BOOLEAN : RegisterFinalizer(r, f, async)

Request ==
    \/ \E r \in Regions : CloseRegion(r)
    \/ \E r \in Regions, kind \in CancelKinds :
           CancelRequest(r, kind) \/ CancelAndClose(r, kind)
    \/ \E t \in Tasks, kind \in CancelKinds : CancelTask(t, kind)
    \/ \E r \in Regions, t \in Tasks : CancelSiblings(r, t)
    \/ \E o \in Obligations, how \in {"Committed", "Aborted", "Leaked"} :
           ResolveObligation(o, how)
    \/ FactoryReturns
    \/ FactoryPanics

Execute ==
    \/ \E t \in Tasks :
        \/ StartRunning(t)
        \/ Checkpoint(t)
        \/ PollPending(t)
        \/ GuardRetries(t)
        \/ \E polled \in Outcomes : PollReady(t, polled) \/ PollReadyUnwinds(t, polled)
    \/ ScheduleReadyFinalizers
    \/ DrainEnds

Next == Advance \/ Create \/ Request \/ Execute

Spec == Init /\ [][Next]_vars

\* Fairness: a critical section is finished once begun; a worker that keeps
\* asking for the runtime lock is not starved by other callers of it, so a
\* scheduled task is polled again; a task is assumed to end once it is polled,
\* and a factory closure to return.  Nothing is assumed of the idle loop's
\* ScheduleReadyFinalizers: run_loop comes to it once before it backs off, and
\* a worker that is parked by then is woken by no cancel, close or resolved
\* obligation from outside.
Fairness ==
    /\ WF_vars(Advance)
    /\ WF_vars(DrainEnds)
    /\ SF_vars(FactoryReturns)
    /\ \A t \in Tasks :
        /\ SF_vars(StartRunning(t))
        /\ SF_vars(GuardRetries(t))
        /\ SF_vars(\E polled \in Outcomes : PollReady(t, polled) \/ PollReadyUnwinds(t, polled))

FairSpec == Spec /\ Fairness

-----------------------------------------------------------------------------
RegionTypeOK ==
    /\ rstate \in [Regions -> RegionStates]
    /\ parent \in [Regions -> Regions \cup {None}]
    /\ children \in [Regions -> SUBSET Regions]
    /\ rtasks \in [Regions -> SUBSET Tasks]
    /\ pending \in [Regions -> Nat]
    /\ cancelReason \in [Regions -> Reasons]
    /\ closeOutcome \in [Regions -> Outcomes \cup {NoOutcome}]
    /\ rootRegion \in Regions \cup {None}

FinalizerTypeOK ==
    /\ finalizers \in [Regions -> Seq(Finalizers)]
    /\ finalizingRegions \subseteq Regions
    /\ activeAsync \in [Regions -> Tasks \cup {None}]
    /\ finalizerOf \in [Tasks -> Finalizers \cup {None}]
    /\ fstate \in [Finalizers -> {"Free", "Pending", "Running", "Run"}]
    /\ fregion \in [Finalizers -> Regions \cup {None}]
    /\ fasync \in [Finalizers -> BOOLEAN]

TaskTypeOK ==
    /\ tstate \in [Tasks -> TaskStates]
    /\ owner \in [Tasks -> Regions \cup {None}]
    /\ treason \in [Tasks -> Reasons]
    /\ ack \in [Tasks -> BOOLEAN]
    /\ outcome \in [Tasks -> Outcomes \cup {NoOutcome}]

ObligationTypeOK ==
    /\ ostate \in [Obligations -> ObligationStates]
    /\ holder \in [Obligations -> Tasks \cup {None}]
    /\ oregion \in [Obligations -> Regions \cup {None}]
    /\ leakCount \in 0 .. EscalateAfter

ControlTypeOK ==
    /\ factory \in Regions \cup {None}
    /\ todo \subseteq Regions
    /\ drain \in BOOLEAN

\* Every field holds a value of its type: in particular the regions that
\* task_completed, resolve_obligation and the removal of a closed region hand
\* to advance_region_state are regions, never the absent parent of a root.
TypeOK ==
    /\ RegionTypeOK
    /\ FinalizerTypeOK
    /\ TaskTypeOK
    /\ ObligationTypeOK
    /\ ControlTypeOK

\* The ownership tree is the same seen from either side: a region in the arena
\* lists exactly the regions and tasks in the arena that name it as parent or
\* owner, and no task or region outlives the one that owns it (create_child's
\* and create_task_infrastructure's rollback, task_completed's unlink, the
\* removal in advance_region_state).
TreeConsistent ==
    /\ \A r \in Regions : children[r] = {c \in Present : parent[c] = r}
    /\ \A r \in Present : parent[r] # None => parent[r] \in Present
    /\ \A r \in Regions : rtasks[r] = {t \in InArena : owner[t] = r}
    /\ \A t \in InArena : owner[t] \in Present

\* The per-region counter try_reserve_obligation and resolve_obligation keep
\* is the number of reserved records of the region, so that it never saturates
\* ("double-resolve"), and a reserved obligation's region is never closed.
ObligationAccounting ==
    /\ \A r \in Regions : pending[r] = Cardinality(PendingIn(r))
    /\ \A o \in Obligations : ostate[o] = "Reserved" => oregion[o] \in Present

\* Region close implies quiescence: once complete_close has run, no task owned
\* by the region is in the arena, no child of it is, no obligation of it is
\* reserved and every finalizer registered on it has run.
QuiescentClose ==
    \A r \in Regions : rstate[r] = "Closed" =>
        /\ \A t \in InArena : owner[t] # r
        /\ \A c \in Present : parent[c] # r
        /\ PendingIn(r) = {}
        /\ \A f \in Finalizers : fregion[f] = r => fstate[f] = "Run"

\* A finalizer that waits is on the stack of its region ...
PendingTracked ==
    \A f \in Finalizers : fstate[f] = "Pending" =>
        /\ fregion[f] \in Present
        /\ \E i \in 1..Len(finalizers[fregion[f]]) : finalizers[fregion[f]][i] = f
\* ... one that runs is the task that is the barrier of its region ...
RunningTracked ==
    \A f \in Finalizers : fstate[f] = "Running" =>
        /\ fregion[f] \in Present
        /\ activeAsync[fregion[f]] # None
        /\ finalizerOf[activeAsync[fregion[f]]] = f
\* ... a stack holds finalizers of its own region only ...
StacksOwn ==
    \A r \in Regions : \A i \in 1..Len(finalizers[r]) : fregion[finalizers[r][i]] = r
\* ... and a barrier is a finalizer task of its own region, still in the arena.
BarriersOwn ==
    \A r \in Regions : activeAsync[r] # None =>
        /\ activeAsync[r] \in InArena
        /\ owner[activeAsync[r]] = r
        /\ finalizerOf[activeAsync[r]] # None
\* The region of a running scope factory has no finalizer task yet.
FactoryUnbarriered == factory # None => ~drain /\ activeAsync[factory] = None

\* Where a finalizer that has not run is kept, so that none is lost:
\* RegionInner::finalizers, active_async_finalizers and async_finalizer_tasks
\* agree, through spawn_finalizer_task, task_completed, its retry after an
\* unwind and the reaping of tasks by a panicked factory.
FinalizersTracked ==
    /\ PendingTracked
    /\ RunningTracked
    /\ StacksOwn
    /\ BarriersOwn
    /\ FactoryUnbarriered

\* Something will advance r again: a task or a child of a closing region, the
\* finalizer task of a finalizing one, or an async finalizer of it that the
\* idle loop will spawn.
Settled(r) ==
    /\ rstate[r] \in {"Closing", "Draining"} => rtasks[r] # {} \/ children[r] # {}
    /\ rstate[r] = "Finalizing" =>
           \/ activeAsync[r] \in rtasks[r]
           \/ r \in finalizingRegions /\ activeAsync[r] = None /\ AsyncOnTop(r)

\* No region is forgotten: between critical sections, a closing region still
\* has a task or a child whose end will advance it again, and a finalizing one
\* has its finalizer task or an async finalizer the idle loop will spawn.
NoStrandedRegion == Idle => \A r \in Present : Settled(r)

\* Cancellation is closed downwards: in a region with a cancel reason every
\* task but a finalizer's has been asked to cancel (or has ended), and every
\* child has a reason too; nothing can be spawned to escape it.
CancelReachesSubtree ==
    \A r \in Present : cancelReason[r] # NoReason =>
        /\ rstate[r] # "Open"
        /\ \A t \in rtasks[r] :
               IsCancelling(t) \/ finalizerOf[t] # None \/ tstate[t] = "Completed"
        /\ \A c \in children[r] : cancelReason[c] # NoReason

\* The close outcome is at least as severe as the outcome of every task that
\* ended in the region, finalizer tasks included (record_close_outcome).
CloseOutcomeDominates ==
    \A t \in Tasks : tstate[t] = "Gone" => outcome[t] <= closeOutcome[owner[t]]

\* Finalizers of a region run in the reverse order of their registration and
\* an async one is a barrier: none starts or ends while a later one of the
\* same region has not run.
RunsLastFirst ==
    \A f \in Finalizers : fstate'[f] # fstate[f] /\ fstate[f] # "Free" =>
        /\ rstate[fregion[f]] = "Finalizing"
        /\ \A g \in Finalizers : g > f /\ fregion[g] = fregion[f] => fstate[g] = "Run"
FinalizersLIFO == [][RunsLastFirst]_vars

\* Cancellation only grows: no step weakens or withdraws the reason of a region
\* or of a task, and no cancelled task ends Ok or Err.
CancelOnlyGrows ==
    /\ \A r \in Regions : cancelReason'[r] >= cancelReason[r]
    /\ \A t \in Tasks : tstate'[t] # "Gone" => treason'[t] >= treason[t]
    /\ \A t \in Tasks : treason[t] # NoReason /\ outcome'[t] # outcome[t]
           => outcome'[t] \in {Cancelled, Panicked}
CancelMonotone == [][CancelOnlyGrows]_vars

\* An async finalizer of r, or of a region below it, waits for a worker to come
\* by run_loop's schedule_ready_finalizers.
AwaitsIdleLoop(r) ==
    /\ Idle
    /\ \E x \in Subtree(r) \cap finalizingRegions : activeAsync[x] = None /\ AsyncOnTop(x)

\* A cancelled region closes once its tasks end, the tasks whose completion
\* unwinds included: again and again it closes or has, in it or below it, an
\* async finalizer that only the idle loop of a worker will spawn.
CancelledRegionCloses ==
    \A r \in Regions :
        cancelReason[r] # NoReason ~> rstate[r] = "Closed" \/ AwaitsIdleLoop(r)

\* What a caller sees of the runtime: the three stages of an ending region are
\* one, and so are all states of a task in the arena.
Stage ==
    [r \in Regions |-> IF rstate[r] \in {"Closing", "Draining", "Finalizing"}
                       THEN "Ending" ELSE rstate[r]]
Life ==
    [t \in Tasks |-> IF t \in InArena THEN "Live"
                     ELSE IF tstate[t] = "Free" THEN "Free" ELSE "Over"]
CancelledRegions == {r \in Regions : cancelReason[r] # NoReason}

Promise == INSTANCE RegionPromise WITH
    stage <- Stage, up <- parent, home <- owner, life <- Life,
    cancelled <- CancelledRegions, result <- closeOutcome

\* RuntimeState implements structured concurrency as RegionPromise states it:
\* the loop of advance_region_state, the obligations and the stack of
\* finalizers behind it never let a region take a task or a child after it began
\* to close, start its cleanup beside a task or a child, or close with either.
ImplementsPromise == Promise!PromiseSpec

\* complete_close's comment: "observers ... need close_outcome to agree with
\* cancel_reason".
CloseOutcomeAgreesWithCancel ==
    \A r \in Regions :
        rstate[r] = "Closed" /\ cancelReason[r] # NoReason => closeOutcome[r] >= Cancelled
=============================================================================
