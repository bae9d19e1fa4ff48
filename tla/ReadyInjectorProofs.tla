------------------------- MODULE ReadyInjectorProofs ------------------------
(***************************************************************************)
(* Theorems about ReadyInjector, for any number of injections and workers, *)
(* any thresholds and any batch size: a deferred entry always has a        *)
(* combiner, the race that inject_ready_contentious guards against does    *)
(* not occur, no counter goes below zero, what the counters count is in    *)
(* the queue, and no entry is lost or duplicated.                          *)
(***************************************************************************)
EXTENDS ReadyInjector, SequenceTheorems, FiniteSetTheorems, TLAPS

\* The types of what the combiner protocol reads.
CombinerTypes ==
    /\ ipc \in [Entries -> InjectStates]
    /\ active \in BOOLEAN
    /\ lock \subseteq Entries

\* The pending lock is held by one injection, between its try_lock and the end
\* of its second look.
LockExact ==
    /\ \A e \in Entries : ipc[e] \in Locking <=> e \in lock
    /\ \A e, f \in lock : e = f

\* DeferralSafe alone is not inductive: an injector that saw `active' set
\* appends later, and only the lock keeps the combiner there meanwhile.
IndInv ==
    /\ CombinerTypes
    /\ LockExact
    /\ DeferralSafe
    /\ NoRaceDetected

\* The invariant holds in a new injector.
LEMMA IndInvInit == Init => IndInv
  BY DEF Init, IndInv, CombinerTypes, LockExact, DeferralSafe, NoRaceDetected, InjectStates,
         Locking, Combining

\* The steps of inject_ready and of the combiner preserve it.
LEMMA InjectPreserves ==
    ASSUME IndInv, NEW e \in Entries, BeginInjection(e) \/ InjectSteps(e)
    PROVE  IndInv'
<1> USE DEF IndInv, CombinerTypes, LockExact, DeferralSafe, NoRaceDetected, InjectStates,
            Locking, Combining, Goto, combiner
<1>1. CASE BeginInjection(e)
  BY <1>1 DEF BeginInjection
<1>2. CASE ChoosePath(e)
  BY <1>2 DEF ChoosePath
<1>3. CASE FinishInjection(e)
  BY <1>3 DEF FinishInjection
<1>4. CASE Count(e)
  BY <1>4 DEF Count
<1>5. CASE Enqueue(e)
  BY <1>5 DEF Enqueue
<1>6. CASE Publish(e)
  BY <1>6 DEF Publish
<1>7. CASE Claim(e)
  BY <1>7 DEF Claim
<1>8. CASE TryLock(e)
  BY <1>8 DEF TryLock
<1>9. CASE Check(e)
  BY <1>9 DEF Check
<1>10. CASE AppendPending(e)
  BY <1>10 DEF AppendPending
<1>11. CASE Recheck(e)
  BY <1>11 DEF Recheck
<1>12. CASE Fill(e)
  BY <1>12 DEF Fill
<1>13. CASE Reserve(e)
  BY <1>13 DEF Reserve
<1>14. CASE BatchEnqueue(e)
  BY <1>14 DEF BatchEnqueue
<1>15. CASE BatchPublish(e)
  BY <1>15 DEF BatchPublish
<1>16. CASE Drain(e)
  \* The lock is free, so no injector is between its look and its append.
  <2>1. \A f \in Entries : ipc[f] \notin Locking
    BY <1>16 DEF Drain
  <2>2. CASE pending = <<>>
    <3>1. active' = FALSE /\ lock' = lock /\ pending' = <<>>
      BY <1>16, <2>2 DEF Drain
    <3>2. \A f \in Entries : ipc'[f] \notin Locking \cup Combining
      BY <1>16, <2>1, <2>2 DEF Drain
    <3>3. CombinerTypes'
      BY <1>16, <2>2 DEF Drain
    <3> QED
      BY <1>16, <2>1, <3>1, <3>2, <3>3 DEF Drain
  <2>3. CASE pending # <<>>
    <3>1. active' = active /\ lock' = lock /\ ipc' = [ipc EXCEPT ![e] = "fill"]
      BY <1>16, <2>3 DEF Drain
    <3> QED
      BY <1>16, <2>1, <3>1 DEF Drain
  <2> QED
    BY <2>2, <2>3
<1> QED
  BY <1>1, <1>2, <1>3, <1>4, <1>5, <1>6, <1>7, <1>8, <1>9, <1>10, <1>11, <1>12, <1>13,
     <1>14, <1>15, <1>16
  DEF InjectSteps

\* A pop does not touch what the combiner protocol reads.
LEMMA PopPreserves ==
    ASSUME IndInv, NEW w \in Workers, PopSteps(w)
    PROVE  IndInv'
<1>1. UNCHANGED <<ipc, combiner>>
  BY DEF PopSteps, ReservePublished, ReserveMore, Dequeue, Settle
<1> QED
  BY <1>1 DEF IndInv, CombinerTypes, LockExact, DeferralSafe, NoRaceDetected, combiner

\* Every reachable state of the injector satisfies the invariant.
THEOREM CombinerInvariance == Spec => []IndInv
<1>1. IndInv /\ UNCHANGED vars => IndInv'
  BY DEF IndInv, CombinerTypes, LockExact, DeferralSafe, NoRaceDetected, vars, combiner
<1>2. IndInv /\ [Next]_vars => IndInv'
  BY <1>1, InjectPreserves, PopPreserves DEF Next
<1> QED
  BY <1>2, IndInvInit, PTL DEF Spec

\* flush_ready_combiner_with switches `active' off only when nothing is
\* pending: whatever inject_ready_contentious deferred is published by the one
\* combiner at work.
THEOREM NoDeferredEntryStranded == Spec => []DeferralSafe
<1>1. IndInv => DeferralSafe
  BY DEF IndInv
<1> QED
  BY <1>1, CombinerInvariance, PTL

\* The second look of inject_ready_contentious always finds `active' set.
THEOREM RaceBranchDead == Spec => []NoRaceDetected
<1>1. IndInv => NoRaceDetected
  BY DEF IndInv
<1> QED
  BY <1>1, CombinerInvariance, PTL
-----------------------------------------------------------------------------
(* The counters.                                                           *)

\* in_flight counts the injections between begin_injection and
\* finish_injection.
Inside == {e \in Entries : ipc[e] \notin {"idle", "done"}}
InFlightExact == inFlight = Cardinality(Inside)

\* A batch that is about to be filled, counted or published is not empty, and
\* one that is to be filled is within the limit.
BatchHeld ==
    \A e \in Entries :
        /\ ipc[e] \in {"fill", "reserve", "batchEnqueue"} => batch[e] # <<>>
        /\ ipc[e] = "fill" => Len(batch[e]) <= MaxBatch

\* A worker dequeues no more than it reserved, and reserves no more than max.
PopBounded ==
    \A w \in Workers :
        /\ got[w] <= reserved[w] /\ reserved[w] <= want[w]
        /\ wpc[w] = "idle" => reserved[w] = 0
        /\ wpc[w] = "reserve" => got[w] = 0 /\ reserved[w] > 0
        /\ wpc[w] = "dequeue" => got[w] < reserved[w]

\* TypeOK alone is not inductive: that in_flight and published stay natural
\* numbers rests on what each decrement undoes.
CountInv == TypeOK /\ InFlightExact /\ BatchHeld /\ PopBounded

\* A prefix and the rest of a sequence of entries are sequences of entries.
LEMMA SplitTypes ==
    ASSUME NEW s \in Seq(Entries), NEW n \in 0..Len(s)
    PROVE  /\ Front(s, n) \in Seq(Entries) /\ Len(Front(s, n)) = n
           /\ Rest(s, n) \in Seq(Entries)
<1>1. \A i \in 1..n : s[i] \in Entries
  OBVIOUS
<1>2. \A i \in (n + 1)..Len(s) : s[i] \in Entries
  OBVIOUS
<1>3. SubSeq(s, 1, n) \in Seq(Entries) /\ Len(SubSeq(s, 1, n)) = IF 1 <= n THEN n - 1 + 1 ELSE 0
  BY <1>1, SubSeqProperties
<1>4. SubSeq(s, n + 1, Len(s)) \in Seq(Entries)
  BY <1>2, SubSeqProperties
<1> QED
  BY <1>3, <1>4 DEF Front, Rest

\* The new injector satisfies the invariant.
LEMMA CountInvInit == Init => CountInv
<1> SUFFICES ASSUME Init PROVE CountInv
  OBVIOUS
<1>1. TypeOK
  <2>1. <<>> \in Seq(Entries) /\ 0 \in 0..MaxPop
    BY ReadyInjectorAssumption
  <2> QED
    BY <2>1 DEF Init, TypeOK, InjectStates, PopStates
<1>2. Inside = {}
  BY DEF Init, Inside
<1>3. InFlightExact
  BY <1>2, FS_EmptySet DEF Init, InFlightExact
<1> QED
  BY <1>1, <1>3 DEF Init, CountInv, BatchHeld, PopBounded

\* begin_injection and finish_injection move one injection in and out.
LEMMA InsideSteps ==
    ASSUME CountInv, NEW e \in Entries, BeginInjection(e) \/ InjectSteps(e)
    PROVE  InFlightExact'
<1>1. IsFiniteSet(Inside)
  BY ReadyInjectorAssumption, FS_Subset DEF Inside
<1>2. CASE BeginInjection(e)
  <2>1. Inside' = Inside \cup {e} /\ e \notin Inside
    BY <1>2 DEF BeginInjection, Goto, Inside, CountInv, TypeOK
  <2> QED
    BY <1>1, <1>2, <2>1, FS_AddElement, FS_CardinalityType
    DEF BeginInjection, CountInv, InFlightExact
<1>3. CASE FinishInjection(e)
  <2>1. Inside' = Inside \ {e} /\ e \in Inside
    BY <1>3 DEF FinishInjection, Goto, Inside, CountInv, TypeOK
  <2> QED
    BY <1>1, <1>3, <2>1, FS_RemoveElement, FS_CardinalityType
    DEF FinishInjection, CountInv, InFlightExact
<1>4. CASE ~BeginInjection(e) /\ ~FinishInjection(e)
  <2>1. /\ inFlight' = inFlight
        /\ ipc[e] \notin {"idle", "done"}
        /\ \E p \in InjectStates \ {"idle", "done"} : ipc' = [ipc EXCEPT ![e] = p]
    BY <1>4 DEF InjectSteps, ChoosePath, Count, Enqueue, Publish, Claim, TryLock, Check,
       AppendPending, Recheck, Fill, Reserve, BatchEnqueue, BatchPublish, Drain, Goto,
       InjectStates, Locking, Combining, combiner
  <2>2. Inside' = Inside
    BY <2>1 DEF Inside, CountInv, TypeOK
  <2> QED
    BY <2>1, <2>2 DEF CountInv, InFlightExact
<1> QED
  BY <1>2, <1>3, <1>4

\* The steps of inject_ready preserve the other parts.
LEMMA InjectTypes ==
    ASSUME CountInv, NEW e \in Entries, BeginInjection(e) \/ InjectSteps(e)
    PROVE  TypeOK' /\ BatchHeld'
<1> USE ReadyInjectorAssumption
    DEF CountInv, TypeOK, BatchHeld, InjectStates, Locking, Combining, Goto, combiner,
        counters, popVars
<1>1. CASE BeginInjection(e)
  BY <1>1 DEF BeginInjection
<1>2. CASE ChoosePath(e)
  BY <1>2 DEF ChoosePath
<1>3. CASE FinishInjection(e)
  <2>1. IsFiniteSet(Inside) /\ e \in Inside
    BY <1>3, FS_Subset DEF Inside, FinishInjection
  <2>2. inFlight > 0
    BY <2>1, FS_EmptySet, FS_CardinalityType DEF InFlightExact
  <2> QED
    BY <1>3, <2>2 DEF FinishInjection
<1>4. CASE Count(e)
  BY <1>4 DEF Count
<1>5. CASE Enqueue(e)
  BY <1>5 DEF Enqueue
<1>6. CASE Publish(e)
  BY <1>6 DEF Publish
<1>7. CASE Claim(e)
  <2>1. <<e>> \in Seq(Entries) /\ Len(<<e>>) = 1
    OBVIOUS
  <2>2. UNCHANGED <<seen, inFlight, lock, pending, queue, count, published, wpc, want,
                     reserved, got, popped>>
    BY <1>7 DEF Claim
  <2>3. CASE active
    <3>1. UNCHANGED <<active, batch>> /\ ipc' = [ipc EXCEPT ![e] = "tryLock"]
      BY <1>7, <2>3 DEF Claim
    <3> QED
      BY <2>2, <3>1
  <2>4. CASE ~active
    <3>1. /\ active' = TRUE
          /\ batch' = [batch EXCEPT ![e] = <<e>>] /\ ipc' = [ipc EXCEPT ![e] = "fill"]
      BY <1>7, <2>4 DEF Claim
    <3>2. TypeOK'
      BY <2>1, <2>2, <3>1
    <3>3. BatchHeld'
      BY <2>1, <3>1, 1 <= MaxBatch, <<e>> # <<>>
    <3> QED
      BY <3>2, <3>3
  <2> QED
    BY <2>3, <2>4
<1>8. CASE TryLock(e)
  BY <1>8 DEF TryLock
<1>9. CASE Check(e)
  BY <1>9 DEF Check
<1>10. CASE AppendPending(e)
  <2>1. Append(pending, e) \in Seq(Entries)
    BY AppendProperties
  <2>2. /\ pending' = Append(pending, e)
        /\ ipc' = [ipc EXCEPT ![e] = "recheck"]
        /\ UNCHANGED <<seen, batch, inFlight, active, lock, queue, count, published, wpc,
                       want, reserved, got, popped>>
    BY <1>10 DEF AppendPending
  <2>3. TypeOK'
    BY <2>1, <2>2
  <2>4. BatchHeld'
    BY <2>2
  <2> QED
    BY <2>3, <2>4
<1>11. CASE Recheck(e)
  <2>1. pending' \in Seq(Entries)
    <3>1. CASE pending # <<>>
      <4>1. Len(pending) - 1 \in 0..Len(pending)
        BY <3>1
      <4> QED
        BY <1>11, <4>1, SplitTypes DEF Recheck
    <3> QED
      BY <1>11, <3>1 DEF Recheck
  <2> QED
    BY <1>11, <2>1 DEF Recheck
<1>12. CASE Fill(e)
  <2> DEFINE n == Least(MaxBatch - Len(batch[e]), Len(pending))
  <2>1. n \in 0..Len(pending)
    BY <1>12 DEF Fill, Least
  <2>2. /\ Front(pending, n) \in Seq(Entries) /\ Len(Front(pending, n)) = n
        /\ Rest(pending, n) \in Seq(Entries)
    BY <2>1, SplitTypes
  <2>3. /\ batch[e] \o Front(pending, n) \in Seq(Entries)
        /\ batch[e] \o Front(pending, n) # <<>>
    <3>1. batch[e] \in Seq(Entries) /\ Len(batch[e]) > 0
      BY <1>12 DEF Fill
    <3> QED
      BY <2>2, <3>1, ConcatProperties
  <2> HIDE DEF n
  <2>4. batch' = [batch EXCEPT ![e] = batch[e] \o Front(pending, n)]
        /\ pending' = Rest(pending, n)
    BY <1>12 DEF Fill, n
  <2> QED
    BY <1>12, <2>1, <2>2, <2>3, <2>4 DEF Fill
<1>13. CASE Reserve(e)
  <2>1. count + Len(batch[e]) \in Nat
    BY LenProperties
  <2>2. /\ count' = count + Len(batch[e])
        /\ ipc' = [ipc EXCEPT ![e] = "batchEnqueue"]
        /\ ipc[e] = "reserve"
        /\ UNCHANGED <<seen, batch, inFlight, active, lock, pending, queue, published, wpc,
                       want, reserved, got, popped>>
    BY <1>13 DEF Reserve
  <2>3. TypeOK'
    BY <2>1, <2>2
  <2>4. BatchHeld'
    BY <2>2
  <2> QED
    BY <2>3, <2>4
<1>14. CASE BatchEnqueue(e)
  <2>1. batch[e] # <<>>
    BY <1>14 DEF BatchEnqueue
  <2>2. Head(batch[e]) \in Entries /\ Tail(batch[e]) \in Seq(Entries)
    BY <2>1, HeadTailProperties
  <2>3. Append(queue, Head(batch[e])) \in Seq(Entries)
    BY <2>2, AppendProperties
  <2>4. /\ queue' = Append(queue, Head(batch[e]))
        /\ batch' = [batch EXCEPT ![e] = Tail(batch[e])]
        /\ ipc' = [ipc EXCEPT ![e] = "batchPublish"]
        /\ UNCHANGED <<seen, inFlight, active, lock, pending, count, published, wpc, want,
                       reserved, got, popped>>
    BY <1>14 DEF BatchEnqueue
  <2>5. TypeOK'
    BY <2>2, <2>3, <2>4
  <2>6. BatchHeld'
    BY <2>4
  <2> QED
    BY <2>5, <2>6
<1>15. CASE BatchPublish(e)
  BY <1>15 DEF BatchPublish
<1>16. CASE Drain(e)
  <2>1. CASE pending = <<>>
    BY <1>16, <2>1 DEF Drain
  <2>2. CASE pending # <<>>
    <3> DEFINE n == Least(MaxBatch, Len(pending))
    <3>1. n \in 0..Len(pending) /\ n \in 1..MaxBatch
      BY <2>2 DEF Least
    <3>2. /\ Front(pending, n) \in Seq(Entries) /\ Len(Front(pending, n)) = n
          /\ Rest(pending, n) \in Seq(Entries)
      BY <3>1, SplitTypes
    <3> HIDE DEF n
    <3>3. batch' = [batch EXCEPT ![e] = Front(pending, n)] /\ pending' = Rest(pending, n)
      BY <1>16, <2>2 DEF Drain, n
    <3>4. Front(pending, n) # <<>>
      BY <3>1, <3>2
    <3>5. /\ ipc' = [ipc EXCEPT ![e] = "fill"]
          /\ UNCHANGED <<active, seen, inFlight, lock, queue, counters, popVars>>
      BY <1>16, <2>2 DEF Drain
    <3>6. TypeOK'
      BY <3>2, <3>3, <3>5
    <3>7. BatchHeld'
      BY <3>1, <3>2, <3>3, <3>4, <3>5
    <3> QED
      BY <3>6, <3>7
  <2> QED
    BY <2>1, <2>2
<1> QED
  BY <1>1, <1>2, <1>3, <1>4, <1>5, <1>6, <1>7, <1>8, <1>9, <1>10, <1>11, <1>12, <1>13,
     <1>14, <1>15, <1>16
  DEF InjectSteps

\* pop and pop_batch_into preserve the invariant: what is given back was taken.
LEMMA PopCounts ==
    ASSUME CountInv, NEW w \in Workers, PopSteps(w)
    PROVE  CountInv'
<1> USE ReadyInjectorAssumption DEF CountInv, TypeOK, PopBounded, PopStates
<1>1. UNCHANGED <<ipc, seen, batch, combiner>>
  BY DEF PopSteps, ReservePublished, ReserveMore, Dequeue, Settle
<1>2. InFlightExact' /\ BatchHeld'
  BY <1>1 DEF InFlightExact, Inside, BatchHeld, combiner
<1>3. CASE \E max \in 1..MaxPop : ReservePublished(w, max)
  BY <1>1, <1>2, <1>3 DEF ReservePublished, combiner
<1>4. CASE ReserveMore(w)
  <2>1. CASE reserved[w] < want[w] /\ published > 0 /\ wpc' = wpc
    <3>1. /\ published - 1 \in Nat /\ reserved[w] + 1 \in 0..MaxPop
          /\ got[w] = 0 /\ reserved[w] + 1 <= want[w] /\ reserved[w] + 1 > 0
      BY <1>4, <2>1 DEF ReserveMore
    <3>2. /\ published' = published - 1
          /\ reserved' = [reserved EXCEPT ![w] = reserved[w] + 1]
      BY <1>4, <2>1 DEF ReserveMore
    <3>3. TypeOK'
      BY <1>1, <1>4, <2>1, <3>1, <3>2 DEF ReserveMore, combiner
    <3>4. PopBounded'
      BY <1>4, <2>1, <3>1, <3>2 DEF ReserveMore
    <3> QED
      BY <1>2, <3>3, <3>4
  <2>2. CASE /\ wpc' = [wpc EXCEPT ![w] = "dequeue"]
             /\ UNCHANGED <<published, reserved>>
    <3>1. TypeOK'
      BY <1>1, <1>4, <2>2 DEF ReserveMore, combiner
    <3>2. PopBounded'
      BY <1>4, <2>2 DEF ReserveMore
    <3> QED
      BY <1>2, <3>1, <3>2
  <2> QED
    BY <1>4, <2>1, <2>2 DEF ReserveMore
<1>5. CASE Dequeue(w)
  <2>1. wpc[w] = "dequeue" /\ got[w] < reserved[w] /\ got[w] + 1 \in 0..MaxPop
    BY <1>5 DEF Dequeue
  <2>2. CASE queue = <<>>
    <3>1. /\ UNCHANGED <<got, popped, queue, want, reserved, counters>>
          /\ wpc' = [wpc EXCEPT ![w] = "settle"]
      BY <1>5, <2>2 DEF Dequeue
    <3>2. TypeOK' /\ PopBounded'
      BY <1>1, <3>1 DEF combiner, counters
    <3> QED
      BY <1>2, <3>2
  <2>3. CASE queue # <<>>
    <3>1. Head(queue) \in Entries /\ Tail(queue) \in Seq(Entries)
      BY <2>3, HeadTailProperties
    <3>2. /\ got' = [got EXCEPT ![w] = got[w] + 1]
          /\ popped' = popped \cup {Head(queue)} /\ queue' = Tail(queue)
          /\ UNCHANGED <<want, reserved, counters>>
          /\ wpc' = [wpc EXCEPT ![w] = IF got'[w] = reserved[w] THEN "settle" ELSE "dequeue"]
      BY <1>5, <2>3 DEF Dequeue
    <3>3. got'[w] = got[w] + 1 /\ got'[w] <= reserved[w]
      BY <2>1, <3>2
    <3>4. TypeOK'
      BY <1>1, <2>1, <3>1, <3>2 DEF combiner, counters
    <3>5. PopBounded'
      BY <2>1, <3>2, <3>3
    <3> QED
      BY <1>2, <3>4, <3>5
  <2> QED
    BY <2>2, <2>3
<1>6. CASE Settle(w)
  <2>1. reserved[w] - got[w] \in Nat
    OBVIOUS
  <2>2. published' \in Nat /\ count' \in Nat
    <3>1. published + (reserved[w] - got[w]) \in Nat
      BY <2>1
    <3>2. got[w] \in Nat /\ count \in Nat
      OBVIOUS
    <3>3. count >= got[w] => count - got[w] \in Nat
      BY <3>2
    <3> QED
      BY <1>6, <3>1, <3>3 DEF Settle
  <2>3. /\ wpc' = [wpc EXCEPT ![w] = "idle"] /\ want' = [want EXCEPT ![w] = 0]
        /\ reserved' = [reserved EXCEPT ![w] = 0] /\ got' = [got EXCEPT ![w] = 0]
        /\ UNCHANGED <<queue, popped>>
    BY <1>6 DEF Settle
  <2>4. TypeOK'
    BY <1>1, <2>2, <2>3 DEF combiner
  <2>5. PopBounded'
    BY <2>3
  <2> QED
    BY <1>2, <2>4, <2>5
<1> QED
  BY <1>3, <1>4, <1>5, <1>6 DEF PopSteps

\* Every reachable state of the counters satisfies the invariant.
THEOREM CountInvariance == Spec => []CountInv
<1>1. CountInv /\ UNCHANGED vars => CountInv'
  BY DEF CountInv, TypeOK, InFlightExact, Inside, BatchHeld, PopBounded, vars, combiner,
     counters, popVars
<1>2. ASSUME CountInv, NEW e \in Entries, BeginInjection(e) \/ InjectSteps(e)
      PROVE  CountInv'
  <2>1. UNCHANGED popVars
    BY <1>2 DEF BeginInjection, InjectSteps, ChoosePath, FinishInjection, Count, Enqueue,
       Publish, Claim, TryLock, Check, AppendPending, Recheck, Fill, Reserve, BatchEnqueue,
       BatchPublish, Drain
  <2>2. PopBounded'
    BY <1>2, <2>1 DEF CountInv, PopBounded, popVars
  <2> QED
    BY <1>2, <2>2, InsideSteps, InjectTypes DEF CountInv
<1>3. CountInv /\ [Next]_vars => CountInv'
  BY <1>1, <1>2, PopCounts DEF Next
<1> QED
  BY <1>3, CountInvInit, PTL DEF Spec

\* No counter of GlobalInjector or FaaFifoQueue goes below zero, whatever the
\* numbers of injections and workers and the limits: in_flight, and published,
\* which pop reduces with an unchecked subtraction.
THEOREM TypeCorrect == Spec => []TypeOK
<1>1. CountInv => TypeOK
  BY DEF CountInv
<1> QED
  BY <1>1, CountInvariance, PTL

-----------------------------------------------------------------------------
(* What the counters count.                                                *)

\* The entries that push has counted and not enqueued, and the ones that are
\* in the queue and not published.
Enqueuing == {e \in Entries : ipc[e] = "enqueue"}
Unpublished == {e \in Entries : ipc[e] \in {"publish", "batchPublish"}}
\* A combiner that has counted its batch.
Batching == {"batchEnqueue", "batchPublish"}

\* One element for each entry a worker has dequeued and not taken off the
\* count, and for each reservation it has not used.
Dequeued == {p \in Workers \X (1..MaxPop) : p[2] <= got[p[1]]}
Held == {p \in Workers \X (1..MaxPop) : got[p[1]] < p[2] /\ p[2] <= reserved[p[1]]}

\* What `count' amounts to without the batch of a combiner.
Counted == Len(queue) + Cardinality(Enqueuing) + Cardinality(Dequeued)

CountExact ==
    /\ \A e \in Entries : ipc[e] \in Batching => count = Counted + Len(batch[e])
    /\ (\A e \in Entries : ipc[e] \notin Batching) => count = Counted
PublishedExact == Len(queue) = published + Cardinality(Held) + Cardinality(Unpublished)
\* No reservation is given back.
AllUsed == \A w \in Workers : wpc[w] = "settle" => got[w] = reserved[w]

QueueInv == CountExact /\ PublishedExact /\ AllUsed

\* All of these are finite.
LEMMA QueueCounts ==
    /\ IsFiniteSet(Enqueuing) /\ Cardinality(Enqueuing) \in Nat
    /\ IsFiniteSet(Unpublished) /\ Cardinality(Unpublished) \in Nat
    /\ IsFiniteSet(Dequeued) /\ Cardinality(Dequeued) \in Nat
    /\ IsFiniteSet(Held) /\ Cardinality(Held) \in Nat
<1>1. IsFiniteSet(Enqueuing) /\ IsFiniteSet(Unpublished)
  BY ReadyInjectorAssumption, FS_Subset DEF Enqueuing, Unpublished
<1>2. IsFiniteSet(1..MaxPop)
  BY ReadyInjectorAssumption, FS_Interval
<1>3. IsFiniteSet(Workers \X (1..MaxPop))
  BY <1>2, ReadyInjectorAssumption, FS_Product
<1>4. IsFiniteSet(Dequeued) /\ IsFiniteSet(Held)
  BY <1>3, FS_Subset DEF Dequeued, Held
<1> QED
  BY <1>1, <1>4, FS_CardinalityType

\* One member more or less counts one more or less.
LEMMA OneMore ==
    ASSUME NEW S, IsFiniteSet(S), NEW x
    PROVE  /\ x \notin S => Cardinality(S \cup {x}) = Cardinality(S) + 1
           /\ x \in S => Cardinality(S \ {x}) = Cardinality(S) - 1 /\ Cardinality(S) >= 1
<1>1. ASSUME x \notin S PROVE Cardinality(S \cup {x}) = Cardinality(S) + 1
  BY <1>1, FS_AddElement
<1>2. ASSUME x \in S PROVE Cardinality(S \ {x}) = Cardinality(S) - 1
  BY <1>2, FS_RemoveElement
<1>3. ASSUME x \in S PROVE Cardinality(S) >= 1
  BY <1>3, FS_EmptySet, FS_CardinalityType
<1> QED
  BY <1>1, <1>2, <1>3

\* Adding to and taking from a queue.
LEMMA QueueLengths ==
    ASSUME NEW s \in Seq(Entries), NEW x \in Entries
    PROVE  /\ Len(s) \in Nat
           /\ Len(Append(s, x)) = Len(s) + 1
           /\ s # <<>> <=> Len(s) >= 1
           /\ s # <<>> => Len(Tail(s)) = Len(s) - 1
  BY AppendProperties, HeadTailProperties, EmptySeq, LenProperties

\* The steps of inject_ready preserve the accounts: what is counted is about to
\* be enqueued, and what is enqueued is about to be published.
LEMMA QueueInject ==
    ASSUME IndInv, CountInv, QueueInv, NEW e \in Entries, BeginInjection(e) \/ InjectSteps(e)
    PROVE  QueueInv'
<1> USE DEF CountInv, TypeOK, Goto, Batching
<1>0. UNCHANGED popVars
  BY DEF BeginInjection, InjectSteps, ChoosePath, FinishInjection, Count, Enqueue,
     Publish, Claim, TryLock, Check, AppendPending, Recheck, Fill, Reserve, BatchEnqueue,
     BatchPublish, Drain
<1>1. Dequeued' = Dequeued /\ Held' = Held /\ AllUsed'
  BY <1>0 DEF Dequeued, Held, AllUsed, QueueInv, popVars
<1>2. Len(queue) \in Nat /\ count \in Nat /\ published \in Nat
  BY LenProperties
<1>3. CASE Count(e)
  <2>1. /\ count' = count + 1
        /\ UNCHANGED <<batch, queue, published>>
        /\ ipc[e] = "count" /\ ipc' = [ipc EXCEPT ![e] = "enqueue"]
    BY <1>3 DEF Count
  <2>2. Enqueuing' = Enqueuing \cup {e} /\ e \notin Enqueuing
    BY <2>1 DEF Enqueuing
  <2>3. Unpublished' = Unpublished
    BY <2>1 DEF Unpublished
  <2>4. Cardinality(Enqueuing') = Cardinality(Enqueuing) + 1
    BY <2>2, QueueCounts, OneMore
  <2>5. Counted' = Counted + 1 /\ Counted \in Nat
    BY <1>1, <1>2, <2>1, <2>4, QueueCounts DEF Counted
  <2>6. CountExact'
    <3>1. \A f \in Entries : Len(batch[f]) \in Nat /\ (ipc'[f] \in Batching <=> ipc[f] \in Batching)
      BY <2>1, LenProperties
    <3>2. count' = count + 1 /\ batch' = batch
      BY <2>1
    <3> HIDE DEF CountInv, TypeOK, Batching
    <3>3. ASSUME NEW f \in Entries, ipc'[f] \in Batching
          PROVE  count' = Counted' + Len(batch'[f])
      <4>1. count = Counted + Len(batch[f])
        BY <3>1, <3>3 DEF CountExact, QueueInv
      <4> DEFINE m == Len(batch[f])
      <4>2. m \in Nat /\ count = Counted + m
        BY <3>1, <4>1
      <4>3. m = Len(batch'[f])
        BY <3>2
      <4> HIDE DEF m
      <4>4. count' = Counted' + m
        BY <2>5, <3>2, <4>2
      <4> QED
        BY <4>3, <4>4
    <3>4. ASSUME \A f \in Entries : ipc'[f] \notin Batching
          PROVE  count' = Counted'
      BY <2>5, <3>1, <3>2, <3>4 DEF CountExact, QueueInv
    <3> QED
      BY <3>3, <3>4 DEF CountExact
  <2>7. PublishedExact'
    BY <1>1, <2>1, <2>3 DEF PublishedExact, QueueInv
  <2> QED
    BY <1>1, <2>6, <2>7 DEF QueueInv
<1>4. CASE Enqueue(e)
  <2>1. /\ queue' = Append(queue, e)
        /\ UNCHANGED <<batch, count, published>>
        /\ ipc[e] = "enqueue" /\ ipc' = [ipc EXCEPT ![e] = "publish"]
    BY <1>4 DEF Enqueue, counters
  <2>2. Enqueuing' = Enqueuing \ {e} /\ e \in Enqueuing
    BY <2>1 DEF Enqueuing
  <2>3. Unpublished' = Unpublished \cup {e} /\ e \notin Unpublished
    BY <2>1 DEF Unpublished
  <2>4. Len(queue') = Len(queue) + 1
    BY <2>1, QueueLengths
  <2>5. Cardinality(Enqueuing') = Cardinality(Enqueuing) - 1
    BY <2>2, QueueCounts, OneMore
  <2>6. Counted' = Counted
    BY <1>1, <1>2, <2>4, <2>5, QueueCounts DEF Counted
  <2>7. CountExact'
    BY <2>1, <2>6 DEF CountExact, QueueInv
  <2>8. Cardinality(Unpublished') = Cardinality(Unpublished) + 1
    BY <2>3, QueueCounts, OneMore
  <2>9. PublishedExact'
    BY <1>1, <1>2, <2>1, <2>4, <2>8, QueueCounts DEF PublishedExact, QueueInv
  <2> QED
    BY <1>1, <2>7, <2>9 DEF QueueInv
<1>5. CASE Publish(e)
  <2>1. /\ published' = published + 1
        /\ UNCHANGED <<batch, count, queue>>
        /\ ipc[e] = "publish" /\ ipc' = [ipc EXCEPT ![e] = "finish"]
    BY <1>5 DEF Publish
  <2>2. Enqueuing' = Enqueuing
    BY <2>1 DEF Enqueuing
  <2>3. Unpublished' = Unpublished \ {e} /\ e \in Unpublished
    BY <2>1 DEF Unpublished
  <2>4. CountExact'
    BY <1>1, <2>1, <2>2 DEF CountExact, Counted, QueueInv
  <2>5. Cardinality(Unpublished') = Cardinality(Unpublished) - 1
    BY <2>3, QueueCounts, OneMore
  <2>6. PublishedExact'
    BY <1>1, <1>2, <2>1, <2>5, QueueCounts DEF PublishedExact, QueueInv
  <2> QED
    BY <1>1, <2>4, <2>6 DEF QueueInv
<1>6. CASE Reserve(e)
  <2>1. /\ count' = count + Len(batch[e])
        /\ UNCHANGED <<batch, queue, published>>
        /\ ipc[e] = "reserve" /\ ipc' = [ipc EXCEPT ![e] = "batchEnqueue"]
    BY <1>6 DEF Reserve
  <2>2. Enqueuing' = Enqueuing /\ Unpublished' = Unpublished
    BY <2>1 DEF Enqueuing, Unpublished
  <2>3. \A f \in Entries : ipc[f] \notin Batching
    BY <2>1 DEF IndInv, DeferralSafe, Combining
  <2>4. count' = Counted' + Len(batch'[e])
    BY <1>1, <2>1, <2>2, <2>3 DEF CountExact, Counted, QueueInv
  <2>5. CountExact'
    BY <2>1, <2>3, <2>4 DEF CountExact
  <2>6. PublishedExact'
    BY <1>1, <2>1, <2>2 DEF PublishedExact, QueueInv
  <2> QED
    BY <1>1, <2>5, <2>6 DEF QueueInv
<1>7. CASE BatchEnqueue(e)
  <2>1. /\ queue' = Append(queue, Head(batch[e]))
        /\ batch' = [batch EXCEPT ![e] = Tail(batch[e])]
        /\ UNCHANGED <<count, published>>
        /\ ipc[e] = "batchEnqueue" /\ ipc' = [ipc EXCEPT ![e] = "batchPublish"]
    BY <1>7 DEF BatchEnqueue, counters
  <2>2. batch[e] # <<>> /\ batch[e] \in Seq(Entries)
    BY <2>1 DEF BatchHeld
  <2>3. Head(batch[e]) \in Entries
    BY <2>2, HeadTailProperties
  <2>4. Len(queue') = Len(queue) + 1
    BY <2>1, <2>3, QueueLengths
  <2>5. Len(batch'[e]) = Len(batch[e]) - 1 /\ Len(batch[e]) \in Nat
    BY <2>1, <2>2, QueueLengths
  <2>6. Enqueuing' = Enqueuing
    BY <2>1 DEF Enqueuing
  <2>7. Counted' = Counted + 1 /\ Counted \in Nat
    BY <1>1, <1>2, <2>4, <2>6, QueueCounts DEF Counted
  <2>8. \A f \in Entries : ipc[f] \in Batching => f = e
    BY <2>1 DEF IndInv, DeferralSafe, Combining
  <2>9. count' = Counted' + Len(batch'[e])
    <3>1. count = Counted + Len(batch[e])
      BY <2>1 DEF CountExact, QueueInv
    <3>2. count' = count
      BY <2>1
    <3> DEFINE m == Len(batch[e])
               n == Len(batch'[e])
    <3>3. m \in Nat /\ n = m - 1 /\ count = Counted + m
      BY <2>5, <3>1
    <3> HIDE DEF CountInv, TypeOK, Batching, m, n
    <3>4. count' = Counted' + n
      BY <2>7, <3>2, <3>3
    <3> QED
      BY <3>4 DEF n
  <2>10. CountExact'
    BY <2>1, <2>8, <2>9 DEF CountExact
  <2>11. Unpublished' = Unpublished \cup {e} /\ e \notin Unpublished
    BY <2>1 DEF Unpublished
  <2>12. Cardinality(Unpublished') = Cardinality(Unpublished) + 1
    BY <2>11, QueueCounts, OneMore
  <2>13. PublishedExact'
    BY <1>1, <1>2, <2>1, <2>4, <2>12, QueueCounts DEF PublishedExact, QueueInv
  <2> QED
    BY <1>1, <2>10, <2>13 DEF QueueInv
<1>8. CASE BatchPublish(e)
  <2>1. /\ published' = published + 1
        /\ UNCHANGED <<batch, queue, count>>
        /\ ipc[e] = "batchPublish"
        /\ ipc' = [ipc EXCEPT ![e] = IF batch[e] = <<>> THEN "drain" ELSE "batchEnqueue"]
    BY <1>8 DEF BatchPublish, combiner
  <2>2. Enqueuing' = Enqueuing
    BY <2>1 DEF Enqueuing
  <2>3. Counted' = Counted /\ Counted \in Nat
    BY <1>1, <1>2, <2>1, <2>2, QueueCounts DEF Counted
  <2>4. \A f \in Entries : ipc[f] \in Batching => f = e
    BY <2>1 DEF IndInv, DeferralSafe, Combining
  <2>5. count = Counted + Len(batch[e])
    BY <2>1 DEF CountExact, QueueInv
  <2>6. CountExact'
    <3>1. CASE batch[e] = <<>>
      <4>1. Len(batch[e]) = 0
        BY <3>1
      <4>2. ipc'[e] = "drain" /\ \A f \in Entries : ipc'[f] \notin Batching
        BY <2>1, <2>4, <3>1
      <4> QED
        BY <2>1, <2>3, <2>5, <4>1, <4>2 DEF CountExact
    <3>2. CASE batch[e] # <<>>
      <4>1. ipc'[e] = "batchEnqueue" /\ \A f \in Entries : ipc'[f] \in Batching => f = e
        BY <2>1, <2>4, <3>2
      <4> QED
        BY <2>1, <2>3, <2>5, <4>1 DEF CountExact
    <3> QED
      BY <3>1, <3>2
  <2>7. Unpublished' = Unpublished \ {e} /\ e \in Unpublished
    BY <2>1 DEF Unpublished
  <2>8. Cardinality(Unpublished') = Cardinality(Unpublished) - 1
    BY <2>7, QueueCounts, OneMore
  <2>9. PublishedExact'
    BY <1>1, <1>2, <2>1, <2>8, QueueCounts DEF PublishedExact, QueueInv
  <2> QED
    BY <1>1, <2>6, <2>9 DEF QueueInv
<1>9. CASE ~ (Count(e) \/ Enqueue(e) \/ Publish(e) \/ Reserve(e) \/ BatchEnqueue(e)
              \/ BatchPublish(e))
  <2> USE DEF BeginInjection, InjectSteps, ChoosePath, FinishInjection, Claim, TryLock, Check,
          AppendPending, Recheck, Fill, Drain, counters
  <2>1. UNCHANGED <<queue, count, published>>
    BY <1>9
  <2>2. \A f \in Entries : f # e => ipc'[f] = ipc[f] /\ batch'[f] = batch[f]
    BY <1>9 DEF combiner
  <2>3. /\ ipc[e] \notin {"enqueue", "publish"} \cup Batching
        /\ ipc'[e] \notin {"enqueue", "publish"} \cup Batching
    BY <1>9
  <2>4. Enqueuing' = Enqueuing /\ Unpublished' = Unpublished
    BY <2>2, <2>3 DEF Enqueuing, Unpublished
  <2>5. CountExact'
    <3>1. \A f \in Entries : /\ ipc'[f] \in Batching <=> ipc[f] \in Batching
                             /\ ipc[f] \in Batching => batch'[f] = batch[f]
      BY <2>2, <2>3
    <3> QED
      BY <1>1, <2>1, <2>4, <3>1 DEF CountExact, Counted, QueueInv
  <2>6. PublishedExact'
    BY <1>1, <2>1, <2>4 DEF PublishedExact, QueueInv
  <2> QED
    BY <1>1, <2>5, <2>6 DEF QueueInv
<1> QED
  BY <1>3, <1>4, <1>5, <1>6, <1>7, <1>8, <1>9

\* Which pairs stand for the entries and reservations of a worker.
LEMMA PairMembers ==
    ASSUME NEW v \in Workers, NEW i \in 1..MaxPop
    PROVE  /\ <<v, i>> \in Dequeued <=> i <= got[v]
           /\ <<v, i>> \in Held <=> got[v] < i /\ i <= reserved[v]
           /\ <<v, i>> \in Dequeued' <=> i <= got'[v]
           /\ <<v, i>> \in Held' <=> got'[v] < i /\ i <= reserved'[v]
  BY DEF Dequeued, Held

\* The pairs are all there is.
LEMMA OnlyPairs ==
    ASSUME NEW p \in Dequeued \cup Held \cup Dequeued' \cup Held'
    PROVE  \E v \in Workers, i \in 1..MaxPop : p = <<v, i>>
  BY DEF Dequeued, Held

\* A reservation more.
LEMMA HeldMore ==
    ASSUME CountInv, NEW w \in Workers, NEW n \in 1..MaxPop, n = reserved[w] + 1,
           reserved' = [reserved EXCEPT ![w] = n], got' = got
    PROVE  /\ Cardinality(Held') = Cardinality(Held) + 1
           /\ Dequeued' = Dequeued
<1>1. /\ got \in [Workers -> 0..MaxPop] /\ reserved \in [Workers -> 0..MaxPop]
      /\ got[w] <= reserved[w]
  BY DEF CountInv, TypeOK, PopBounded
<1>2. <<w, n>> \notin Held
  BY <1>1, PairMembers
<1>3. ASSUME NEW v \in Workers, NEW i \in 1..MaxPop
      PROVE  <<v, i>> \in Held' <=> <<v, i>> \in Held \cup {<<w, n>>}
  <2>1. CASE v # w
    BY <1>1, <2>1, PairMembers
  <2>2. CASE v = w
    <3>1. <<v, i>> \in Held' <=> got[w] < i /\ i <= n
      BY <1>1, <2>2, PairMembers
    <3>2. <<v, i>> \in Held <=> got[w] < i /\ i <= reserved[w]
      BY <1>1, <2>2, PairMembers
    <3>3. <<v, i>> = <<w, n>> <=> i = n
      BY <2>2
    <3>4. got[w] < i /\ i <= n <=> (got[w] < i /\ i <= reserved[w]) \/ i = n
      BY <1>1
    <3> QED
      BY <3>1, <3>2, <3>3, <3>4
  <2> QED
    BY <2>1, <2>2
<1>4. Held' = Held \cup {<<w, n>>}
  BY <1>3, OnlyPairs
<1>5. Dequeued' = Dequeued
  BY DEF Dequeued
<1> QED
  BY <1>2, <1>4, <1>5, QueueCounts, OneMore

\* A reservation used: it becomes a dequeued entry.
LEMMA HeldToDequeued ==
    ASSUME CountInv, NEW w \in Workers, got[w] < reserved[w],
           got' = [got EXCEPT ![w] = got[w] + 1], reserved' = reserved
    PROVE  /\ Cardinality(Held') = Cardinality(Held) - 1 /\ Cardinality(Held) >= 1
           /\ Cardinality(Dequeued') = Cardinality(Dequeued) + 1
<1> DEFINE n == got[w] + 1
<1>1. /\ got \in [Workers -> 0..MaxPop] /\ reserved \in [Workers -> 0..MaxPop]
      /\ n \in 1..MaxPop
  BY ReadyInjectorAssumption DEF CountInv, TypeOK
<1>2. <<w, n>> \in Held /\ <<w, n>> \notin Dequeued
  BY <1>1, PairMembers
<1>3. ASSUME NEW v \in Workers, NEW i \in 1..MaxPop
      PROVE  /\ <<v, i>> \in Held' <=> <<v, i>> \in Held \ {<<w, n>>}
             /\ <<v, i>> \in Dequeued' <=> <<v, i>> \in Dequeued \cup {<<w, n>>}
  <2>1. CASE v # w
    BY <1>1, <2>1, PairMembers
  <2>2. CASE v = w
    <3>1. /\ <<v, i>> \in Held' <=> n < i /\ i <= reserved[w]
          /\ <<v, i>> \in Dequeued' <=> i <= n
      BY <1>1, <2>2, PairMembers
    <3>2. /\ <<v, i>> \in Held <=> got[w] < i /\ i <= reserved[w]
          /\ <<v, i>> \in Dequeued <=> i <= got[w]
      BY <1>1, <2>2, PairMembers
    <3>3. <<v, i>> = <<w, n>> <=> i = n
      BY <2>2
    <3>4. /\ n < i /\ i <= reserved[w] <=> (got[w] < i /\ i <= reserved[w]) /\ i # n
          /\ i <= n <=> i <= got[w] \/ i = n
      BY <1>1
    <3> QED
      BY <3>1, <3>2, <3>3, <3>4
  <2> QED
    BY <2>1, <2>2
<1> HIDE DEF n
<1>4. Held' = Held \ {<<w, n>>}
  BY <1>3, OnlyPairs
<1>5. Dequeued' = Dequeued \cup {<<w, n>>}
  BY <1>1, <1>3, OnlyPairs, PairMembers
<1> QED
  BY <1>2, <1>4, <1>5, QueueCounts, OneMore

\* What a worker dequeued is taken off the count at once.
LEMMA DequeuedSettled ==
    ASSUME CountInv, NEW w \in Workers, got[w] = reserved[w],
           got' = [got EXCEPT ![w] = 0], reserved' = [reserved EXCEPT ![w] = 0]
    PROVE  /\ Held' = Held
           /\ Cardinality(Dequeued') = Cardinality(Dequeued) - got[w]
           /\ got[w] <= Cardinality(Dequeued)
<1> DEFINE own == {w} \X (1..got[w])
<1>1. /\ got \in [Workers -> 0..MaxPop] /\ reserved \in [Workers -> 0..MaxPop]
      /\ got[w] \in 0..MaxPop
  BY DEF CountInv, TypeOK
<1>2. IsFiniteSet(own) /\ Cardinality(own) = got[w]
  <2>1. IsFiniteSet({w}) /\ Cardinality({w}) = 1
    BY FS_Singleton
  <2>2. IsFiniteSet(1..got[w]) /\ Cardinality(1..got[w]) = got[w]
    BY <1>1, FS_Interval
  <2>3. IsFiniteSet(own) /\ Cardinality(own) = Cardinality({w}) * Cardinality(1..got[w])
    BY <2>1, <2>2, FS_Product
  <2> QED
    BY <1>1, <2>1, <2>2, <2>3
<1>3. ASSUME NEW v \in Workers, NEW i \in 1..MaxPop
      PROVE  <<v, i>> \in own <=> v = w /\ i <= got[w]
  BY <1>1
<1>4. own \subseteq Dequeued
  <2> SUFFICES ASSUME NEW i \in 1..got[w] PROVE <<w, i>> \in Dequeued
    OBVIOUS
  <2>1. i \in 1..MaxPop /\ i <= got[w]
    BY <1>1, ReadyInjectorAssumption
  <2> QED
    BY <2>1, PairMembers
<1> HIDE DEF own
<1>5. ASSUME NEW v \in Workers, NEW i \in 1..MaxPop
      PROVE  /\ <<v, i>> \in Held' <=> <<v, i>> \in Held
             /\ <<v, i>> \in Dequeued' <=> <<v, i>> \in Dequeued \ own
  <2>1. CASE v # w
    BY <1>1, <1>3, <2>1, PairMembers
  <2>2. CASE v = w
    BY <1>1, <1>3, <2>2, PairMembers
  <2> QED
    BY <2>1, <2>2
<1>6. Held' = Held /\ Dequeued' = Dequeued \ own
  <2>1. Held' = Held
    BY <1>5, OnlyPairs
  <2>2. Dequeued' \subseteq Dequeued \ own
    BY <1>5, OnlyPairs
  <2>3. Dequeued \ own \subseteq Dequeued'
    BY <1>5, OnlyPairs
  <2> QED
    BY <2>1, <2>2, <2>3
<1>7. Dequeued \cap own = own
  BY <1>4
<1>8. Cardinality(Dequeued \ own) = Cardinality(Dequeued) - Cardinality(own)
  BY <1>7, QueueCounts, FS_Difference
<1>9. Cardinality(own) <= Cardinality(Dequeued)
  BY <1>4, QueueCounts, FS_Subset
<1> QED
  BY <1>2, <1>6, <1>8, <1>9

\* A reservation that is not used yet has its entry in the queue.
LEMMA HeldBacked ==
    ASSUME CountInv, QueueInv, NEW w \in Workers, wpc[w] = "dequeue"
    PROVE  queue # <<>>
<1>1. /\ got[w] \in 0..MaxPop /\ reserved[w] \in 0..MaxPop
      /\ got[w] < reserved[w]
  BY DEF CountInv, TypeOK, PopBounded
<1>2. reserved[w] \in 1..MaxPop
  BY <1>1
<1>3. <<w, reserved[w]>> \in Held
  BY <1>1, <1>2, PairMembers
<1>4. Cardinality(Held) >= 1
  BY <1>3, QueueCounts, OneMore
<1>5. published \in Nat
  BY DEF CountInv, TypeOK
<1> DEFINE n == Len(queue)
<1>6. n = published + Cardinality(Held) + Cardinality(Unpublished)
  BY DEF QueueInv, PublishedExact
<1> HIDE DEF n
<1>7. n >= 1
  BY <1>4, <1>5, <1>6, QueueCounts
<1> QED
  BY <1>7 DEF n

\* pop and pop_batch_into preserve the accounts.
LEMMA QueuePop ==
    ASSUME CountInv, QueueInv, NEW w \in Workers, PopSteps(w)
    PROVE  QueueInv'
<1>0. UNCHANGED <<ipc, batch>>
  BY DEF PopSteps, ReservePublished, ReserveMore, Dequeue, Settle
<1>1. Enqueuing' = Enqueuing /\ Unpublished' = Unpublished
  BY <1>0 DEF Enqueuing, Unpublished
<1>2. /\ Len(queue) \in Nat /\ count \in Nat /\ published \in Nat
      /\ \A e \in Entries : Len(batch[e]) \in Nat
      /\ wpc \in [Workers -> PopStates]
      /\ got \in [Workers -> 0..MaxPop] /\ reserved \in [Workers -> 0..MaxPop]
      /\ want \in [Workers -> 0..MaxPop]
  BY LenProperties DEF CountInv, TypeOK
<1>3. Counted \in Nat
  BY <1>2, QueueCounts DEF Counted
<1>4. ASSUME UNCHANGED <<count, queue>>, Dequeued' = Dequeued PROVE CountExact'
  BY <1>0, <1>1, <1>4 DEF QueueInv, CountExact, Counted
<1>5. ASSUME UNCHANGED queue, published' = published - 1, Cardinality(Held') = Cardinality(Held) + 1
      PROVE  PublishedExact'
  <2> DEFINE n == Len(queue)
  <2>1. n = published + Cardinality(Held) + Cardinality(Unpublished) /\ n = Len(queue')
    BY <1>5 DEF QueueInv, PublishedExact
  <2> HIDE DEF n
  <2>2. n = published' + Cardinality(Held') + Cardinality(Unpublished')
    BY <1>1, <1>2, <1>5, <2>1, QueueCounts
  <2> QED
    BY <2>1, <2>2 DEF PublishedExact
<1>6. ASSUME NEW max \in 1..MaxPop, ReservePublished(w, max) PROVE QueueInv'
  <2>1. /\ wpc[w] = "idle" /\ wpc' = [wpc EXCEPT ![w] = "reserve"]
        /\ published' = published - 1
        /\ reserved' = [reserved EXCEPT ![w] = 1]
        /\ UNCHANGED <<queue, count, got>>
    BY <1>6 DEF ReservePublished
  <2>2. 1 = reserved[w] + 1 /\ 1 \in 1..MaxPop
    BY <2>1, ReadyInjectorAssumption DEF CountInv, PopBounded
  <2>3. Cardinality(Held') = Cardinality(Held) + 1 /\ Dequeued' = Dequeued
    BY <2>1, <2>2, HeldMore
  <2>4. AllUsed'
    BY <1>2, <2>1 DEF QueueInv, AllUsed
  <2> QED
    BY <1>4, <1>5, <2>1, <2>3, <2>4 DEF QueueInv
<1>7. CASE ReserveMore(w)
  <2>1. CASE /\ reserved[w] < want[w] /\ published > 0 /\ wpc' = wpc
             /\ published' = published - 1
             /\ reserved' = [reserved EXCEPT ![w] = reserved[w] + 1]
    <3>1. /\ wpc[w] = "reserve" /\ published' = published - 1
          /\ reserved' = [reserved EXCEPT ![w] = reserved[w] + 1]
          /\ UNCHANGED <<queue, count, got>>
      BY <1>7, <2>1 DEF ReserveMore
    <3>2. reserved[w] + 1 \in 1..MaxPop
      BY <1>2, <2>1, ReadyInjectorAssumption
    <3>3. Cardinality(Held') = Cardinality(Held) + 1 /\ Dequeued' = Dequeued
      BY <3>1, <3>2, HeldMore
    <3>4. AllUsed'
      BY <1>2, <2>1, <3>1 DEF QueueInv, AllUsed
    <3> QED
      BY <1>4, <1>5, <3>1, <3>3, <3>4 DEF QueueInv
  <2>2. CASE /\ wpc' = [wpc EXCEPT ![w] = "dequeue"]
             /\ UNCHANGED <<published, reserved>>
    <3>1. UNCHANGED <<queue, count, got>>
      BY <1>7 DEF ReserveMore
    <3>2. Held' = Held /\ Dequeued' = Dequeued
      BY <2>2, <3>1 DEF Held, Dequeued
    <3>3. PublishedExact'
      BY <1>1, <2>2, <3>1, <3>2 DEF QueueInv, PublishedExact
    <3>4. AllUsed'
      BY <1>2, <2>2, <3>1 DEF QueueInv, AllUsed
    <3> QED
      BY <1>4, <3>1, <3>2, <3>3, <3>4 DEF QueueInv
  <2> QED
    BY <1>7, <2>1, <2>2 DEF ReserveMore
<1>8. CASE Dequeue(w)
  <2>1. wpc[w] = "dequeue" /\ queue # <<>> /\ got[w] < reserved[w]
    BY <1>8, HeldBacked DEF Dequeue, CountInv, PopBounded
  <2>2. /\ got' = [got EXCEPT ![w] = got[w] + 1]
        /\ queue' = Tail(queue)
        /\ UNCHANGED <<reserved, count, published>>
        /\ wpc' = [wpc EXCEPT ![w] = IF got'[w] = reserved[w] THEN "settle" ELSE "dequeue"]
    BY <1>8, <2>1 DEF Dequeue, counters
  <2>3. /\ Cardinality(Held') = Cardinality(Held) - 1
        /\ Cardinality(Dequeued') = Cardinality(Dequeued) + 1
    BY <2>1, <2>2, HeldToDequeued
  <2> DEFINE m == Len(queue)
             n == Len(queue')
  <2>4. m \in Nat /\ n = m - 1
    <3>1. queue \in Seq(Entries)
      BY DEF CountInv, TypeOK
    <3> QED
      BY <2>1, <2>2, <3>1, HeadTailProperties, LenProperties
  <2>5. /\ Counted = m + Cardinality(Enqueuing) + Cardinality(Dequeued)
        /\ Counted' = n + Cardinality(Enqueuing') + Cardinality(Dequeued')
    BY DEF Counted
  <2>6. m = published + Cardinality(Held) + Cardinality(Unpublished)
    BY DEF QueueInv, PublishedExact
  <2> HIDE DEF m, n
  <2>7. Counted' = Counted
    BY <1>1, <2>3, <2>4, <2>5, QueueCounts
  <2>8. CountExact'
    BY <1>0, <2>2, <2>7 DEF QueueInv, CountExact
  <2>9. n = published' + Cardinality(Held') + Cardinality(Unpublished')
    BY <1>1, <1>2, <2>2, <2>3, <2>4, <2>6, QueueCounts
  <2>10. PublishedExact'
    BY <2>9 DEF PublishedExact, n
  <2>11. AllUsed'
    BY <1>2, <2>2 DEF QueueInv, AllUsed
  <2> QED
    BY <2>8, <2>10, <2>11 DEF QueueInv
<1>9. CASE Settle(w)
  <2>1. wpc[w] = "settle" /\ got[w] = reserved[w] /\ got[w] \in Nat
    BY <1>2, <1>9 DEF Settle, QueueInv, AllUsed
  <2>2. /\ published' = published + (reserved[w] - got[w])
        /\ count' = IF count >= got[w] THEN count - got[w] ELSE 0
        /\ wpc' = [wpc EXCEPT ![w] = "idle"]
        /\ reserved' = [reserved EXCEPT ![w] = 0] /\ got' = [got EXCEPT ![w] = 0]
        /\ UNCHANGED queue
    BY <1>9 DEF Settle
  <2>3. /\ Held' = Held
        /\ Cardinality(Dequeued') = Cardinality(Dequeued) - got[w]
        /\ got[w] <= Cardinality(Dequeued)
    BY <2>1, <2>2, DequeuedSettled
  <2>4. published' = published
    BY <1>2, <2>1, <2>2
  <2>5. PublishedExact'
    BY <1>1, <2>2, <2>3, <2>4 DEF QueueInv, PublishedExact
  <2>6. AllUsed'
    BY <1>2, <2>2 DEF QueueInv, AllUsed
  <2>7. Counted' = Counted - got[w] /\ got[w] <= Counted
    BY <1>1, <1>2, <2>1, <2>2, <2>3, QueueCounts DEF Counted
  <2>8. CountExact'
    <3>1. ASSUME NEW e \in Entries, ipc'[e] \in Batching PROVE count' = Counted' + Len(batch'[e])
      <4> DEFINE n == Len(batch[e])
      <4>1. n \in Nat /\ count = Counted + n
        BY <1>0, <1>2, <3>1 DEF QueueInv, CountExact
      <4>2. Len(batch'[e]) = n
        BY <1>0
      <4> HIDE DEF n
      <4>3. count >= got[w]
        BY <1>3, <2>1, <2>7, <4>1
      <4>4. count' = count - got[w]
        BY <2>2, <4>3
      <4>5. count' = Counted' + n
        BY <1>3, <2>1, <2>7, <4>1, <4>4
      <4> QED
        BY <4>2, <4>5
    <3>2. ASSUME \A e \in Entries : ipc'[e] \notin Batching PROVE count' = Counted'
      <4>1. count = Counted
        BY <1>0, <3>2 DEF QueueInv, CountExact
      <4> QED
        BY <1>3, <2>1, <2>2, <2>7, <4>1
    <3> QED
      BY <3>1, <3>2 DEF CountExact
  <2> QED
    BY <2>5, <2>6, <2>8 DEF QueueInv
<1> QED
  BY <1>6, <1>7, <1>8, <1>9 DEF PopSteps

\* Every reachable state of the queue satisfies the accounts.
THEOREM QueueInvariance == Spec => []QueueInv
<1>1. Init => QueueInv
  <2> SUFFICES ASSUME Init PROVE QueueInv
    OBVIOUS
  <2>1. Enqueuing = {} /\ Unpublished = {}
    BY DEF Init, Enqueuing, Unpublished
  <2>2. Dequeued = {} /\ Held = {}
    <3>1. \A v \in Workers : got[v] = 0 /\ reserved[v] = 0
      BY DEF Init
    <3> QED
      BY <3>1 DEF Dequeued, Held
  <2>3. Len(queue) = 0 /\ count = 0 /\ published = 0
    BY DEF Init
  <2>4. Counted = 0
    BY <2>1, <2>2, <2>3, FS_EmptySet DEF Counted
  <2>5. CountExact
    BY <2>3, <2>4 DEF Init, CountExact, Batching
  <2>6. PublishedExact
    BY <2>1, <2>2, <2>3, FS_EmptySet DEF PublishedExact
  <2>7. AllUsed
    BY DEF Init, AllUsed
  <2> QED
    BY <2>5, <2>6, <2>7 DEF QueueInv
<1>2. QueueInv /\ UNCHANGED vars => QueueInv'
  BY DEF QueueInv, CountExact, PublishedExact, AllUsed, Counted, Enqueuing, Unpublished,
     Dequeued, Held, vars, counters, popVars
<1>3. IndInv /\ CountInv /\ QueueInv /\ [Next]_vars => QueueInv'
  BY <1>2, QueueInject, QueuePop DEF Next
<1> QED
  BY <1>1, <1>3, CombinerInvariance, CountInvariance, PTL DEF Spec

\* FaaFifoQueue::count never runs behind the queue: push counts before it
\* enqueues and pop reduces the count after it dequeued, for any number of
\* injections, combiners and poppers at once.
THEOREM CountLeads == Spec => []CountCovers
<1>1. CountInv /\ QueueInv => CountCovers
  <2> SUFFICES ASSUME CountInv, QueueInv PROVE count >= Len(queue)
    BY DEF CountCovers
  <2> DEFINE n == Len(queue)
  <2>1. n \in Nat /\ Counted = n + Cardinality(Enqueuing) + Cardinality(Dequeued)
    BY LenProperties DEF CountInv, TypeOK, Counted
  <2> HIDE DEF n
  <2>2. Counted >= n /\ Counted \in Nat
    BY <2>1, QueueCounts
  <2>3. CASE \E e \in Entries : ipc[e] \in Batching
    <3>1. PICK e \in Entries : ipc[e] \in Batching
      BY <2>3
    <3> DEFINE m == Len(batch[e])
    <3>2. m \in Nat /\ count = Counted + m
      BY <3>1, LenProperties DEF CountInv, TypeOK, QueueInv, CountExact
    <3> HIDE DEF m
    <3>3. count >= n
      BY <2>1, <2>2, <3>2
    <3> QED
      BY <3>3 DEF n
  <2>4. CASE \A e \in Entries : ipc[e] \notin Batching
    BY <2>2, <2>4 DEF QueueInv, CountExact, n
  <2> QED
    BY <2>3, <2>4
<1> QED
  BY <1>1, CountInvariance, QueueInvariance, PTL

\* A worker that took its reservations from `published' finds an entry for each:
\* the None branch of pop, for a reservation without an entry, is dead.
THEOREM ReservationsAreBacked == Spec => []ReservationBacked
<1>1. CountInv /\ QueueInv => ReservationBacked
  BY HeldBacked DEF ReservationBacked
<1> QED
  BY <1>1, CountInvariance, QueueInvariance, PTL

\* Once nobody is inside inject_ready or pop, count and published are the length
\* of the queue, nothing is pending and the combiner is off.
THEOREM CountersAreExactWhenQuiet == Spec => []CountersSettle
<1>1. IndInv /\ CountInv /\ QueueInv => CountersSettle
  <2> SUFFICES ASSUME IndInv, CountInv, QueueInv, Quiet
               PROVE  /\ count = Len(queue) /\ published = Len(queue)
                      /\ pending = <<>> /\ ~active /\ lock = {} /\ inFlight = 0
    BY DEF CountersSettle
  <2>1. \A e \in Entries : ipc[e] \in {"idle", "done"}
    BY DEF Quiet
  <2>2. \A w \in Workers : reserved[w] = 0 /\ got[w] = 0
    <3>1. \A w \in Workers : reserved[w] = 0 /\ got[w] <= reserved[w] /\ got[w] \in 0..MaxPop
      BY DEF Quiet, CountInv, PopBounded, TypeOK
    <3> QED
      BY <3>1
  <2>3. Dequeued = {} /\ Held = {}
    BY <2>2 DEF Dequeued, Held
  <2>4. Enqueuing = {} /\ Unpublished = {} /\ Inside = {}
    BY <2>1 DEF Enqueuing, Unpublished, Inside
  <2>5. Len(queue) \in Nat /\ published \in Nat
    BY LenProperties DEF CountInv, TypeOK
  <2>6. Counted = Len(queue)
    BY <2>3, <2>4, <2>5, FS_EmptySet DEF Counted
  <2>7. \A e \in Entries : ipc[e] \notin Batching
    BY <2>1 DEF Batching
  <2>8. count = Len(queue)
    BY <2>6, <2>7 DEF QueueInv, CountExact
  <2>9. published = Len(queue)
    BY <2>3, <2>4, <2>5, FS_EmptySet DEF QueueInv, PublishedExact
  <2>10. pending = <<>> /\ ~active /\ lock = {}
    BY <2>1 DEF IndInv, CombinerTypes, DeferralSafe, LockExact, Combining, Locking
  <2>11. inFlight = 0
    BY <2>4, FS_EmptySet DEF CountInv, InFlightExact
  <2> QED
    BY <2>8, <2>9, <2>10, <2>11
<1> QED
  BY <1>1, CombinerInvariance, CountInvariance, QueueInvariance, PTL

-----------------------------------------------------------------------------
(* Where an entry is.                                                      *)

\* The entries of a sequence, and a sequence that holds each only once.
Members(s) == {s[i] : i \in 1..Len(s)}
NoDup(s) == \A i, j \in 1..Len(s) : s[i] = s[j] => i = j

\* What joins the end of a sequence joins its members.
LEMMA AppendMembers ==
    ASSUME NEW s \in Seq(Entries), NEW e \in Entries
    PROVE  /\ Members(Append(s, e)) = Members(s) \cup {e}
           /\ NoDup(s) /\ e \notin Members(s) => NoDup(Append(s, e))
<1> DEFINE t == Append(s, e)
           n == Len(s)
<1>1. /\ n \in Nat /\ Len(t) = n + 1 /\ t[n + 1] = e
      /\ \A i \in 1..n : t[i] = s[i]
  BY AppendProperties, LenProperties
<1>2. Members(s) = {s[i] : i \in 1..n} /\ Members(t) = {t[i] : i \in 1..Len(t)}
  BY DEF Members
<1>3. NoDup(s) <=> \A i, j \in 1..n : s[i] = s[j] => i = j
  BY DEF NoDup
<1>4. NoDup(t) <=> \A i, j \in 1..Len(t) : t[i] = t[j] => i = j
  BY DEF NoDup
<1> HIDE DEF t, n
<1>5. \A i \in 1..Len(t) : i \in 1..n \/ i = n + 1
  BY <1>1
<1>6. \A i \in 1..n : i \in 1..Len(t)
  BY <1>1
<1>7. n + 1 \in 1..Len(t)
  BY <1>1
<1>8. Members(t) = Members(s) \cup {e}
  BY <1>1, <1>2, <1>5, <1>6, <1>7
<1>9. NoDup(s) /\ e \notin Members(s) => NoDup(t)
  BY <1>1, <1>2, <1>3, <1>4, <1>5
<1> QED
  BY <1>8, <1>9 DEF t

\* What leaves the head of a sequence leaves its members.
LEMMA TailMembers ==
    ASSUME NEW s \in Seq(Entries), s # <<>>, NoDup(s)
    PROVE  /\ Head(s) \in Members(s) /\ Members(Tail(s)) = Members(s) \ {Head(s)}
           /\ NoDup(Tail(s))
<1> DEFINE t == Tail(s)
           n == Len(s)
<1>1. /\ n \in Nat \ {0} /\ Len(t) = n - 1 /\ Head(s) = s[1]
      /\ \A i \in 1..Len(t) : t[i] = s[i + 1]
  BY HeadTailProperties, LenProperties
<1>2. Members(s) = {s[i] : i \in 1..n} /\ Members(t) = {t[i] : i \in 1..Len(t)}
  BY DEF Members
<1>3. \A i, j \in 1..n : s[i] = s[j] => i = j
  BY DEF NoDup
<1>4. NoDup(t) <=> \A i, j \in 1..Len(t) : t[i] = t[j] => i = j
  BY DEF NoDup
<1> HIDE DEF t, n
<1>5. \A i \in 1..Len(t) : i + 1 \in 1..n /\ i + 1 # 1 /\ t[i] = s[i + 1]
  BY <1>1
<1>6. 1 \in 1..n
  BY <1>1
<1>7. \A i \in 1..n : i # 1 => i - 1 \in 1..Len(t) /\ t[i - 1] = s[i]
  BY <1>1
<1>8. Members(t) \subseteq Members(s) \ {s[1]}
  BY <1>2, <1>3, <1>5, <1>6
<1>9. Members(s) \ {s[1]} \subseteq Members(t)
  BY <1>2, <1>7
<1>10. NoDup(t)
  <2> SUFFICES ASSUME NEW i \in 1..Len(t), NEW j \in 1..Len(t), t[i] = t[j] PROVE i = j
    BY <1>4
  <2>1. i + 1 = j + 1
    BY <1>3, <1>5
  <2> QED
    BY <1>1, <2>1
<1> QED
  BY <1>1, <1>2, <1>6, <1>8, <1>9, <1>10 DEF t

\* Joining two sequences joins their members.
LEMMA ConcatMembers ==
    ASSUME NEW s \in Seq(Entries), NEW t \in Seq(Entries), NoDup(s), NoDup(t),
           Members(s) \cap Members(t) = {}
    PROVE  Members(s \o t) = Members(s) \cup Members(t) /\ NoDup(s \o t)
<1> DEFINE u == s \o t
           m == Len(s)
           n == Len(t)
<1>1. /\ m \in Nat /\ n \in Nat /\ Len(u) = m + n
      /\ \A i \in 1..(m + n) : u[i] = IF i <= m THEN s[i] ELSE t[i - m]
  BY ConcatProperties, LenProperties
<1>2. /\ Members(s) = {s[i] : i \in 1..m} /\ Members(t) = {t[i] : i \in 1..n}
      /\ Members(u) = {u[i] : i \in 1..Len(u)}
  BY DEF Members
<1>3. /\ \A i, j \in 1..m : s[i] = s[j] => i = j
      /\ \A i, j \in 1..n : t[i] = t[j] => i = j
  BY DEF NoDup
<1>4. NoDup(u) <=> \A i, j \in 1..Len(u) : u[i] = u[j] => i = j
  BY DEF NoDup
<1> HIDE DEF u, m, n
<1>5. \A i \in 1..m : i \in 1..Len(u) /\ u[i] = s[i]
  BY <1>1
<1>6. \A i \in 1..n : i + m \in 1..Len(u) /\ u[i + m] = t[i]
  BY <1>1
<1>7. \A i \in 1..Len(u) : i \in 1..m \/ (i - m \in 1..n /\ u[i] = t[i - m])
  BY <1>1
<1>8. Members(u) \subseteq Members(s) \cup Members(t)
  BY <1>2, <1>5, <1>7
<1>9. Members(s) \subseteq Members(u)
  BY <1>2, <1>5
<1>10. Members(t) \subseteq Members(u)
  BY <1>2, <1>6
<1>11. NoDup(u)
  <2> SUFFICES ASSUME NEW i \in 1..Len(u), NEW j \in 1..Len(u), u[i] = u[j] PROVE i = j
    BY <1>4
  <2>1. CASE i \in 1..m /\ j \in 1..m
    BY <1>3, <1>5, <2>1
  <2>2. CASE i \in 1..m /\ j \notin 1..m
    <3>1. u[i] \in Members(s) /\ u[j] \in Members(t)
      BY <1>2, <1>5, <1>7, <2>2
    <3> QED
      BY <3>1
  <2>3. CASE i \notin 1..m /\ j \in 1..m
    <3>1. u[j] \in Members(s) /\ u[i] \in Members(t)
      BY <1>2, <1>5, <1>7, <2>3
    <3> QED
      BY <3>1
  <2>4. CASE i \notin 1..m /\ j \notin 1..m
    <3>1. i - m = j - m
      BY <1>3, <1>7, <2>4
    <3> QED
      BY <1>1, <3>1
  <2> QED
    BY <2>1, <2>2, <2>3, <2>4
<1> QED
  BY <1>8, <1>9, <1>10, <1>11 DEF u

\* A prefix and the rest share no member, and have all of them.
LEMMA SplitMembers ==
    ASSUME NEW s \in Seq(Entries), NEW n \in 0..Len(s), NoDup(s)
    PROVE  /\ Members(s) = Members(Front(s, n)) \cup Members(Rest(s, n))
           /\ Members(Front(s, n)) \cap Members(Rest(s, n)) = {}
           /\ NoDup(Front(s, n)) /\ NoDup(Rest(s, n))
<1> DEFINE t == Front(s, n)
           u == Rest(s, n)
           m == Len(s)
<1>1. m \in Nat /\ n \in Nat /\ n <= m
  BY LenProperties
<1>2. /\ \A i \in 1..n : s[i] \in Entries
      /\ \A i \in (n + 1)..m : s[i] \in Entries
  BY <1>1, LenProperties
<1>3. Len(t) = n /\ \A i \in 1..n : t[i] = s[i]
  <2>1. /\ Len(SubSeq(s, 1, n)) = IF 1 <= n THEN n - 1 + 1 ELSE 0
        /\ \A i \in 1..(n - 1 + 1) : SubSeq(s, 1, n)[i] = s[1 + i - 1]
    BY <1>1, <1>2, SubSeqProperties
  <2> QED
    BY <1>1, <2>1 DEF Front
<1>4. Len(u) = m - n /\ \A i \in 1..(m - n) : u[i] = s[i + n]
  <2> DEFINE k == n + 1
             rest == SubSeq(s, k, m)
  <2>1. u = rest
    BY DEF Rest
  <2>2. k \in Int /\ m \in Int /\ \A i \in k..m : s[i] \in Entries
    BY <1>1, <1>2
  <2> HIDE DEF u, m, k
  <2>3. /\ Len(rest) = IF k <= m THEN m - k + 1 ELSE 0
        /\ \A i \in 1..(m - k + 1) : rest[i] = s[k + i - 1]
    BY <2>2, SubSeqProperties
  <2> HIDE DEF rest
  <2>4. k = n + 1
    BY DEF k
  <2> QED
    BY <1>1, <2>1, <2>3, <2>4
<1>5. /\ Members(s) = {s[i] : i \in 1..m} /\ Members(t) = {t[i] : i \in 1..Len(t)}
      /\ Members(u) = {u[i] : i \in 1..Len(u)}
  BY DEF Members
<1>6. \A i, j \in 1..m : s[i] = s[j] => i = j
  BY DEF NoDup
<1>7. /\ NoDup(t) <=> \A i, j \in 1..Len(t) : t[i] = t[j] => i = j
      /\ NoDup(u) <=> \A i, j \in 1..Len(u) : u[i] = u[j] => i = j
  BY DEF NoDup
<1> HIDE DEF t, u, m
<1>8. \A i \in 1..Len(t) : i \in 1..m /\ t[i] = s[i] /\ i <= n
  BY <1>1, <1>3
<1>9. \A i \in 1..Len(u) : i + n \in 1..m /\ u[i] = s[i + n] /\ ~(i + n <= n)
  BY <1>1, <1>4
<1>10. \A i \in 1..m : (i \in 1..Len(t) /\ s[i] = t[i]) \/ (i - n \in 1..Len(u) /\ s[i] = u[i - n])
  BY <1>1, <1>3, <1>4
<1>11. Members(t) \subseteq Members(s) /\ Members(u) \subseteq Members(s)
  BY <1>5, <1>8, <1>9
<1>12. Members(s) \subseteq Members(t) \cup Members(u)
  BY <1>5, <1>10
<1>13. Members(t) \cap Members(u) = {}
  BY <1>5, <1>6, <1>8, <1>9
<1>14. NoDup(t)
  BY <1>6, <1>7, <1>8
<1>15. NoDup(u)
  <2> SUFFICES ASSUME NEW i \in 1..Len(u), NEW j \in 1..Len(u), u[i] = u[j] PROVE i = j
    BY <1>7
  <2>1. i + n = j + n
    BY <1>6, <1>9
  <2> QED
    BY <1>1, <1>4, <2>1
<1> QED
  BY <1>11, <1>12, <1>13, <1>14, <1>15 DEF t, u

\* In a sequence without duplicates an entry occurs once or not at all.
LEMMA OccursOnce ==
    ASSUME NEW s \in Seq(Entries), NEW e \in Entries
    PROVE  /\ NoDup(s) /\ e \in Members(s) => Occurrences(e, s) = 1
           /\ e \notin Members(s) => Occurrences(e, s) = 0
<1> DEFINE at == {i \in DOMAIN s : s[i] = e}
<1>1. DOMAIN s = 1..Len(s)
  BY LenProperties
<1>2. ASSUME NoDup(s), e \in Members(s) PROVE Occurrences(e, s) = 1
  <2>1. PICK i \in 1..Len(s) : s[i] = e
    BY <1>2 DEF Members
  <2>2. at = {i}
    BY <1>1, <1>2, <2>1 DEF NoDup
  <2> QED
    BY <2>2, FS_Singleton DEF Occurrences
<1>3. ASSUME e \notin Members(s) PROVE Occurrences(e, s) = 0
  <2>1. at = {}
    BY <1>1, <1>3 DEF Members
  <2> QED
    BY <2>1, FS_EmptySet DEF Occurrences
<1> QED
  BY <1>2, <1>3

\* The entries that are in a combiner's batch, and the ones still in the hands
\* of their injector.
Batched == UNION {Members(batch[f]) : f \in Entries}
Hands == {e \in Entries : ipc[e] \in InHand}

\* OnePlace without the counting: no sequence holds an entry twice, only the
\* combiner has a batch, and the five places are disjoint and have everything.
Distinct == NoDup(pending) /\ NoDup(queue) /\ \A f \in Entries : NoDup(batch[f])
BatchOfCombiner ==
    \A f \in Entries :
        batch[f] # <<>> => ipc[f] \in {"fill", "reserve", "batchEnqueue", "batchPublish"}
Disjoint ==
    /\ Members(pending) \cap (Members(queue) \cup Batched \cup Hands \cup popped) = {}
    /\ Members(queue) \cap (Batched \cup Hands \cup popped) = {}
    /\ Batched \cap (Hands \cup popped) = {}
    /\ Hands \cap popped = {}
Complete == Members(pending) \cup Members(queue) \cup Batched \cup Hands \cup popped = Entries
PlaceInv == Distinct /\ BatchOfCombiner /\ Disjoint /\ Complete

\* A step that moves entries from one place to another keeps the places
\* disjoint and complete.
LEMMA MoveKeeps ==
    ASSUME Disjoint, Complete, NEW A, NEW B,
           \/ /\ A \subseteq Hands /\ Hands' = Hands \ A /\ Members(queue)' = Members(queue) \cup A
              /\ UNCHANGED <<Members(pending), Batched, popped>>
           \/ /\ A \subseteq Hands /\ Hands' = Hands \ A /\ Members(pending)' = Members(pending) \cup A
              /\ UNCHANGED <<Members(queue), Batched, popped>>
           \/ /\ A \subseteq Hands /\ Hands' = Hands \ A /\ Batched' = Batched \cup A
              /\ UNCHANGED <<Members(queue), Members(pending), popped>>
           \/ /\ Members(pending) = A \cup B /\ A \cap B = {}
              /\ Members(pending)' = B /\ Batched' = Batched \cup A
              /\ UNCHANGED <<Members(queue), Hands, popped>>
           \/ /\ A \subseteq Batched /\ Batched' = Batched \ A /\ Members(queue)' = Members(queue) \cup A
              /\ UNCHANGED <<Members(pending), Hands, popped>>
           \/ /\ A \subseteq Members(queue) /\ Members(queue)' = Members(queue) \ A
              /\ popped' = popped \cup A
              /\ UNCHANGED <<Members(pending), Batched, Hands>>
           \/ UNCHANGED <<Members(pending), Members(queue), Batched, Hands, popped>>
    PROVE  Disjoint' /\ Complete'
<1> DEFINE P == Members(pending)
           Q == Members(queue)
<1>1. /\ P \cap (Q \cup Batched \cup Hands \cup popped) = {}
      /\ Q \cap (Batched \cup Hands \cup popped) = {}
      /\ Batched \cap (Hands \cup popped) = {}
      /\ Hands \cap popped = {}
      /\ P \cup Q \cup Batched \cup Hands \cup popped = Entries
  BY DEF Disjoint, Complete
<1>2. Complete' <=> P' \cup Q' \cup Batched' \cup Hands' \cup popped' = Entries
  BY DEF Complete
<1>3. Disjoint' <=> /\ P' \cap (Q' \cup Batched' \cup Hands' \cup popped') = {}
                    /\ Q' \cap (Batched' \cup Hands' \cup popped') = {}
                    /\ Batched' \cap (Hands' \cup popped') = {}
                    /\ Hands' \cap popped' = {}
  BY DEF Disjoint
<1> HIDE DEF P, Q
<1>4. Complete'
  BY <1>1, <1>2 DEF P, Q
<1>5. Disjoint'
  BY <1>1, <1>3 DEF P, Q
<1> QED
  BY <1>4, <1>5

\* A batch of the combiner is changed, and no other injection has one.
LEMMA BatchMembers ==
    ASSUME CountInv, NEW e \in Entries, NEW s \in Seq(Entries),
           batch' = [batch EXCEPT ![e] = s], \A f \in Entries : f # e => batch[f] = <<>>
    PROVE  Batched = Members(batch[e]) /\ Batched' = Members(s)
<1>1. batch \in [Entries -> Seq(Entries)]
  BY DEF CountInv, TypeOK
<1>2. Members(<<>>) = {}
  BY DEF Members
<1>3. Batched = Members(batch[e])
  BY <1>1, <1>2 DEF Batched
<1>4. batch'[e] = s /\ \A f \in Entries : f # e => batch'[f] = <<>>
  BY <1>1
<1>5. Batched' = UNION {Members(batch'[f]) : f \in Entries}
  BY DEF Batched, Members
<1>6. Batched' = Members(s)
  BY <1>2, <1>4, <1>5
<1> QED
  BY <1>3, <1>6

\* While an injection has no batch of its own, it is not the combiner at work;
\* while it is the combiner, nobody else has a batch.
LEMMA OneBatch ==
    ASSUME IndInv, PlaceInv, NEW e \in Entries, ipc[e] \in Combining
    PROVE  \A f \in Entries : f # e => batch[f] = <<>>
  BY DEF IndInv, DeferralSafe, PlaceInv, BatchOfCombiner, Combining

\* The steps of inject_ready move an entry from one place to the next.
LEMMA PlaceInject ==
    ASSUME IndInv, CountInv, PlaceInv, NEW e \in Entries, BeginInjection(e) \/ InjectSteps(e)
    PROVE  PlaceInv'
<1>1. /\ ipc \in [Entries -> InjectStates] /\ batch \in [Entries -> Seq(Entries)]
      /\ pending \in Seq(Entries) /\ queue \in Seq(Entries)
  BY DEF CountInv, TypeOK
<1>2. /\ NoDup(pending) /\ NoDup(queue) /\ \A f \in Entries : NoDup(batch[f])
      /\ Disjoint /\ Complete
  BY DEF PlaceInv, Distinct
\* Steps that move nothing.
<1>3. ASSUME UNCHANGED <<batch, pending, queue, popped>>, NEW p,
             ipc' = [ipc EXCEPT ![e] = p], ipc[e] \in InHand <=> p \in InHand,
             ipc[e] \in {"fill", "reserve", "batchEnqueue", "batchPublish"} /\ batch[e] # <<>>
               => p \in {"fill", "reserve", "batchEnqueue", "batchPublish"}
      PROVE  PlaceInv'
  <2>1. Hands' = Hands
    BY <1>1, <1>3 DEF Hands
  <2>2. Batched' = Batched /\ Members(pending)' = Members(pending) /\ Members(queue)' = Members(queue)
    BY <1>3 DEF Batched, Members
  <2>3. Disjoint' /\ Complete'
    BY <1>2, <1>3, <2>1, <2>2, MoveKeeps
  <2>4. BatchOfCombiner'
    BY <1>1, <1>3 DEF PlaceInv, BatchOfCombiner
  <2>5. Distinct'
    BY <1>2, <1>3 DEF Distinct
  <2> QED
    BY <2>3, <2>4, <2>5 DEF PlaceInv
<1>4. CASE BeginInjection(e)
  BY <1>3, <1>4 DEF BeginInjection, Goto, popVars, InHand
<1>5. CASE ChoosePath(e)
  BY <1>3, <1>5 DEF ChoosePath, Goto, popVars, combiner, InHand
<1>6. CASE FinishInjection(e)
  BY <1>3, <1>6 DEF FinishInjection, Goto, popVars, InHand
<1>7. CASE Count(e)
  BY <1>3, <1>7 DEF Count, Goto, popVars, combiner, InHand
<1>8. CASE Publish(e)
  BY <1>3, <1>8 DEF Publish, Goto, popVars, combiner, InHand
<1>9. CASE TryLock(e)
  BY <1>3, <1>9 DEF TryLock, Goto, popVars, InHand
<1>10. CASE Check(e)
  BY <1>3, <1>10 DEF Check, Goto, popVars, InHand
<1>11. CASE Recheck(e)
  \* `active' is set, so the entry stays with the combiner.
  <2>1. active /\ ipc[e] = "recheck"
    BY <1>11 DEF Recheck, IndInv, NoRaceDetected
  <2> QED
    BY <1>3, <1>11, <2>1 DEF Recheck, Goto, popVars, InHand
<1>12. CASE Reserve(e)
  BY <1>3, <1>12 DEF Reserve, Goto, popVars, combiner, InHand
<1>13. CASE BatchPublish(e)
  BY <1>3, <1>13 DEF BatchPublish, Goto, popVars, combiner, InHand
\* The entry leaves the hands of its injector.
<1>14. ASSUME ipc[e] \in InHand, NEW p, p \notin InHand, ipc' = [ipc EXCEPT ![e] = p]
       PROVE  {e} \subseteq Hands /\ Hands' = Hands \ {e}
  BY <1>1, <1>14 DEF Hands
<1>15. ASSUME ipc[e] \in InHand
       PROVE  /\ batch[e] = <<>> /\ e \notin Members(pending) /\ e \notin Members(queue)
              /\ e \notin Batched
  <2>1. e \in Hands
    BY <1>15 DEF Hands
  <2>2. batch[e] = <<>>
    BY <1>15 DEF PlaceInv, BatchOfCombiner, InHand
  <2> QED
    BY <1>2, <2>1, <2>2 DEF Disjoint
<1>16. CASE Enqueue(e)
  <2>1. /\ ipc[e] \in InHand /\ queue' = Append(queue, e)
        /\ ipc' = [ipc EXCEPT ![e] = "publish"] /\ UNCHANGED <<batch, pending, popped>>
    BY <1>16 DEF Enqueue, Goto, InHand, combiner, popVars
  <2>2. {e} \subseteq Hands /\ Hands' = Hands \ {e}
    BY <1>14, <2>1 DEF InHand
  <2>3. Members(queue)' = Members(queue) \cup {e} /\ NoDup(queue)'
    BY <1>1, <1>2, <1>15, <2>1, AppendMembers
  <2>4. UNCHANGED <<Members(pending), Batched, popped>>
    BY <2>1 DEF Batched
  <2>5. Disjoint' /\ Complete'
    BY <1>2, <2>2, <2>3, <2>4, MoveKeeps
  <2>6. BatchOfCombiner'
    BY <1>1, <1>15, <2>1 DEF PlaceInv, BatchOfCombiner
  <2>7. Distinct'
    BY <1>2, <2>1, <2>3 DEF Distinct
  <2> QED
    BY <2>5, <2>6, <2>7 DEF PlaceInv
<1>17. CASE AppendPending(e)
  <2>1. /\ ipc[e] \in InHand /\ pending' = Append(pending, e)
        /\ ipc' = [ipc EXCEPT ![e] = "recheck"] /\ UNCHANGED <<batch, queue, popped>>
    BY <1>17 DEF AppendPending, Goto, InHand, popVars
  <2>2. {e} \subseteq Hands /\ Hands' = Hands \ {e}
    BY <1>14, <2>1 DEF InHand
  <2>3. Members(pending)' = Members(pending) \cup {e} /\ NoDup(pending)'
    BY <1>1, <1>2, <1>15, <2>1, AppendMembers
  <2>4. UNCHANGED <<Members(queue), Batched, popped>>
    BY <2>1 DEF Batched
  <2>5. Disjoint' /\ Complete'
    BY <1>2, <2>2, <2>3, <2>4, MoveKeeps
  <2>6. BatchOfCombiner'
    BY <1>1, <1>15, <2>1 DEF PlaceInv, BatchOfCombiner
  <2>7. Distinct'
    BY <1>2, <2>1, <2>3 DEF Distinct
  <2> QED
    BY <2>5, <2>6, <2>7 DEF PlaceInv
<1>18. CASE Claim(e)
  <2>1. CASE active
    BY <1>3, <1>18, <2>1 DEF Claim, Goto, popVars, InHand
  <2>2. CASE ~active
    <3>1. /\ ipc[e] \in InHand /\ batch' = [batch EXCEPT ![e] = <<e>>]
          /\ ipc' = [ipc EXCEPT ![e] = "fill"] /\ UNCHANGED <<pending, queue, popped>>
      BY <1>18, <2>2 DEF Claim, Goto, InHand, popVars
    <3>2. {e} \subseteq Hands /\ Hands' = Hands \ {e}
      BY <1>14, <3>1 DEF InHand
    <3>3. \A f \in Entries : batch[f] = <<>>
      BY <2>2 DEF IndInv, DeferralSafe, PlaceInv, BatchOfCombiner, Combining
    <3>4. Members(<<e>>) = {e} /\ Members(<<>>) = {} /\ NoDup(<<e>>) /\ <<e>> \in Seq(Entries)
      BY DEF Members, NoDup
    <3>5. Batched = {} /\ Batched' = {e}
      BY <3>1, <3>3, <3>4, BatchMembers
    <3>6. UNCHANGED <<Members(pending), Members(queue)>>
      BY <3>1
    <3>7. Disjoint' /\ Complete'
      <4>1. Batched' = Batched \cup {e}
        BY <3>5
      <4> QED
        BY <1>2, <3>1, <3>2, <3>6, <4>1, MoveKeeps
    <3>8. BatchOfCombiner'
      BY <1>1, <3>1, <3>3 DEF BatchOfCombiner
    <3>9. Distinct'
      BY <1>1, <1>2, <3>1, <3>4 DEF Distinct
    <3> QED
      BY <3>7, <3>8, <3>9 DEF PlaceInv
  <2> QED
    BY <2>1, <2>2
\* The combiner takes the front of the pending buffer.
<1>19. ASSUME NEW n \in 0..Len(pending), ipc[e] \in Combining, NEW p \in {"fill", "reserve"},
              ipc' = [ipc EXCEPT ![e] = p],
              batch' = [batch EXCEPT ![e] = batch[e] \o Front(pending, n)],
              pending' = Rest(pending, n), UNCHANGED <<queue, popped>>
       PROVE  PlaceInv'
  <2> DEFINE front == Front(pending, n)
             joined == batch[e] \o front
  <2>1. /\ Members(pending) = Members(front) \cup Members(pending')
        /\ Members(front) \cap Members(pending') = {}
        /\ NoDup(front) /\ NoDup(pending')
    BY <1>1, <1>2, <1>19, SplitMembers
  <2>2. \A f \in Entries : f # e => batch[f] = <<>>
    BY <1>19, OneBatch
  <2>3. front \in Seq(Entries) /\ batch[e] \in Seq(Entries)
    BY <1>1, SplitTypes
  <2>4. joined \in Seq(Entries)
    BY <2>3, ConcatProperties
  <2>5. Batched = Members(batch[e]) /\ Batched' = Members(joined)
    BY <1>19, <2>2, <2>4, BatchMembers
  <2>6. Members(batch[e]) \cap Members(front) = {}
    BY <1>2, <2>1, <2>5 DEF Disjoint
  <2>7. Members(joined) = Members(batch[e]) \cup Members(front) /\ NoDup(joined)
    BY <1>2, <2>1, <2>3, <2>6, ConcatMembers
  <2> HIDE DEF front, joined
  <2>8. Hands' = Hands
    BY <1>1, <1>19 DEF Hands, InHand, Combining
  <2>9. Batched' = Batched \cup Members(front)
    BY <2>5, <2>7
  <2>10. Disjoint' /\ Complete'
    <3>1. Members(pending)' = Members(pending') /\ Members(queue)' = Members(queue)
      BY <1>19 DEF Members
    <3> QED
      BY <1>2, <1>19, <2>1, <2>8, <2>9, <3>1, MoveKeeps
  <2>11. batch' = [batch EXCEPT ![e] = joined]
    BY <1>19 DEF joined, front
  <2>12. Distinct'
    BY <1>1, <1>2, <1>19, <2>1, <2>7, <2>11 DEF Distinct
  <2>13. BatchOfCombiner'
    BY <1>1, <1>19, <2>2, <2>11 DEF BatchOfCombiner
  <2> QED
    BY <2>10, <2>12, <2>13 DEF PlaceInv
<1>20. CASE Fill(e)
  <2> DEFINE n == Least(MaxBatch - Len(batch[e]), Len(pending))
  <2>1. n \in 0..Len(pending)
    <3> DEFINE k == Len(batch[e])
               m == Len(pending)
    <3>1. k \in Nat /\ m \in Nat /\ k <= MaxBatch
      BY <1>1, <1>20, LenProperties DEF CountInv, BatchHeld, Fill
    <3> HIDE DEF k, m
    <3>2. Least(MaxBatch - k, m) \in 0..m
      BY <3>1, ReadyInjectorAssumption DEF Least
    <3> QED
      BY <3>2 DEF k, m
  <2>2. /\ ipc[e] \in Combining /\ ipc' = [ipc EXCEPT ![e] = "reserve"]
        /\ batch' = [batch EXCEPT ![e] = batch[e] \o Front(pending, n)]
        /\ pending' = Rest(pending, n) /\ UNCHANGED <<queue, popped>>
    BY <1>20 DEF Fill, Goto, Combining, popVars
  <2> HIDE DEF n
  <2> QED
    BY <1>19, <2>1, <2>2
<1>21. CASE Drain(e)
  <2>1. CASE pending = <<>>
    BY <1>3, <1>21, <2>1 DEF Drain, Goto, popVars, InHand
  <2>2. CASE pending # <<>>
    <3> DEFINE n == Least(MaxBatch, Len(pending))
    <3>1. n \in 0..Len(pending)
      <4> DEFINE m == Len(pending)
      <4>1. m \in Nat
        BY <1>1, LenProperties
      <4> HIDE DEF m
      <4>2. Least(MaxBatch, m) \in 0..m
        BY <4>1, ReadyInjectorAssumption DEF Least
      <4> QED
        BY <4>2 DEF m
    <3>2. /\ ipc[e] \in Combining /\ ipc[e] = "drain" /\ ipc' = [ipc EXCEPT ![e] = "fill"]
          /\ batch' = [batch EXCEPT ![e] = Front(pending, n)]
          /\ pending' = Rest(pending, n) /\ UNCHANGED <<queue, popped>>
      BY <1>21, <2>2 DEF Drain, Goto, Combining, popVars
    <3>3. batch[e] = <<>> /\ Front(pending, n) \in Seq(Entries)
      BY <1>1, <3>1, <3>2, SplitTypes DEF PlaceInv, BatchOfCombiner
    <3>4. Front(pending, n) = batch[e] \o Front(pending, n)
      BY <3>3, ConcatEmptySeq
    <3> HIDE DEF n
    <3>5. batch' = [batch EXCEPT ![e] = batch[e] \o Front(pending, n)]
      BY <3>2, <3>4
    <3> QED
      BY <1>19, <3>1, <3>2, <3>5
  <2> QED
    BY <2>1, <2>2
\* push_uncounted moves the head of the batch.
<1>22. CASE BatchEnqueue(e)
  <2> DEFINE h == Head(batch[e])
  <2>1. /\ ipc[e] = "batchEnqueue" /\ ipc' = [ipc EXCEPT ![e] = "batchPublish"]
        /\ queue' = Append(queue, h) /\ batch' = [batch EXCEPT ![e] = Tail(batch[e])]
        /\ UNCHANGED <<pending, popped>>
    BY <1>22 DEF BatchEnqueue, Goto, combiner, popVars
  <2>2. batch[e] # <<>> /\ batch[e] \in Seq(Entries)
    BY <1>1, <2>1 DEF CountInv, BatchHeld
  <2>3. h \in Entries /\ Tail(batch[e]) \in Seq(Entries)
    BY <2>2, HeadTailProperties
  <2>4. /\ h \in Members(batch[e]) /\ Members(Tail(batch[e])) = Members(batch[e]) \ {h}
        /\ NoDup(Tail(batch[e]))
    BY <1>2, <2>2, TailMembers
  <2>5. \A f \in Entries : f # e => batch[f] = <<>>
    BY <2>1, OneBatch DEF Combining
  <2>6. Batched = Members(batch[e]) /\ Batched' = Members(Tail(batch[e]))
    BY <2>1, <2>3, <2>5, BatchMembers
  <2>7. h \notin Members(queue)
    BY <1>2, <2>4, <2>6 DEF Disjoint
  <2>8. Members(queue)' = Members(queue) \cup {h} /\ NoDup(queue)'
    BY <1>1, <1>2, <2>1, <2>3, <2>7, AppendMembers
  <2> HIDE DEF h
  <2>9. Hands' = Hands
    BY <1>1, <2>1 DEF Hands, InHand
  <2>10. Disjoint' /\ Complete'
    <3>1. Members(pending)' = Members(pending)
      BY <2>1 DEF Members
    <3>2. {h} \subseteq Batched /\ Batched' = Batched \ {h}
      BY <2>4, <2>6
    <3> QED
      BY <1>2, <2>1, <2>8, <2>9, <3>1, <3>2, MoveKeeps
  <2>11. Distinct'
    BY <1>1, <1>2, <2>1, <2>4, <2>8 DEF Distinct
  <2>12. BatchOfCombiner'
    BY <1>1, <2>1, <2>5 DEF BatchOfCombiner
  <2> QED
    BY <2>10, <2>11, <2>12 DEF PlaceInv
<1> QED
  BY <1>4, <1>5, <1>6, <1>7, <1>8, <1>9, <1>10, <1>11, <1>12, <1>13, <1>16, <1>17, <1>18,
     <1>20, <1>21, <1>22
  DEF InjectSteps

\* pop moves the head of the queue to the worker, and nothing else.
LEMMA PlacePop ==
    ASSUME CountInv, QueueInv, PlaceInv, NEW w \in Workers, PopSteps(w)
    PROVE  PlaceInv'
<1>1. UNCHANGED <<ipc, batch, pending>>
  BY DEF PopSteps, ReservePublished, ReserveMore, Dequeue, Settle, combiner
<1>2. UNCHANGED <<Hands, Batched, Members(pending)>> /\ BatchOfCombiner'
  BY <1>1 DEF Hands, Batched, PlaceInv, BatchOfCombiner
<1>3. CASE UNCHANGED <<queue, popped>>
  <2>1. Members(queue)' = Members(queue)
    BY <1>3 DEF Members
  <2>2. Disjoint' /\ Complete'
    BY <1>2, <1>3, <2>1, MoveKeeps DEF PlaceInv
  <2> QED
    BY <1>1, <1>2, <1>3, <2>2 DEF PlaceInv, Distinct
<1>4. CASE Dequeue(w)
  <2>1. queue # <<>> /\ queue \in Seq(Entries) /\ NoDup(queue)
    BY <1>4, HeldBacked DEF Dequeue, CountInv, TypeOK, PlaceInv, Distinct
  <2>2. queue' = Tail(queue) /\ popped' = popped \cup {Head(queue)}
    BY <1>4, <2>1 DEF Dequeue
  <2>3. /\ {Head(queue)} \subseteq Members(queue)
        /\ Members(queue)' = Members(queue) \ {Head(queue)} /\ NoDup(queue)'
    BY <2>1, <2>2, TailMembers
  <2>4. Disjoint' /\ Complete'
    BY <1>2, <2>2, <2>3, MoveKeeps DEF PlaceInv
  <2> QED
    BY <1>1, <1>2, <2>3, <2>4 DEF PlaceInv, Distinct
<1> QED
  BY <1>3, <1>4 DEF PopSteps, ReservePublished, ReserveMore, Settle

\* Every reachable state of the injector has each entry in one place.
THEOREM PlaceInvariance == Spec => []PlaceInv
<1>1. Init => PlaceInv
  <2> SUFFICES ASSUME Init PROVE PlaceInv
    OBVIOUS
  <2>1. pending = <<>> /\ queue = <<>> /\ popped = {} /\ \A f \in Entries : batch[f] = <<>>
    BY DEF Init
  <2>2. Members(<<>>) = {} /\ NoDup(<<>>)
    BY DEF Members, NoDup
  <2>3. Batched = {}
    BY <2>1, <2>2 DEF Batched
  <2>4. Hands = Entries
    BY DEF Init, Hands, InHand
  <2> QED
    BY <2>1, <2>2, <2>3, <2>4
    DEF PlaceInv, Distinct, BatchOfCombiner, Disjoint, Complete
<1>2. PlaceInv /\ UNCHANGED vars => PlaceInv'
  <2> SUFFICES ASSUME PlaceInv, UNCHANGED vars PROVE PlaceInv'
    OBVIOUS
  <2>1. UNCHANGED <<ipc, batch, pending, queue, popped>>
    BY DEF vars, combiner, popVars
  <2> QED
    BY <2>1 DEF PlaceInv, Distinct, BatchOfCombiner, Disjoint, Complete, Hands, Batched
<1>3. IndInv /\ CountInv /\ QueueInv /\ PlaceInv /\ [Next]_vars => PlaceInv'
  BY <1>2, PlaceInject, PlacePop DEF Next
<1> QED
  BY <1>1, <1>3, CombinerInvariance, CountInvariance, QueueInvariance, PTL DEF Spec

\* Nothing that is given to inject_ready is lost or handed out twice, however
\* injectors, combiner and workers interleave: the entry is with its injector,
\* deferred, in the combiner's batch, in the queue or with a worker.
THEOREM NothingLostOrDuplicated == Spec => []OnePlace
<1>1. IndInv /\ CountInv /\ PlaceInv => OnePlace
  <2> SUFFICES ASSUME IndInv, CountInv, PlaceInv, NEW e \in Entries
               PROVE  Occurrences(e, pending) + Occurrences(e, queue)
                      + Cardinality({f \in Entries : Occurrences(e, batch[f]) > 0})
                      + (IF ipc[e] \in InHand THEN 1 ELSE 0)
                      + (IF e \in popped THEN 1 ELSE 0) = 1
    BY DEF OnePlace
  <2> DEFINE holders == {f \in Entries : Occurrences(e, batch[f]) > 0}
             inPending == e \in Members(pending)
             inQueue == e \in Members(queue)
             inBatch == e \in Batched
             inHand == e \in Hands
             isPopped == e \in popped
  <2>1. /\ pending \in Seq(Entries) /\ queue \in Seq(Entries)
        /\ \A f \in Entries : batch[f] \in Seq(Entries)
    BY DEF CountInv, TypeOK
  <2>2. Occurrences(e, pending) = IF inPending THEN 1 ELSE 0
    BY <2>1, OccursOnce DEF PlaceInv, Distinct
  <2>3. Occurrences(e, queue) = IF inQueue THEN 1 ELSE 0
    BY <2>1, OccursOnce DEF PlaceInv, Distinct
  <2>4. \A f \in Entries : f \in holders <=> e \in Members(batch[f])
    <3> SUFFICES ASSUME NEW f \in Entries PROVE Occurrences(e, batch[f]) > 0 <=> e \in Members(batch[f])
      OBVIOUS
    <3>1. Occurrences(e, batch[f]) = IF e \in Members(batch[f]) THEN 1 ELSE 0
      BY <2>1, OccursOnce DEF PlaceInv, Distinct
    <3> QED
      BY <3>1
  <2>5. Cardinality(holders) = IF inBatch THEN 1 ELSE 0
    <3>1. CASE inBatch
      <4>1. PICK f \in Entries : e \in Members(batch[f])
        BY <3>1 DEF Batched
      <4>2. batch[f] # <<>> /\ Members(<<>>) = {}
        BY <4>1 DEF Members
      <4>3. \A g \in Entries : g # f => batch[g] = <<>>
        BY <4>2 DEF IndInv, DeferralSafe, PlaceInv, BatchOfCombiner, Combining
      <4>4. holders = {f}
        BY <2>4, <4>1, <4>2, <4>3
      <4> QED
        BY <3>1, <4>4, FS_Singleton
    <3>2. CASE ~inBatch
      <4>1. holders = {}
        BY <2>4, <3>2 DEF Batched
      <4> QED
        BY <3>2, <4>1, FS_EmptySet
    <3> QED
      BY <3>1, <3>2
  <2>6. ipc[e] \in InHand <=> inHand
    BY DEF Hands
  <2>7. /\ inPending \/ inQueue \/ inBatch \/ inHand \/ isPopped
        /\ inPending => ~inQueue /\ ~inBatch /\ ~inHand /\ ~isPopped
        /\ inQueue => ~inBatch /\ ~inHand /\ ~isPopped
        /\ inBatch => ~inHand /\ ~isPopped
        /\ inHand => ~isPopped
    BY DEF PlaceInv, Disjoint, Complete
  <2> HIDE DEF holders, inPending, inQueue, inBatch, inHand
  <2>8. Occurrences(e, pending) + Occurrences(e, queue) + Cardinality(holders)
        + (IF ipc[e] \in InHand THEN 1 ELSE 0) + (IF isPopped THEN 1 ELSE 0) = 1
    BY <2>2, <2>3, <2>5, <2>6, <2>7
  <2> QED
    BY <2>8 DEF holders
<1> QED
  BY <1>1, CombinerInvariance, CountInvariance, PlaceInvariance, PTL
=============================================================================
