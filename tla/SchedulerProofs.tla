-------------------------- MODULE SchedulerProofs --------------------------
(***************************************************************************)
(* Theorems about Scheduler, for every number of sessions, workers, queue  *)
(* slots and jobs, and about the Service around it.  The first part rests  *)
(* on IInv: where a job may be, and whose results are delivered.  The      *)
(* second rests on QueueInv on top of it: the depth of the queue, its      *)
(* wakeups, the order in which it is served, its batches; and that         *)
(* Scheduler implements SchedulerContract.  The third shows that a service *)
(* runs its scheduler, and then what it promises, for every number of      *)
(* uploads and connections and every failure of a startup or a close.      *)
(***************************************************************************)
EXTENDS Service, SchedulerRefinement, FiniteSetTheorems, SequenceTheorems,
        WellFoundedInduction, TLAPS

-----------------------------------------------------------------------------
(* Where a job may be.                                                      *)

(* A set of job numbers is finite and its size is a natural number.        *)
LEMMA JobSetSize ==
  ASSUME TypeOK, NEW S, S \subseteq Jobs \cup {NoJob}
  PROVE  IsFiniteSet(S) /\ Cardinality(S) \in Nat
<1>1. sequence \in Nat
  BY DEF TypeOK
<1>2. IsFiniteSet(0..sequence)
  BY <1>1, FS_Interval
<1>3. S \subseteq 0..sequence
  BY <1>1 DEF Jobs, NoJob
<1>4. IsFiniteSet(S)
  BY <1>2, <1>3, FS_Subset
<1> QED BY <1>4, FS_CardinalityType

(* The depth after a submission has invalidated the session's partial.     *)
LEMMA DepthType ==
  ASSUME TypeOK, NEW s \in Sessions
  PROVE  DepthWithout(s) \in Int
<1>1. Superseded(s) \ started \subseteq Jobs \cup {NoJob}
  BY DEF TypeOK, Superseded
<1>2. Cardinality(Superseded(s) \ started) \in Nat
  BY <1>1, JobSetSize
<1> QED BY <1>2 DEF DepthWithout, TypeOK

(* Waking workers leaves every worker at a known place.                    *)
LEMMA WakeType ==
  ASSUME TypeOK, NEW W
  PROVE  Wake(W) \in [Workers -> {"check", "idle", "gather", "pick", "run", "exited"}]
BY DEF TypeOK, Wake

(* notify() and notify_all() keep the types of pc and waiters.              *)
LEMMA NotifyType ==
  ASSUME TypeOK, Notify \/ NotifyAll
  PROVE  /\ pc' \in [Workers -> {"check", "idle", "gather", "pick", "run", "exited"}]
         /\ waiters' \in Seq(Workers)
<1>1. CASE waiters = <<>> /\ Notify
  BY <1>1 DEF Notify, TypeOK
<1>2. CASE waiters # <<>> /\ Notify
  <2>1. Tail(waiters) \in Seq(Workers)
    BY <1>2, HeadTailProperties DEF TypeOK
  <2> QED BY <1>2, <2>1, WakeType DEF Notify
<1>3. CASE NotifyAll
  BY <1>3, WakeType, EmptySeq DEF NotifyAll
<1> QED BY <1>1, <1>2, <1>3

(* A worker that starts to wait is appended to the deque.                   *)
LEMMA SleepType ==
  ASSUME TypeOK, NEW w \in Workers, NEW where \in {"idle", "gather"}, Sleep(w, where)
  PROVE  /\ pc' \in [Workers -> {"check", "idle", "gather", "pick", "run", "exited"}]
         /\ waiters' \in Seq(Workers)
BY AppendProperties DEF TypeOK, Sleep

(* The fields an enqueued job gets are of the right type.                    *)
LEMMA EnqueueType ==
  ASSUME TypeOK, NEW s \in Sessions, NEW kind \in Kinds, NEW gen \in Nat,
         NEW shape \in Shapes, sequence < MaxJobs, Enqueue(s, kind, gen, shape)
  PROVE  /\ sequence' \in 0..MaxJobs
         /\ job' \in [Jobs' -> JobFields]
         /\ future' \in [Jobs' -> Outcomes \cup {"pending"}]
         /\ caller' \in [Jobs' -> {"awaiting", "cancelling", "returned"}]
         /\ heap' \subseteq Jobs' /\ stale' \subseteq Jobs' /\ started' \subseteq Jobs'
         /\ queued' \in Int
         /\ pc' \in [Workers -> {"check", "idle", "gather", "pick", "run", "exited"}]
         /\ waiters' \in Seq(Workers)
         /\ batch' \in [Workers -> SUBSET Jobs']
         /\ Jobs \subseteq Jobs' /\ NextSequence \in Jobs'
<1>1. sequence' \in 0..MaxJobs /\ Jobs \subseteq Jobs' /\ NextSequence \in Jobs'
  BY SchedulerAssumption DEF TypeOK, Enqueue, Jobs, NextSequence
<1>2. [session |-> s, kind |-> kind, gen |-> gen, shape |-> shape] \in JobFields
  BY DEF JobFields, Kinds
<1>3. job' \in [Jobs' -> JobFields]
  BY <1>2 DEF Enqueue, Extend, Jobs, TypeOK
<1>4. Settle(Superseded(s), "stale") \in [Jobs -> Outcomes \cup {"pending"}]
  BY DEF Settle, Outcomes, TypeOK
<1>5. future' \in [Jobs' -> Outcomes \cup {"pending"}]
  BY <1>4 DEF Enqueue, Extend, Jobs
<1>6. caller' \in [Jobs' -> {"awaiting", "cancelling", "returned"}]
  BY DEF Enqueue, Extend, Jobs, TypeOK
<1>7. heap' \subseteq Jobs' /\ stale' \subseteq Jobs' /\ started' \subseteq Jobs'
      /\ batch' \in [Workers -> SUBSET Jobs']
  BY <1>1 DEF Enqueue, Superseded, TypeOK, Jobs, NoJob
<1>8. queued' \in Int
  BY DepthType DEF Enqueue
<1>9. /\ pc' \in [Workers -> {"check", "idle", "gather", "pick", "run", "exited"}]
      /\ waiters' \in Seq(Workers)
  BY NotifyType DEF Enqueue
<1> QED BY <1>1, <1>3, <1>5, <1>6, <1>7, <1>8, <1>9

-----------------------------------------------------------------------------
(* Type correctness.                                                       *)

LEMMA SubmitType == TypeOK /\ Submit => TypeOK'
<1> SUFFICES ASSUME TypeOK, Submit PROVE TypeOK'
  OBVIOUS
<1>1. ASSUME NEW s \in Sessions, NEW shape \in Shapes, SubmitFinal(s, shape)
      PROVE  TypeOK'
  <2>1. gens[s] + 1 \in Nat /\ "final" \in Kinds
    BY DEF TypeOK, Kinds
  <2>2. sequence < MaxJobs /\ Enqueue(s, "final", gens[s] + 1, shape)
    BY <1>1 DEF SubmitFinal
  <2>3. phase' = phase
    BY <2>2 DEF Enqueue
  <2>4. partials' \in [Sessions -> Jobs' \cup {NoJob}]
    BY <1>1, <2>1, <2>2, EnqueueType DEF SubmitFinal, TypeOK
  <2>5. gens' \in [Sessions -> Nat]
    BY <1>1 DEF SubmitFinal, TypeOK
  <2> QED BY <2>1, <2>2, <2>3, <2>4, <2>5, EnqueueType DEF TypeOK
<1>2. ASSUME NEW s \in Sessions, NEW shape \in Shapes, SubmitPartial(s, shape)
      PROVE  TypeOK'
  <2>1. gens[s] \in Nat /\ "partial" \in Kinds
    BY DEF TypeOK, Kinds
  <2>2. sequence < MaxJobs /\ Enqueue(s, "partial", gens[s], shape)
    BY <1>2 DEF SubmitPartial
  <2>3. phase' = phase
    BY <2>2 DEF Enqueue
  <2>4. partials' \in [Sessions -> Jobs' \cup {NoJob}]
    BY <1>2, <2>1, <2>2, EnqueueType DEF SubmitPartial, TypeOK
  <2>5. gens' \in [Sessions -> Nat]
    BY <1>2 DEF SubmitPartial, TypeOK
  <2> QED BY <2>1, <2>2, <2>3, <2>4, <2>5, EnqueueType DEF TypeOK
<1>3. ASSUME NEW s \in Sessions, SubmitFinalBusy(s)
      PROVE  TypeOK'
  <2>1. queued' \in Int
    BY <1>3, DepthType DEF SubmitFinalBusy
  <2> QED BY <1>3, <2>1 DEF SubmitFinalBusy, TypeOK, Superseded, Settle, Jobs,
                             jobVars, workerVars, Outcomes, NoJob
<1> QED BY <1>1, <1>2, <1>3 DEF Submit

LEMMA CallerType ==
  ASSUME TypeOK, NEW j \in Jobs, Resume(j) \/ Cancel(j) \/ Unwind(j) \/ Interrupted(j)
  PROVE  TypeOK'
<1>1. CASE Resume(j)
  BY <1>1 DEF Resume, TypeOK, Jobs, jobVars, workerVars
<1>2. CASE Cancel(j)
  BY <1>2 DEF Cancel, Settle, TypeOK, Jobs, jobVars, workerVars, Outcomes
<1>3. CASE Unwind(j)
  <2>1. Abandoned(j) \subseteq Jobs
    BY DEF Abandoned
  <2>2. Cardinality(Abandoned(j)) \in Nat
    BY <2>1, JobSetSize
  <2>3. queued' \in Int
    BY <1>3, <2>2 DEF Unwind, TypeOK
  <2>4. /\ pc' \in [Workers -> {"check", "idle", "gather", "pick", "run", "exited"}]
        /\ waiters' \in Seq(Workers)
    BY <1>3, NotifyType DEF Unwind
  <2>5. gens' \in [Sessions -> Nat]
    BY <1>3 DEF Unwind, TypeOK
  <2>6. partials' \in [Sessions -> Jobs \cup {NoJob}]
    BY <1>3 DEF Unwind, TypeOK
  <2> QED BY <1>3, <2>1, <2>3, <2>4, <2>5, <2>6 DEF Unwind, TypeOK, Jobs, jobVars
<1>4. CASE Interrupted(j)
  BY <1>4 DEF Interrupted, TypeOK, Jobs, jobVars, workerVars
<1> QED BY <1>1, <1>2, <1>3, <1>4

LEMMA ScanType ==
  ASSUME TypeOK, Scan
  PROVE  /\ stale' \subseteq Jobs
         /\ gens' \in [Sessions -> Nat]
         /\ Cardinality(Counted) \in Nat
<1>1. Dead \subseteq Jobs
  BY DEF Dead, TypeOK
<1>2. Cardinality(Counted) \in Nat
  <2>1. Counted \subseteq Jobs
    BY <1>1 DEF Counted
  <2> QED BY <2>1, JobSetSize
<1>3. stale' \subseteq Jobs
  BY <1>1 DEF Scan, TypeOK
<1>4. gens' \in [Sessions -> Nat]
  BY DEF Scan, TypeOK
<1> QED BY <1>2, <1>3, <1>4

LEMMA WorkerType ==
  ASSUME TypeOK, NEW w \in Workers, Worker(w)
  PROVE  TypeOK'
<1>1. CASE CheckQueue(w)
  <2>1. /\ pc' \in [Workers -> {"check", "idle", "gather", "pick", "run", "exited"}]
        /\ waiters' \in Seq(Workers)
    BY <1>1, SleepType DEF CheckQueue, TypeOK
  <2> QED BY <1>1, <2>1 DEF CheckQueue, TypeOK, Jobs, jobVars
<1>2. CASE BatchWaitElapses(w)
  <2>1. ASSUME NEW i \in DOMAIN waiters PROVE RemoveAt(waiters, i) \in Seq(Workers)
    <3>1. waiters \in Seq(Workers) /\ i \in 1..Len(waiters) /\ Len(waiters) \in Nat
      BY <2>1, LenProperties DEF TypeOK
    <3>2. \A k \in 1..Len(waiters) : waiters[k] \in Workers
      BY <3>1, ElementOfSeq
    <3>3. SubSeq(waiters, 1, i - 1) \in Seq(Workers)
      BY <3>1, <3>2, SubSeqProperties
    <3>4. SubSeq(waiters, i + 1, Len(waiters)) \in Seq(Workers)
      BY <3>1, <3>2, SubSeqProperties
    <3> QED BY <3>3, <3>4, ConcatProperties DEF RemoveAt
  <2> QED BY <1>2, <2>1 DEF BatchWaitElapses, TypeOK, Jobs, jobVars
<1>3. CASE PickBatch(w)
  <2>1. PICK b \in SUBSET Live :
          /\ heap' = Retained(b)
          /\ started' = started \cup b
          /\ queued' = queued - Cardinality(Counted) - Cardinality(b)
          /\ batch' = [batch EXCEPT ![w] = b]
    BY <1>3 DEF PickBatch
  <2>2. Live \subseteq Jobs
    BY DEF Live, TypeOK
  <2>3. Cardinality(b) \in Nat
    BY <2>2, JobSetSize
  <2>4. Scan /\ UNCHANGED <<phase, sequence, job, future, caller, partials, waiters>>
    BY <1>3 DEF PickBatch, Scan, jobVars
  <2>5. queued' \in Int
    BY <2>1, <2>3, <2>4, ScanType DEF TypeOK
  <2> QED BY <1>3, <2>1, <2>2, <2>4, <2>5, ScanType
          DEF PickBatch, TypeOK, Jobs, Retained
<1>4. CASE PickNothing(w)
  <2>1. Scan /\ UNCHANGED <<phase, sequence, job, future, caller, partials,
                            started, batch>>
    BY <1>4 DEF PickNothing, Scan, jobVars
  <2>2. queued' \in Int
    BY <1>4, <2>1, ScanType DEF PickNothing, TypeOK
  <2>3. /\ pc' \in [Workers -> {"check", "idle", "gather", "pick", "run", "exited"}]
        /\ waiters' \in Seq(Workers)
    BY <1>4, SleepType DEF PickNothing, TypeOK
  <2>4. heap' = {}
    BY <1>4 DEF PickNothing
  <2> QED BY <2>1, <2>2, <2>3, <2>4, ScanType DEF TypeOK, Jobs
<1>5. CASE FinishBatch(w)
  <2>1. future' \in [Jobs -> Outcomes \cup {"pending"}]
    BY <1>5 DEF FinishBatch, TypeOK, Outcomes
  <2>2. partials' \in [Sessions -> Jobs \cup {NoJob}] /\ gens' \in [Sessions -> Nat]
    BY <1>5 DEF FinishBatch, TypeOK
  <2> QED BY <1>5, <2>1, <2>2 DEF FinishBatch, TypeOK, Jobs, jobVars
<1> QED BY <1>1, <1>2, <1>3, <1>4, <1>5 DEF Worker

LEMMA LifecycleType ==
  ASSUME TypeOK, Start \/ BeginClose \/ EndClose
  PROVE  TypeOK'
<1>1. CASE Start
  BY <1>1 DEF Start, TypeOK, Jobs, jobVars
<1>2. CASE BeginClose
  <2>1. /\ pc' \in [Workers -> {"check", "idle", "gather", "pick", "run", "exited"}]
        /\ waiters' \in Seq(Workers)
    BY <1>2, NotifyType DEF BeginClose
  <2> QED BY <1>2, <2>1 DEF BeginClose, TypeOK, Settle, Jobs, jobVars, Outcomes
<1>3. CASE EndClose
  BY <1>3 DEF EndClose, TypeOK, Jobs, jobVars, workerVars
<1> QED BY <1>1, <1>2, <1>3

LEMMA InitType == Init => TypeOK
<1> SUFFICES ASSUME Init PROVE TypeOK
  OBVIOUS
<1>1. sequence \in 0..MaxJobs /\ Jobs = {}
  BY SchedulerAssumption DEF Init, Jobs
<1>2. waiters \in Seq(Workers)
  BY EmptySeq DEF Init
<1> QED BY <1>1, <1>2 DEF Init, TypeOK

LEMMA NextType == TypeOK /\ [Next]_vars => TypeOK'
<1>1. TypeOK /\ UNCHANGED vars => TypeOK'
  BY DEF TypeOK, vars, Jobs
<1> QED BY <1>1, SubmitType, CallerType, WorkerType, LifecycleType DEF Next

(* Every reachable state is well typed: queue entries, flags, batches and   *)
(* _partials name accepted jobs only, whatever is submitted, cancelled or   *)
(* closed and whenever.                                                     *)
THEOREM TypeCorrect == Spec => []TypeOK
BY InitType, NextType, PTL DEF Spec

-----------------------------------------------------------------------------
(* The inductive invariant: one lemma per action, one step per conjunct.   *)

LEMMA InitInv == Init => IInv
<1> SUFFICES ASSUME Init PROVE IInv
  OBVIOUS
<1>1. Jobs = {}
  BY DEF Init, Jobs
<1> QED BY <1>1, InitType
        DEF Init, IInv, ServedOnce, NoOrphan, LivePartialIsNewest,
            FinalsAreNeverStale, PartialEntries, StaleIsSettled,
            CancelledIsSettled, IdleHasNoBatch, NotRunningIsEmpty,
            ClosedIsClean, WorkersExited

LEMMA ResumeInv == ASSUME IInv, NEW j \in Jobs, Resume(j) PROVE IInv'
<1>1. TypeOK /\ TypeOK'
  BY CallerType DEF IInv
<1>2. /\ UNCHANGED <<phase, sequence, job, future, heap, stale, started, queued,
                     partials, gens, pc, batch, waiters>>
      /\ caller' = [caller EXCEPT ![j] = "returned"]
  BY DEF Resume, jobVars, workerVars
<1>3. CancelledIsSettled'
  BY <1>1, <1>2 DEF IInv, CancelledIsSettled, TypeOK, Pending, Jobs
<1> QED
  BY <1>1, <1>2, <1>3
  DEF IInv, ServedOnce, NoOrphan, LivePartialIsNewest, FinalsAreNeverStale,
      PartialEntries, StaleIsSettled, IdleHasNoBatch, NotRunningIsEmpty,
      ClosedIsClean, WorkersExited, Running, Pending, IsPartial, SessionOf, Jobs

LEMMA CancelInv == ASSUME IInv, NEW j \in Jobs, Cancel(j) PROVE IInv'
<1>1. TypeOK /\ TypeOK'
  BY CallerType DEF IInv
<1>2. /\ UNCHANGED <<phase, sequence, job, heap, stale, started, queued,
                     partials, gens, pc, batch, waiters>>
      /\ caller' = [caller EXCEPT ![j] = "cancelling"]
  BY DEF Cancel, jobVars, workerVars
<1>3. /\ Jobs' = Jobs
      /\ \A k \in Jobs :
           future'[k] = IF k = j /\ Pending(j) THEN "cancelled" ELSE future[k]
  BY <1>2 DEF Cancel, Settle, Jobs, Pending
<1>4. CancelledIsSettled'
  BY <1>1, <1>2, <1>3 DEF IInv, CancelledIsSettled, TypeOK, Pending
<1>5. NoOrphan' /\ LivePartialIsNewest' /\ FinalsAreNeverStale' /\ ClosedIsClean'
  BY <1>1, <1>2, <1>3
  DEF IInv, NoOrphan, LivePartialIsNewest, FinalsAreNeverStale, ClosedIsClean,
      Running, Pending, IsPartial, SessionOf
<1>6. StaleIsSettled'
  BY <1>1, <1>2, <1>3 DEF IInv, StaleIsSettled, TypeOK, Pending
<1> QED
  BY <1>1, <1>2, <1>4, <1>5, <1>6
  DEF IInv, ServedOnce, PartialEntries, IdleHasNoBatch, NotRunningIsEmpty,
      WorkersExited, IsPartial, SessionOf

LEMMA WakeKeeps ==
  ASSUME TypeOK, NEW W, NEW w \in Workers
  PROVE  /\ Wake(W)[w] = "run" <=> pc[w] = "run"
         /\ Wake(W)[w] = "exited" <=> pc[w] = "exited"
BY DEF TypeOK, Wake

(* Waking workers starts no engine call and ends none.                       *)
LEMMA NotifyKeeps ==
  ASSUME TypeOK, Notify \/ NotifyAll, NEW w \in Workers
  PROVE  /\ pc'[w] = "run" <=> pc[w] = "run"
         /\ pc'[w] = "exited" <=> pc[w] = "exited"
<1>1. CASE Notify
  BY <1>1, WakeKeeps DEF Notify
<1>2. CASE NotifyAll
  BY <1>2, WakeKeeps DEF NotifyAll
<1> QED BY <1>1, <1>2

LEMMA UnwindInv == ASSUME IInv, NEW j \in Jobs, Unwind(j) PROVE IInv'
<1>1. TypeOK /\ TypeOK'
  BY CallerType DEF IInv
<1>2. /\ UNCHANGED <<phase, sequence, job, future, heap, started, batch>>
      /\ caller[j] = "cancelling"
      /\ caller' = [caller EXCEPT ![j] = "returned"]
      /\ stale' = stale \cup Abandoned(j)
      /\ NotifyAll
  BY DEF Unwind, jobVars
<1>3. Abandoned(j) \subseteq {j} /\ ~Pending(j) /\ Jobs' = Jobs
  BY <1>2 DEF Abandoned, IInv, CancelledIsSettled, Jobs
<1>4. \A s \in Sessions :
        /\ partials'[s] \in {partials[s], NoJob}
        /\ partials[s] # j => partials'[s] = partials[s]
  BY <1>1, <1>3 DEF Unwind, TypeOK
<1>5. \A w \in Workers :
        /\ pc'[w] = "run" <=> pc[w] = "run"
        /\ pc'[w] = "exited" <=> pc[w] = "exited"
  BY <1>1, <1>2, NotifyKeeps
<1>6. waiters' = <<>>
  BY <1>2 DEF NotifyAll
<1>7. ServedOnce' /\ NoOrphan' /\ IdleHasNoBatch' /\ NotRunningIsEmpty'
  <2>1. ServedOnce'
    BY <1>2 DEF IInv, ServedOnce
  <2>2. NoOrphan'
    BY <1>2, <1>3, <1>5 DEF IInv, NoOrphan, Running, Pending
  <2>3. IdleHasNoBatch'
    BY <1>2, <1>5 DEF IInv, IdleHasNoBatch
  <2>4. NotRunningIsEmpty'
    BY <1>2, <1>5, <1>6 DEF IInv, NotRunningIsEmpty, WorkersExited
  <2> QED BY <2>1, <2>2, <2>3, <2>4
<1>8. LivePartialIsNewest' /\ PartialEntries'
  BY <1>1, <1>2, <1>3, <1>4
  DEF IInv, LivePartialIsNewest, PartialEntries, Pending, IsPartial, SessionOf,
      TypeOK, JobFields
<1>9. FinalsAreNeverStale' /\ StaleIsSettled' /\ CancelledIsSettled'
  BY <1>1, <1>2, <1>3
  DEF IInv, FinalsAreNeverStale, StaleIsSettled, CancelledIsSettled, Pending,
      IsPartial, TypeOK
<1>10. ASSUME phase = "down" PROVE gens' = gens
  BY <1>10, <1>1 DEF Unwind, IInv, ClosedIsClean, TypeOK
<1>11. ClosedIsClean'
  <2> SUFFICES ASSUME phase = "down" PROVE ClosedIsClean'
    BY <1>2 DEF ClosedIsClean
  <2>1. \A s \in Sessions : partials'[s] = NoJob /\ gens'[s] = 0
    BY <1>4, <1>10 DEF IInv, ClosedIsClean
  <2> QED BY <1>2, <1>3, <1>6, <2>1 DEF IInv, ClosedIsClean, Pending
<1> QED BY <1>1, <1>7, <1>8, <1>9, <1>11 DEF IInv

LEMMA InterruptedInv == ASSUME IInv, NEW j \in Jobs, Interrupted(j) PROVE IInv'
<1>1. TypeOK /\ TypeOK'
  BY CallerType DEF IInv
<1>2. /\ UNCHANGED <<phase, sequence, job, future, heap, stale, started, queued,
                     partials, gens, pc, batch, waiters>>
      /\ caller' = [caller EXCEPT ![j] = "returned"]
  BY DEF Interrupted, jobVars, workerVars
<1>3. CancelledIsSettled'
  BY <1>1, <1>2 DEF IInv, CancelledIsSettled, TypeOK, Pending, Jobs
<1> QED
  BY <1>1, <1>2, <1>3
  DEF IInv, ServedOnce, NoOrphan, LivePartialIsNewest, FinalsAreNeverStale,
      PartialEntries, StaleIsSettled, IdleHasNoBatch, NotRunningIsEmpty,
      ClosedIsClean, WorkersExited, Running, Pending, IsPartial, SessionOf, Jobs

(* What _enqueue does to the jobs: the old ones keep their fields and, but  *)
(* for the superseded partial, their futures; the new one is queued.        *)
LEMMA EnqueueEffect ==
  ASSUME TypeOK, NEW s \in Sessions, NEW kind, NEW gen, NEW shape,
         Enqueue(s, kind, gen, shape)
  PROVE  /\ Jobs' = Jobs \cup {NextSequence} /\ NextSequence \notin Jobs
         /\ \A k \in Jobs' : k <= NextSequence
         /\ NextSequence # NoJob
         /\ \A k \in Jobs : job'[k] = job[k] /\ caller'[k] = caller[k]
         /\ \A k \in Jobs :
              future'[k] = IF k \in Superseded(s) /\ Pending(k) THEN "stale"
                                                              ELSE future[k]
         /\ job'[NextSequence].session = s /\ job'[NextSequence].kind = kind
         /\ job'[NextSequence].gen = gen
         /\ future'[NextSequence] = "pending"
         /\ caller'[NextSequence] = "awaiting"
<1>1. /\ sequence \in Nat /\ sequence' = sequence + 1
      /\ NextSequence = sequence + 1
  BY DEF TypeOK, Enqueue, NextSequence
<1>2. /\ Jobs' = Jobs \cup {NextSequence} /\ NextSequence \notin Jobs
      /\ NextSequence # NoJob
      /\ \A k \in Jobs' : k <= NextSequence
  BY <1>1 DEF Jobs, NoJob
<1>3. \A k \in Jobs : job'[k] = job[k] /\ caller'[k] = caller[k]
  BY <1>1 DEF Enqueue, Extend, Jobs
<1>4. \A k \in Jobs : future'[k] = Settle(Superseded(s), "stale")[k]
  BY <1>1 DEF Enqueue, Extend, Jobs
<1>5. /\ job'[NextSequence].session = s /\ job'[NextSequence].kind = kind
      /\ job'[NextSequence].gen = gen
      /\ future'[NextSequence] = "pending"
      /\ caller'[NextSequence] = "awaiting"
  BY <1>1 DEF Enqueue, Extend, Jobs
<1> QED BY <1>2, <1>3, <1>4, <1>5 DEF Settle

(* An accepted submission, of either kind.                                  *)
LEMMA EnqueueInv ==
  ASSUME IInv, TypeOK', NEW s \in Sessions, NEW kind \in Kinds, NEW gen, NEW shape,
         phase = "up", Enqueue(s, kind, gen, shape),
         partials' = [partials EXCEPT
                        ![s] = IF kind = "partial" THEN NextSequence ELSE NoJob]
  PROVE  IInv'
<1>1. TypeOK
  BY DEF IInv
<1>2. /\ phase' = phase /\ UNCHANGED <<started, batch>>
      /\ heap' = heap \cup {NextSequence}
      /\ stale' = stale \cup Superseded(s)
  BY DEF Enqueue
<1>3. \A w \in Workers :
        /\ pc'[w] = "run" <=> pc[w] = "run"
        /\ pc'[w] = "exited" <=> pc[w] = "exited"
  BY <1>1, NotifyKeeps DEF Enqueue
<1>4. Superseded(s) \subseteq Jobs
  BY <1>1 DEF Superseded, TypeOK
<1>5. ServedOnce'
  BY <1>1, <1>2, EnqueueEffect DEF IInv, ServedOnce, TypeOK
<1>6. NoOrphan'
  <2> SUFFICES ASSUME NEW k \in Jobs', future'[k] = "pending"
               PROVE  k \in heap' \ stale' \/ Running(k)'
    BY DEF NoOrphan, Pending
  <2>1. CASE k = NextSequence
    BY <2>1, <1>1, <1>2, <1>4, EnqueueEffect DEF TypeOK
  <2>2. CASE k \in Jobs
    <3>1. Pending(k) /\ k \notin Superseded(s)
      BY <2>2, <1>1, EnqueueEffect DEF Pending
    <3>2. k \in heap \ stale \/ Running(k)
      BY <2>2, <3>1 DEF IInv, NoOrphan
    <3> QED BY <3>1, <3>2, <1>2, <1>3 DEF Running
  <2> QED BY <2>1, <2>2, <1>1, EnqueueEffect
<1>7. LivePartialIsNewest'
  <2> SUFFICES ASSUME NEW k \in Jobs', future'[k] = "pending", job'[k].kind = "partial"
               PROVE  /\ partials'[job'[k].session] = k
                      /\ \A i \in Jobs' : job'[i].session = job'[k].session => i <= k
    BY DEF LivePartialIsNewest, Pending, IsPartial, SessionOf
  <2>1. CASE k = NextSequence
    <3>1. kind = "partial" /\ job'[k].session = s
      BY <2>1, <1>1, EnqueueEffect
    <3>2. \A i \in Jobs' : i <= k
      BY <2>1, <1>1, EnqueueEffect
    <3> QED BY <2>1, <3>1, <3>2, <1>1 DEF TypeOK
  <2>2. CASE k \in Jobs
    <3>1. Pending(k) /\ IsPartial(k) /\ k \notin Superseded(s)
          /\ job'[k].session = SessionOf(k)
      BY <2>2, <1>1, EnqueueEffect DEF Pending, IsPartial, SessionOf
    <3>2. partials[SessionOf(k)] = k
      BY <2>2, <3>1 DEF IInv, LivePartialIsNewest
    <3>3. SessionOf(k) # s
      BY <2>2, <3>1, <3>2, <1>1 DEF Superseded, Jobs, NoJob, TypeOK
    <3>4. partials'[SessionOf(k)] = k
      BY <3>2, <3>3, <1>1, <2>2 DEF TypeOK, JobFields, SessionOf
    <3>5. \A i \in Jobs' : job'[i].session = SessionOf(k) => i <= k
      BY <2>2, <3>1, <3>3, <1>1, EnqueueEffect DEF IInv, LivePartialIsNewest, SessionOf
    <3> QED BY <3>1, <3>4, <3>5
  <2> QED BY <2>1, <2>2, <1>1, EnqueueEffect
<1>8. \A k \in Superseded(s) : IsPartial(k) /\ SessionOf(k) = s
  BY DEF Superseded, IInv, PartialEntries
<1>9. StaleIsSettled'
  BY <1>1, <1>2, <1>4, EnqueueEffect DEF IInv, StaleIsSettled, Pending, TypeOK
<1>10. FinalsAreNeverStale'
  BY <1>1, <1>2, <1>4, <1>8, <1>9, EnqueueEffect
  DEF IInv, FinalsAreNeverStale, Pending, IsPartial, StaleIsSettled
<1>11. PartialEntries'
  <2> SUFFICES ASSUME NEW t \in Sessions, partials'[t] # NoJob
               PROVE  /\ job'[partials'[t]].kind = "partial"
                      /\ job'[partials'[t]].session = t
    BY DEF PartialEntries, IsPartial, SessionOf
  <2>1. CASE t = s
    BY <2>1, <1>1, EnqueueEffect DEF TypeOK
  <2>2. CASE t # s
    BY <2>2, <1>1, EnqueueEffect DEF IInv, PartialEntries, IsPartial, SessionOf, TypeOK
  <2> QED BY <2>1, <2>2
<1>12. CancelledIsSettled'
  BY <1>1, EnqueueEffect DEF IInv, CancelledIsSettled, Pending
<1>13. IdleHasNoBatch' /\ NotRunningIsEmpty' /\ ClosedIsClean'
  BY <1>2, <1>3 DEF IInv, IdleHasNoBatch, NotRunningIsEmpty, ClosedIsClean
<1> QED BY <1>5, <1>6, <1>7, <1>9, <1>10, <1>11, <1>12, <1>13 DEF IInv

LEMMA SubmitInv == ASSUME IInv, Submit PROVE IInv'
<1>1. TypeOK /\ TypeOK'
  BY SubmitType DEF IInv
<1>2. ASSUME NEW s \in Sessions, NEW shape \in Shapes, SubmitFinal(s, shape)
      PROVE  IInv'
  BY <1>1, <1>2, EnqueueInv DEF SubmitFinal, Kinds
<1>3. ASSUME NEW s \in Sessions, NEW shape \in Shapes, SubmitPartial(s, shape)
      PROVE  IInv'
  BY <1>1, <1>3, EnqueueInv DEF SubmitPartial, Kinds
<1>4. ASSUME NEW s \in Sessions, SubmitFinalBusy(s)
      PROVE  IInv'
  <2>1. /\ phase = "up"
        /\ UNCHANGED <<phase, sequence, job, caller, heap, started, gens, pc,
                       batch, waiters>>
        /\ stale' = stale \cup Superseded(s)
        /\ partials' = [partials EXCEPT ![s] = NoJob]
    BY <1>4 DEF SubmitFinalBusy, jobVars, workerVars
  <2>2. Jobs' = Jobs /\ Superseded(s) \subseteq Jobs
    BY <1>1, <2>1 DEF Jobs, Superseded, TypeOK
  <2>3. \A k \in Jobs :
          future'[k] = IF k \in Superseded(s) /\ Pending(k) THEN "stale" ELSE future[k]
    BY <1>4 DEF SubmitFinalBusy, Settle
  <2>4. \A k \in Superseded(s) : IsPartial(k) /\ SessionOf(k) = s
    BY DEF Superseded, IInv, PartialEntries
  <2>5. NoOrphan'
    BY <2>1, <2>2, <2>3 DEF IInv, NoOrphan, Pending, Running
  <2>6. LivePartialIsNewest'
    <3> SUFFICES ASSUME NEW k \in Jobs, future'[k] = "pending", IsPartial(k)
                 PROVE  /\ partials'[SessionOf(k)] = k
                        /\ \A i \in Jobs : SessionOf(i) = SessionOf(k) => i <= k
      BY <2>1, <2>2 DEF LivePartialIsNewest, Pending, IsPartial, SessionOf
    <3>1. Pending(k) /\ k \notin Superseded(s)
      BY <2>3 DEF Pending
    <3>2. partials[SessionOf(k)] = k /\ SessionOf(k) \in Sessions
      BY <3>1, <1>1 DEF IInv, LivePartialIsNewest, TypeOK, JobFields, SessionOf
    <3>3. SessionOf(k) # s
      BY <3>1, <3>2, <1>1 DEF Superseded, Jobs, NoJob, TypeOK
    <3> QED BY <3>1, <3>2, <3>3, <2>1, <1>1 DEF IInv, LivePartialIsNewest, TypeOK
  <2>7. StaleIsSettled' /\ CancelledIsSettled'
    BY <1>1, <2>1, <2>2, <2>3
    DEF IInv, StaleIsSettled, CancelledIsSettled, Pending, TypeOK
  <2>8. FinalsAreNeverStale'
    BY <2>1, <2>2, <2>3, <2>4, <2>7
    DEF IInv, FinalsAreNeverStale, StaleIsSettled, Pending, IsPartial
  <2>9. PartialEntries'
    BY <1>1, <2>1 DEF IInv, PartialEntries, IsPartial, SessionOf, TypeOK
  <2>10. ServedOnce' /\ IdleHasNoBatch' /\ NotRunningIsEmpty' /\ ClosedIsClean'
    BY <2>1 DEF IInv, ServedOnce, IdleHasNoBatch, NotRunningIsEmpty, ClosedIsClean
  <2> QED BY <1>1, <2>5, <2>6, <2>7, <2>8, <2>9, <2>10 DEF IInv
<1> QED BY <1>2, <1>3, <1>4 DEF Submit

LEMMA CheckQueueInv == ASSUME IInv, NEW w \in Workers, CheckQueue(w) PROVE IInv'
<1>1. TypeOK /\ TypeOK'
  BY WorkerType DEF IInv, Worker
<1>2. UNCHANGED <<phase, sequence, job, future, caller, heap, stale, started,
                  partials, gens, batch>>
  BY DEF CheckQueue, jobVars
<1>3. \A v \in Workers :
        /\ pc'[v] = "run" <=> pc[v] = "run"
        /\ pc[v] = "exited" => pc'[v] = "exited"
  BY <1>1 DEF CheckQueue, Sleep, TypeOK
<1>4. phase # "up" => waiters' = waiters
  BY DEF CheckQueue
<1>5. NoOrphan' /\ IdleHasNoBatch'
  BY <1>2, <1>3 DEF IInv, NoOrphan, IdleHasNoBatch, Running, Pending, Jobs
<1>6. NotRunningIsEmpty' /\ ClosedIsClean'
  BY <1>2, <1>3, <1>4
  DEF IInv, NotRunningIsEmpty, ClosedIsClean, WorkersExited, Pending, Jobs
<1> QED
  BY <1>1, <1>2, <1>5, <1>6
  DEF IInv, ServedOnce, LivePartialIsNewest, FinalsAreNeverStale, PartialEntries,
      StaleIsSettled, CancelledIsSettled, Pending, IsPartial, SessionOf, Jobs

LEMMA BatchWaitElapsesInv ==
  ASSUME IInv, NEW w \in Workers, BatchWaitElapses(w) PROVE IInv'
<1>1. TypeOK /\ TypeOK'
  BY WorkerType DEF IInv, Worker
<1>2. UNCHANGED <<phase, sequence, job, future, caller, heap, stale, started,
                  partials, gens, batch>>
  BY DEF BatchWaitElapses, jobVars
<1>3. \A v \in Workers :
        /\ pc'[v] = "run" <=> pc[v] = "run"
        /\ pc[v] = "exited" => pc'[v] = "exited"
  BY <1>1 DEF BatchWaitElapses, TypeOK
<1>4. phase = "up"
  <2>1. waiters # <<>>
    BY <1>1, EmptySeq, LenProperties DEF BatchWaitElapses, TypeOK
  <2> QED BY <2>1 DEF IInv, NotRunningIsEmpty
<1>5. NoOrphan' /\ IdleHasNoBatch'
  BY <1>2, <1>3 DEF IInv, NoOrphan, IdleHasNoBatch, Running, Pending, Jobs
<1>6. NotRunningIsEmpty' /\ ClosedIsClean'
  BY <1>2, <1>4 DEF NotRunningIsEmpty, ClosedIsClean
<1> QED
  BY <1>1, <1>2, <1>5, <1>6
  DEF IInv, ServedOnce, LivePartialIsNewest, FinalsAreNeverStale, PartialEntries,
      StaleIsSettled, CancelledIsSettled, Pending, IsPartial, SessionOf, Jobs

(* What the scan of the heap discards is settled already.                    *)
LEMMA DeadIsSettled == ASSUME IInv PROVE \A j \in Dead : j \in Jobs /\ ~Pending(j)
BY DEF IInv, TypeOK, StaleIsSettled, Dead, Pending

(* The conjuncts that a scan of the heap disturbs only through stale and gens. *)
LEMMA ScanInv ==
  ASSUME IInv, Scan, phase = "up" \/ heap = {}
  PROVE  /\ LivePartialIsNewest' /\ FinalsAreNeverStale' /\ PartialEntries'
         /\ StaleIsSettled' /\ CancelledIsSettled'
         /\ phase = "down" => gens' = gens
<1>1. UNCHANGED <<phase, sequence, job, future, caller, partials>>
      /\ stale' = stale \cup Dead
  BY DEF Scan, jobVars
<1>2. StaleIsSettled'
  BY <1>1, DeadIsSettled DEF IInv, StaleIsSettled, Pending
<1>3. FinalsAreNeverStale'
  BY <1>1, DeadIsSettled DEF IInv, FinalsAreNeverStale, Pending, IsPartial, Jobs
<1>4. ASSUME phase = "down" PROVE gens' = gens
  <2>1. Dead = {} /\ TypeOK
    BY <1>4 DEF Dead, IInv
  <2> QED BY <2>1 DEF Scan, ReleasedByScan, TypeOK
<1> QED
  BY <1>1, <1>2, <1>3, <1>4
  DEF IInv, LivePartialIsNewest, PartialEntries, CancelledIsSettled, Pending,
      IsPartial, SessionOf, Jobs

LEMMA PickBatchInv == ASSUME IInv, NEW w \in Workers, PickBatch(w) PROVE IInv'
<1>1. TypeOK /\ TypeOK'
  BY WorkerType DEF IInv, Worker
<1>2. PICK b \in SUBSET Live :
        /\ IsBatch(b)
        /\ heap' = Live \ b
        /\ started' = started \cup b
        /\ batch' = [batch EXCEPT ![w] = b]
  BY DEF PickBatch, Retained
<1>3. /\ Scan /\ UNCHANGED <<phase, sequence, job, future, caller, partials, waiters>>
      /\ pc[w] = "pick" /\ pc' = [pc EXCEPT ![w] = "run"]
      /\ stale' = stale \cup Dead
  BY DEF PickBatch, Scan, jobVars
<1>4. phase = "up"
  <2>1. heap # {}
    BY <1>2 DEF IsBatch, Live
  <2> QED BY <2>1 DEF IInv, NotRunningIsEmpty
<1>5. batch[w] = {} /\ b \subseteq heap /\ Live \subseteq heap /\ heap \subseteq Live \cup Dead
      /\ Live \cap Dead = {}
  BY <1>2, <1>3 DEF IInv, IdleHasNoBatch, Live
<1>6. ServedOnce'
  BY <1>1, <1>2, <1>5 DEF IInv, ServedOnce, TypeOK
<1>7. NoOrphan'
  <2> SUFFICES ASSUME NEW j \in Jobs, Pending(j)
               PROVE  j \in heap' \ stale' \/ Running(j)'
    BY <1>3 DEF NoOrphan, Pending, Jobs
  <2>1. j \notin Dead
    BY DeadIsSettled
  <2>2. CASE j \in heap \ stale
    BY <2>1, <2>2, <1>1, <1>2, <1>3, <1>5 DEF Running, TypeOK
  <2>3. CASE Running(j)
    BY <2>3, <1>1, <1>2, <1>3 DEF Running, TypeOK
  <2> QED BY <2>2, <2>3 DEF IInv, NoOrphan
<1>8. IdleHasNoBatch'
  BY <1>1, <1>2, <1>3 DEF IInv, IdleHasNoBatch, TypeOK
<1>9. NotRunningIsEmpty' /\ ClosedIsClean'
  BY <1>3, <1>4 DEF NotRunningIsEmpty, ClosedIsClean
<1> QED BY <1>1, <1>3, <1>4, <1>6, <1>7, <1>8, <1>9, ScanInv DEF IInv

LEMMA PickNothingInv == ASSUME IInv, NEW w \in Workers, PickNothing(w) PROVE IInv'
<1>1. TypeOK /\ TypeOK'
  BY WorkerType DEF IInv, Worker
<1>2. /\ Scan
      /\ UNCHANGED <<phase, sequence, job, future, caller, partials, started, batch>>
      /\ Live = {} /\ heap' = {} /\ stale' = stale \cup Dead
  BY DEF PickNothing, Scan, jobVars
<1>3. \A v \in Workers :
        /\ pc'[v] = "run" <=> pc[v] = "run"
        /\ pc[v] = "exited" => pc'[v] = "exited"
  BY <1>1 DEF PickNothing, Sleep, TypeOK
<1>4. phase # "up" => waiters' = waiters
  BY DEF PickNothing
<1>5. phase = "up" \/ heap = {}
  BY DEF IInv, NotRunningIsEmpty
<1>6. NoOrphan'
  <2> SUFFICES ASSUME NEW j \in Jobs, Pending(j) PROVE Running(j)'
    BY <1>2 DEF NoOrphan, Pending, Jobs
  <2>1. j \notin heap
    BY <1>2, DeadIsSettled DEF Live
  <2> QED BY <2>1, <1>2, <1>3 DEF IInv, NoOrphan, Running
<1>7. ServedOnce' /\ IdleHasNoBatch'
  BY <1>2, <1>3 DEF IInv, ServedOnce, IdleHasNoBatch
<1>8. NotRunningIsEmpty'
  BY <1>2, <1>3, <1>4 DEF IInv, NotRunningIsEmpty, WorkersExited
<1>9. ClosedIsClean'
  BY <1>2, <1>4, <1>5, ScanInv DEF IInv, ClosedIsClean, Pending, Jobs
<1> QED BY <1>1, <1>2, <1>5, <1>6, <1>7, <1>8, <1>9, ScanInv DEF IInv

LEMMA FinishBatchInv == ASSUME IInv, NEW w \in Workers, FinishBatch(w) PROVE IInv'
<1>1. TypeOK /\ TypeOK'
  BY WorkerType DEF IInv, Worker
<1>2. /\ UNCHANGED <<phase, sequence, job, caller, heap, stale, started, waiters>>
      /\ pc[w] = "run" /\ pc' = [pc EXCEPT ![w] = "check"]
      /\ batch' = [batch EXCEPT ![w] = {}]
      /\ Jobs' = Jobs
  BY DEF FinishBatch, jobVars, Jobs
<1>3. \A j \in Jobs :
        /\ j \in batch[w] => future'[j] # "pending"
        /\ future[j] # "pending" => future'[j] = future[j]
        /\ j \notin batch[w] => future'[j] = future[j]
        /\ ~IsPartial(j) /\ future'[j] = "stale" => future[j] = "stale" \/ j \in stale
  <2>1. PICK outcome \in {"result", "error"} :
          future' = [j \in Jobs |-> IF j \notin batch[w] \/ ~Pending(j) THEN future[j]
                                   ELSE IF Spoiled(j) THEN "stale" ELSE outcome]
    BY DEF FinishBatch
  <2>2. \A j \in Jobs :
          future'[j] = IF j \notin batch[w] \/ ~Pending(j) THEN future[j]
                       ELSE IF Spoiled(j) THEN "stale" ELSE outcome
    BY <2>1
  <2> QED BY <2>1, <2>2 DEF Pending, Spoiled
<1>4. \A s \in Sessions :
        /\ partials'[s] \in {partials[s], NoJob}
        /\ partials[s] \notin batch[w] => partials'[s] = partials[s]
  BY DEF FinishBatch
<1>5. phase \notin {"new", "down"}
  BY <1>2 DEF IInv, NotRunningIsEmpty, WorkersExited
<1>6. ServedOnce'
  BY <1>1, <1>2 DEF IInv, ServedOnce, TypeOK
<1>7. NoOrphan'
  <2> SUFFICES ASSUME NEW j \in Jobs, future'[j] = "pending"
               PROVE  j \in heap' \ stale' \/ Running(j)'
    BY <1>2 DEF NoOrphan, Pending
  <2>1. Pending(j) /\ j \notin batch[w]
    BY <1>3 DEF Pending
  <2>2. CASE j \in heap \ stale
    BY <2>2, <1>2
  <2>3. CASE Running(j)
    BY <2>1, <2>3, <1>1, <1>2 DEF Running, TypeOK
  <2> QED BY <2>1, <2>2, <2>3 DEF IInv, NoOrphan
<1>8. LivePartialIsNewest'
  <2> SUFFICES ASSUME NEW j \in Jobs, future'[j] = "pending", IsPartial(j)
               PROVE  /\ partials'[SessionOf(j)] = j
                      /\ \A k \in Jobs : SessionOf(k) = SessionOf(j) => k <= j
    BY <1>2 DEF LivePartialIsNewest, Pending, IsPartial, SessionOf
  <2>1. Pending(j) /\ j \notin batch[w] /\ SessionOf(j) \in Sessions
    BY <1>1, <1>3 DEF Pending, SessionOf, TypeOK, JobFields
  <2> QED BY <2>1, <1>4 DEF IInv, LivePartialIsNewest
<1>9. StaleIsSettled' /\ CancelledIsSettled'
  BY <1>1, <1>2, <1>3 DEF IInv, StaleIsSettled, CancelledIsSettled, Pending, TypeOK
<1>10. FinalsAreNeverStale'
  <2>1. ASSUME NEW j \in Jobs, ~IsPartial(j) PROVE future'[j] # "stale"
    <3>1. CASE Pending(j)
      BY <2>1, <3>1, <1>3 DEF IInv, FinalsAreNeverStale, StaleIsSettled, Pending
    <3>2. CASE ~Pending(j)
      BY <2>1, <3>2, <1>3 DEF IInv, FinalsAreNeverStale, Pending
    <3> QED BY <3>1, <3>2
  <2> QED BY <2>1, <1>2, <1>9
          DEF FinalsAreNeverStale, StaleIsSettled, Pending, IsPartial
<1>11. PartialEntries'
  BY <1>2, <1>4 DEF IInv, PartialEntries, IsPartial, SessionOf
<1>12. IdleHasNoBatch'
  BY <1>1, <1>2 DEF IInv, IdleHasNoBatch, TypeOK
<1>13. NotRunningIsEmpty' /\ ClosedIsClean'
  BY <1>2, <1>5 DEF IInv, NotRunningIsEmpty, ClosedIsClean
<1> QED BY <1>1, <1>6, <1>7, <1>8, <1>9, <1>10, <1>11, <1>12, <1>13 DEF IInv

LEMMA StartInv == ASSUME IInv, Start PROVE IInv'
<1>1. TypeOK /\ TypeOK'
  BY LifecycleType DEF IInv
<1>2. /\ UNCHANGED <<sequence, job, future, caller, heap, stale, started, partials,
                     gens, batch, waiters>>
      /\ phase' = "up"
      /\ \A w \in Workers : pc'[w] = "check" /\ pc[w] = "exited"
  BY DEF Start, jobVars, IInv, NotRunningIsEmpty, WorkersExited
<1>3. \A w \in Workers : batch[w] = {}
  BY <1>2 DEF IInv, IdleHasNoBatch
<1>4. NoOrphan' /\ IdleHasNoBatch'
  BY <1>2, <1>3 DEF IInv, NoOrphan, IdleHasNoBatch, Running, Pending, Jobs
<1>5. NotRunningIsEmpty' /\ ClosedIsClean'
  BY <1>2 DEF NotRunningIsEmpty, ClosedIsClean
<1> QED
  BY <1>1, <1>2, <1>4, <1>5
  DEF IInv, ServedOnce, LivePartialIsNewest, FinalsAreNeverStale, PartialEntries,
      StaleIsSettled, CancelledIsSettled, Pending, IsPartial, SessionOf, Jobs

LEMMA BeginCloseInv == ASSUME IInv, BeginClose PROVE IInv'
<1>1. TypeOK /\ TypeOK'
  BY LifecycleType DEF IInv
<1>2. /\ UNCHANGED <<sequence, job, caller, started, partials, gens, batch>>
      /\ phase' = "joining" /\ heap' = {} /\ waiters' = <<>>
      /\ stale' = stale \cup heap
      /\ Jobs' = Jobs /\ heap \subseteq Jobs
  BY <1>1 DEF BeginClose, NotifyAll, jobVars, Jobs, TypeOK
<1>3. \A j \in Jobs :
        future'[j] = IF j \in heap \ stale /\ Pending(j) THEN "closed" ELSE future[j]
  BY DEF BeginClose, Settle, Drained
<1>4. \A w \in Workers : pc'[w] = "run" <=> pc[w] = "run"
  BY <1>1, NotifyKeeps DEF BeginClose
<1>5. NoOrphan'
  BY <1>2, <1>3, <1>4 DEF IInv, NoOrphan, Running, Pending
<1>6. StaleIsSettled' /\ CancelledIsSettled'
  BY <1>1, <1>2, <1>3 DEF IInv, StaleIsSettled, CancelledIsSettled, Pending, TypeOK
<1>7. FinalsAreNeverStale' /\ LivePartialIsNewest'
  BY <1>2, <1>3, <1>6
  DEF IInv, FinalsAreNeverStale, LivePartialIsNewest, StaleIsSettled, Pending,
      IsPartial, SessionOf
<1>8. ServedOnce' /\ IdleHasNoBatch'
  BY <1>2, <1>4 DEF IInv, ServedOnce, IdleHasNoBatch
<1>9. NotRunningIsEmpty' /\ ClosedIsClean'
  BY <1>2 DEF NotRunningIsEmpty, ClosedIsClean
<1> QED
  BY <1>1, <1>2, <1>5, <1>6, <1>7, <1>8, <1>9
  DEF IInv, PartialEntries, IsPartial, SessionOf

LEMMA EndCloseInv == ASSUME IInv, EndClose PROVE IInv'
<1>1. TypeOK /\ TypeOK'
  BY LifecycleType DEF IInv
<1>2. /\ UNCHANGED <<sequence, job, future, caller, heap, stale, started, pc,
                     batch, waiters>>
      /\ phase = "joining" /\ phase' = "down"
      /\ WorkersExited
      /\ \A s \in Sessions : partials'[s] = NoJob /\ gens'[s] = 0
  BY DEF EndClose, jobVars, workerVars
<1>3. \A w \in Workers : batch[w] = {}
  BY <1>2 DEF IInv, IdleHasNoBatch, WorkersExited
<1>4. heap = {} /\ waiters = <<>>
  BY <1>2 DEF IInv, NotRunningIsEmpty
<1>5. \A j \in Jobs : ~Pending(j)
  BY <1>3, <1>4 DEF IInv, NoOrphan, Running
<1>6. ClosedIsClean' /\ NotRunningIsEmpty'
  BY <1>2, <1>3, <1>4, <1>5
  DEF ClosedIsClean, NotRunningIsEmpty, WorkersExited, Pending, Jobs
<1>7. NoOrphan' /\ LivePartialIsNewest'
  BY <1>2, <1>5 DEF NoOrphan, LivePartialIsNewest, Pending, Jobs
<1> QED
  BY <1>1, <1>2, <1>6, <1>7
  DEF IInv, ServedOnce, FinalsAreNeverStale, PartialEntries, StaleIsSettled,
      CancelledIsSettled, IdleHasNoBatch, Pending, IsPartial, Jobs

LEMMA NextInv == IInv /\ [Next]_vars => IInv'
<1>1. IInv /\ UNCHANGED vars => IInv'
  BY DEF vars, IInv, TypeOK, ServedOnce, NoOrphan, LivePartialIsNewest,
         FinalsAreNeverStale, PartialEntries, StaleIsSettled, CancelledIsSettled,
         IdleHasNoBatch, NotRunningIsEmpty, ClosedIsClean, WorkersExited, Running,
         Pending, IsPartial, SessionOf, Jobs
<1>2. ASSUME IInv, NEW w \in Workers, Worker(w) PROVE IInv'
  BY <1>2, CheckQueueInv, BatchWaitElapsesInv, PickBatchInv, PickNothingInv,
     FinishBatchInv DEF Worker
<1> QED
  BY <1>1, <1>2, SubmitInv, ResumeInv, CancelInv, UnwindInv, InterruptedInv, StartInv,
     BeginCloseInv, EndCloseInv DEF Next

LEMMA Invariant == Spec => []IInv
BY InitInv, NextInv, PTL DEF Spec

-----------------------------------------------------------------------------
(* The properties the runs check.                                           *)

(* No caller is left waiting for a future that nobody will settle: each     *)
(* unsettled job is queued or in the hands of a worker (_next_batch,        *)
(* _finish and close lose no job).                                          *)
THEOREM NothingIsLost == Spec => []NoOrphan
<1>1. IInv => NoOrphan
  BY DEF IInv
<1> QED BY <1>1, Invariant, PTL

(* The engine never gets a request twice: queue and batches are disjoint.    *)
THEOREM NothingRunsTwice == Spec => []ServedOnce
<1>1. IInv => ServedOnce
  BY DEF IInv
<1> QED BY <1>1, Invariant, PTL

(* "There is at most one live partial per session" (class docstring).        *)
THEOREM AtMostOneLivePartial == Spec => [](LivePartialIsNewest /\ OneLivePartial)
<1>1. IInv => LivePartialIsNewest /\ OneLivePartial
  <2> SUFFICES ASSUME IInv, NEW i \in Jobs, NEW j \in Jobs,
                      Pending(i), Pending(j), IsPartial(i), IsPartial(j),
                      SessionOf(i) = SessionOf(j)
               PROVE  i = j
    BY DEF OneLivePartial, IInv
  <2> QED BY DEF IInv, LivePartialIsNewest
<1> QED BY <1>1, Invariant, PTL

(* A final never fails with StalePartialError.                               *)
THEOREM FinalsStayFresh == Spec => []FinalsAreNeverStale
<1>1. IInv => FinalsAreNeverStale
  BY DEF IInv
<1> QED BY <1>1, Invariant, PTL

(* When close has returned the scheduler holds nothing and nobody waits.     *)
THEOREM CloseLeavesNothing == Spec => []ClosedIsClean
<1>1. IInv => ClosedIsClean
  BY DEF IInv
<1> QED BY <1>1, Invariant, PTL

-----------------------------------------------------------------------------
(* The queue.                                                               *)

(* A set of workers is finite and its size is a natural number.             *)
LEMMA WorkerSetSize ==
  ASSUME NEW S, S \subseteq Workers
  PROVE  IsFiniteSet(S) /\ Cardinality(S) \in Nat
BY SchedulerAssumption, FS_Subset, FS_CardinalityType DEF SchedulerAssumption

(* What is left of a finite set without a part of it.                       *)
LEMMA SizeWithout ==
  ASSUME NEW S, IsFiniteSet(S), NEW T, T \subseteq S
  PROVE  /\ Cardinality(S \ T) = Cardinality(S) - Cardinality(T)
         /\ Cardinality(S) \in Nat /\ Cardinality(T) \in Nat
<1>1. S \cap T = T
  OBVIOUS
<1>2. Cardinality(S \ T) = Cardinality(S) - Cardinality(T)
  BY <1>1, FS_Difference
<1>3. IsFiniteSet(T)
  BY FS_Subset
<1> QED BY <1>2, <1>3, FS_CardinalityType

-----------------------------------------------------------------------------
(* The deque of the condition.                                              *)

(* asyncio takes one waiter off the deque, wherever it stands.               *)
LEMMA Dequeue ==
  ASSUME TypeOK, DequeHoldsSleepers, NEW i \in DOMAIN waiters,
         waiters' \in Seq(Workers), Len(waiters') = Len(waiters) - 1,
         \A k \in 1..Len(waiters') :
           waiters'[k] = waiters[IF k < i THEN k ELSE k + 1]
  PROVE  /\ waiters[i] \in Workers
         /\ \A w \in Workers : w \in Asleep' <=> w \in Asleep /\ w # waiters[i]
         /\ \A k, l \in DOMAIN waiters' : waiters'[k] = waiters'[l] => k = l
         /\ \A w, v \in Workers :
              After(w, v) /\ w # waiters[i] /\ v # waiters[i] => After(w, v)'
<1>1. /\ DOMAIN waiters = 1..Len(waiters) /\ Len(waiters) \in Nat
      /\ DOMAIN waiters' = 1..(Len(waiters) - 1)
      /\ waiters[i] \in Workers
  BY LenProperties, ElementOfSeq DEF TypeOK
<1>2. \A k \in DOMAIN waiters' :
        /\ k \in DOMAIN waiters /\ k + 1 \in DOMAIN waiters
        /\ waiters'[k] = waiters[IF k < i THEN k ELSE k + 1]
  BY <1>1
<1>3. \A k \in DOMAIN waiters : k # i =>
        \E l \in DOMAIN waiters' :
          /\ l = (IF k < i THEN k ELSE k - 1)
          /\ waiters'[l] = waiters[k]
  <2> SUFFICES ASSUME NEW k \in DOMAIN waiters, k # i
               PROVE  \E l \in DOMAIN waiters' :
                        /\ l = (IF k < i THEN k ELSE k - 1)
                        /\ waiters'[l] = waiters[k]
    OBVIOUS
  <2>1. CASE k < i
    BY <1>1, <1>2, <2>1
  <2>2. CASE k > i
    <3>1. k - 1 \in DOMAIN waiters' /\ ~(k - 1 < i) /\ (k - 1) + 1 = k
      BY <1>1, <2>2
    <3> QED BY <1>2, <2>2, <3>1
  <2> QED BY <1>1, <2>1, <2>2
<1>4. \A k, l \in DOMAIN waiters : waiters[k] = waiters[l] => k = l
  BY DEF DequeHoldsSleepers
<1>5. \A w \in Workers : w \in Asleep' <=> w \in Asleep /\ w # waiters[i]
  <2> SUFFICES ASSUME NEW w \in Workers
               PROVE  w \in Asleep' <=> w \in Asleep /\ w # waiters[i]
    OBVIOUS
  <2>1. ASSUME w \in Asleep' PROVE w \in Asleep /\ w # waiters[i]
    <3>1. PICK k \in DOMAIN waiters' : waiters'[k] = w
      BY <2>1 DEF Asleep
    <3>2. /\ w = waiters[IF k < i THEN k ELSE k + 1]
          /\ (IF k < i THEN k ELSE k + 1) \in DOMAIN waiters
          /\ (IF k < i THEN k ELSE k + 1) # i
      BY <1>1, <1>2, <3>1
    <3> QED BY <1>4, <3>2 DEF Asleep
  <2>2. ASSUME w \in Asleep, w # waiters[i] PROVE w \in Asleep'
    <3>1. PICK k \in DOMAIN waiters : waiters[k] = w
      BY <2>2 DEF Asleep
    <3> QED BY <1>3, <2>2, <3>1 DEF Asleep
  <2> QED BY <2>1, <2>2
<1>6. \A k, l \in DOMAIN waiters' : waiters'[k] = waiters'[l] => k = l
  <2> SUFFICES ASSUME NEW k \in DOMAIN waiters', NEW l \in DOMAIN waiters',
                      waiters'[k] = waiters'[l]
               PROVE  k = l
    OBVIOUS
  <2>1. (IF k < i THEN k ELSE k + 1) = (IF l < i THEN l ELSE l + 1)
    BY <1>2, <1>4
  <2> QED BY <1>1, <2>1
<1>7. ASSUME NEW w \in Workers, NEW v \in Workers,
             After(w, v), w # waiters[i], v # waiters[i]
      PROVE  After(w, v)'
  <2>1. PICK k, l \in DOMAIN waiters : k < l /\ waiters[k] = w /\ waiters[l] = v
    BY <1>7 DEF After
  <2>2. k # i /\ l # i
    BY <1>7, <2>1
  <2>3. PICK m \in DOMAIN waiters' :
          m = (IF k < i THEN k ELSE k - 1) /\ waiters'[m] = w
    BY <1>3, <2>1, <2>2
  <2>4. PICK n \in DOMAIN waiters' :
          n = (IF l < i THEN l ELSE l - 1) /\ waiters'[n] = v
    BY <1>3, <2>1, <2>2
  <2>5. m < n
    BY <1>1, <2>1, <2>2, <2>3, <2>4
  <2> QED BY <2>3, <2>4, <2>5 DEF After
<1> QED BY <1>1, <1>5, <1>6, <1>7

(* What notify() does: nothing without waiters; otherwise the oldest waiter  *)
(* is awake, and whoever still sleeps may count on it.                       *)
LEMMA NotifyEffect ==
  ASSUME TypeOK, DequeHoldsSleepers, Notify
  PROVE  /\ DequeHoldsSleepers'
         /\ \A w \in Workers : pc'[w] = "idle" =>
              /\ pc[w] = "idle"
              /\ Helpers(w) \subseteq Helpers(w)'
              /\ \E v \in Workers : v \notin Helpers(w) /\ v \in Helpers(w)'
<1>1. CASE waiters = <<>>
  <2>1. pc' = pc /\ waiters' = waiters
    BY <1>1 DEF Notify
  <2>2. DequeHoldsSleepers'
    BY <2>1 DEF DequeHoldsSleepers, Asleep
  <2>3. Asleep = {}
    BY <1>1 DEF Asleep
  <2> QED BY <2>1, <2>2, <2>3 DEF DequeHoldsSleepers
<1>2. CASE waiters # <<>>
  <2> DEFINE h == waiters[1]
  <2>1. pc' = Wake({h}) /\ waiters' = Tail(waiters)
    BY <1>2 DEF Notify
  <2>2. /\ 1 \in DOMAIN waiters /\ Len(waiters) \in Nat
        /\ DOMAIN waiters = 1..Len(waiters)
    BY <1>2, LenProperties, EmptySeq DEF TypeOK
  <2>3. /\ waiters' \in Seq(Workers) /\ Len(waiters') = Len(waiters) - 1
        /\ \A k \in 1..Len(waiters') : waiters'[k] = waiters[k + 1]
    BY <1>2, <2>1, HeadTailProperties DEF TypeOK
  <2>4. \A k \in 1..Len(waiters') :
          waiters'[k] = waiters[IF k < 1 THEN k ELSE k + 1]
    BY <2>3, <2>2
  <2>5. /\ h \in Workers
        /\ \A w \in Workers : w \in Asleep' <=> w \in Asleep /\ w # h
        /\ \A k, l \in DOMAIN waiters' : waiters'[k] = waiters'[l] => k = l
        /\ \A w, v \in Workers :
             After(w, v) /\ w # h /\ v # h => After(w, v)'
    BY <2>2, <2>3, <2>4, Dequeue
  <2>6. h \in Asleep
    BY <2>2 DEF Asleep
  <2>7. pc[h] \in {"idle", "gather"}
    BY <2>5, <2>6 DEF DequeHoldsSleepers
  <2>8. /\ pc'[h] \in {"check", "pick"}
        /\ \A w \in Workers : w # h => pc'[w] = pc[w]
    BY <2>1, <2>5, <2>7 DEF Wake, TypeOK
  <2>9. DequeHoldsSleepers'
    BY <2>5, <2>8 DEF DequeHoldsSleepers
  <2>10. ASSUME NEW w \in Workers PROVE ~After(w, h)
    <3> SUFFICES ASSUME NEW k \in DOMAIN waiters, NEW l \in DOMAIN waiters,
                        k < l, waiters[l] = h
                 PROVE  FALSE
      BY DEF After
    <3>1. l = 1
      BY <2>2 DEF DequeHoldsSleepers
    <3> QED BY <2>2, <3>1
  <2>11. ASSUME NEW w \in Workers, pc'[w] = "idle"
         PROVE  /\ pc[w] = "idle"
                /\ Helpers(w) \subseteq Helpers(w)'
                /\ h \notin Helpers(w) /\ h \in Helpers(w)'
    <3>1. w # h /\ pc[w] = "idle"
      BY <2>8, <2>11
    <3>2. h \notin Helpers(w) /\ h \in Helpers(w)'
      BY <2>5, <2>7, <2>8, <2>10 DEF Helpers
    <3>3. \A v \in Workers : v # h /\ v \in Helpers(w) => v \in Helpers(w)'
      BY <2>5, <2>8, <3>1 DEF Helpers
    <3>4. Helpers(w) \subseteq Workers
      BY DEF Helpers
    <3> QED BY <3>1, <3>2, <3>3, <3>4
  <2> QED BY <2>5, <2>9, <2>11
<1> QED BY <1>1, <1>2

(* notify_all(): nobody sleeps any more.                                     *)
LEMMA NotifyAllEffect ==
  ASSUME TypeOK, DequeHoldsSleepers, NotifyAll
  PROVE  /\ DequeHoldsSleepers'
         /\ \A w \in Workers : pc'[w] # "idle"
<1>1. waiters' = <<>> /\ pc' = Wake(Asleep)
  BY DEF NotifyAll
<1>2. \A w \in Workers : pc'[w] \notin {"idle", "gather"}
  BY <1>1 DEF Wake, DequeHoldsSleepers, TypeOK
<1> QED BY <1>1, <1>2 DEF DequeHoldsSleepers, Asleep

(* Condition.wait() of a worker that is awake.                                *)
LEMMA SleepEffect ==
  ASSUME TypeOK, DequeHoldsSleepers, NEW w \in Workers,
         pc[w] \notin {"idle", "gather"},
         NEW where \in {"idle", "gather"}, Sleep(w, where)
  PROVE  /\ DequeHoldsSleepers'
         /\ pc'[w] = where /\ \A v \in Workers : v # w => pc'[v] = pc[v]
         /\ \A u, v \in Workers : After(u, v) => After(u, v)'
         /\ \A v \in Asleep : After(v, w)'
<1>1. pc' = [pc EXCEPT ![w] = where] /\ waiters' = Append(waiters, w)
  BY DEF Sleep
<1>2. /\ waiters' \in Seq(Workers) /\ Len(waiters') = Len(waiters) + 1
      /\ \A i \in 1..Len(waiters) : waiters'[i] = waiters[i]
      /\ waiters'[Len(waiters) + 1] = w
  BY <1>1, AppendProperties DEF TypeOK
<1>3. /\ DOMAIN waiters = 1..Len(waiters) /\ Len(waiters) \in Nat
      /\ DOMAIN waiters' = 1..(Len(waiters) + 1)
  BY <1>2, LenProperties DEF TypeOK
<1>4. /\ pc'[w] = where
      /\ \A v \in Workers : v # w => pc'[v] = pc[v]
  BY <1>1 DEF TypeOK
<1>5. w \notin Asleep
  BY DEF DequeHoldsSleepers
<1>6. \A v \in Workers : v \in Asleep' <=> v \in Asleep \/ v = w
  <2> SUFFICES ASSUME NEW v \in Workers
               PROVE  v \in Asleep' <=> v \in Asleep \/ v = w
    OBVIOUS
  <2>1. v \in Asleep' => v \in Asleep \/ v = w
    BY <1>2, <1>3 DEF Asleep
  <2>2. v \in Asleep => v \in Asleep'
    BY <1>2, <1>3 DEF Asleep
  <2>3. w \in Asleep'
    BY <1>2, <1>3 DEF Asleep
  <2> QED BY <2>1, <2>2, <2>3
<1>7. \A i, k \in DOMAIN waiters' : waiters'[i] = waiters'[k] => i = k
  <2>1. \A i \in DOMAIN waiters : waiters[i] # w
    BY <1>5 DEF Asleep
  <2>2. \A i \in DOMAIN waiters' : i \in DOMAIN waiters \/ i = Len(waiters) + 1
    BY <1>3
  <2> QED BY <1>2, <1>3, <2>1, <2>2 DEF DequeHoldsSleepers
<1>8. DequeHoldsSleepers'
  BY <1>4, <1>6, <1>7 DEF DequeHoldsSleepers
<1>9. \A u, v \in Workers : After(u, v) => After(u, v)'
  <2> SUFFICES ASSUME NEW u \in Workers, NEW v \in Workers,
                      NEW i \in DOMAIN waiters, NEW k \in DOMAIN waiters,
                      i < k, waiters[i] = u, waiters[k] = v
               PROVE  After(u, v)'
    BY DEF After
  <2>1. i \in DOMAIN waiters' /\ k \in DOMAIN waiters'
        /\ waiters'[i] = u /\ waiters'[k] = v
    BY <1>2, <1>3
  <2> QED BY <2>1 DEF After
<1>10. \A v \in Asleep : After(v, w)'
  <2> SUFFICES ASSUME NEW v \in Asleep PROVE After(v, w)'
    OBVIOUS
  <2>1. PICK i \in DOMAIN waiters : waiters[i] = v
    BY DEF Asleep
  <2>2. /\ i \in DOMAIN waiters' /\ Len(waiters) + 1 \in DOMAIN waiters'
        /\ i < Len(waiters) + 1
        /\ waiters'[i] = v /\ waiters'[Len(waiters) + 1] = w
    BY <1>2, <1>3, <2>1
  <2> QED BY <2>2 DEF After
<1> QED BY <1>4, <1>8, <1>9, <1>10

-----------------------------------------------------------------------------
(* How the conjuncts fare when a step hardly touches them.                   *)

(* The depth stays right where the queue and its counter are left alone.     *)
LEMMA DepthKept ==
  ASSUME DepthIsExact, TypeOK, heap' \ stale' = heap \ stale, queued' = queued,
         Jobs \subseteq Jobs', \A j \in Jobs : job'[j] = job[j],
         \A j \in Jobs : future[j] = "cancelled" => future'[j] = "cancelled"
  PROVE  DepthIsExact'
BY DEF DepthIsExact, IsPartial

(* Nobody who sleeps loses help, and there is no more to do.                  *)
LEMMA CoverageKept ==
  ASSUME TypeOK, IdleIsCovered, phase' = "up" => phase = "up",
         heap' \ stale' \subseteq heap \ stale,
         \A w \in Workers : pc'[w] = "idle" =>
           pc[w] = "idle" /\ Helpers(w) \subseteq Helpers(w)'
  PROVE  IdleIsCovered'
<1> SUFFICES ASSUME phase' = "up", NEW w \in Workers, pc'[w] = "idle"
             PROVE  Cardinality(heap' \ stale') <= Cardinality(Helpers(w)')
  BY DEF IdleIsCovered
<1>1. /\ IsFiniteSet(heap \ stale) /\ Cardinality(heap \ stale) \in Nat
      /\ Cardinality(heap' \ stale') \in Nat
  BY JobSetSize DEF TypeOK
<1>2. Cardinality(heap' \ stale') <= Cardinality(heap \ stale)
  BY <1>1, FS_Subset
<1>3. Cardinality(heap \ stale) <= Cardinality(Helpers(w))
  BY DEF IdleIsCovered
<1>4. /\ IsFiniteSet(Helpers(w)') /\ Cardinality(Helpers(w)') \in Nat
      /\ Cardinality(Helpers(w)) \in Nat
  BY WorkerSetSize DEF Helpers
<1>5. Cardinality(Helpers(w)) <= Cardinality(Helpers(w)')
  BY <1>4, FS_Subset
<1> QED BY <1>1, <1>2, <1>3, <1>4, <1>5

(* A step that moves no worker.                                               *)
LEMMA WorkersKept ==
  ASSUME TypeOK, pc' = pc, waiters' = waiters
  PROVE  /\ DequeHoldsSleepers => DequeHoldsSleepers'
         /\ \A w \in Workers : Helpers(w)' = Helpers(w)
         /\ IdleIsCovered /\ (phase' = "up" => phase = "up")
              /\ heap' \ stale' \subseteq heap \ stale => IdleIsCovered'
<1>1. DequeHoldsSleepers => DequeHoldsSleepers'
  BY DEF DequeHoldsSleepers, Asleep
<1>2. \A w \in Workers : Helpers(w)' = Helpers(w)
  BY DEF Helpers, After
<1> QED BY <1>1, <1>2, CoverageKept

-----------------------------------------------------------------------------
(* Every step of a caller, one lemma per action.                             *)

LEMMA LeaveQueue ==
  ASSUME IInv, QueueInv, NEW j \in Jobs, Resume(j) \/ Interrupted(j)
  PROVE  QueueInv'
<1>1. /\ UNCHANGED <<phase, sequence, job, future, heap, stale, started, queued,
                     partials, pc, waiters>>
      /\ caller' = [caller EXCEPT ![j] = "returned"]
      /\ TypeOK
  BY DEF Resume, Interrupted, jobVars, workerVars, IInv
<1>2. QueuedIsAwaited'
  BY <1>1 DEF QueueInv, QueuedIsAwaited, Pending, TypeOK
<1>3. NoneUnaccounted' /\ DiscardedEntries'
  BY <1>1 DEF QueueInv, NoneUnaccounted, DiscardedEntries, Jobs
<1>4. DepthIsExact'
  BY <1>1, DepthKept DEF QueueInv, Jobs
<1>5. DequeHoldsSleepers' /\ IdleIsCovered'
  BY <1>1, WorkersKept DEF QueueInv
<1> QED BY <1>2, <1>3, <1>4, <1>5 DEF QueueInv

LEMMA CancelQueue ==
  ASSUME IInv, QueueInv, NEW j \in Jobs, Cancel(j)
  PROVE  QueueInv'
<1>1. /\ UNCHANGED <<phase, sequence, job, heap, stale, started, queued,
                     partials, pc, waiters>>
      /\ caller' = [caller EXCEPT ![j] = "cancelling"]
      /\ TypeOK /\ Jobs' = Jobs
  BY DEF Cancel, jobVars, workerVars, IInv, Jobs
<1>2. \A k \in Jobs :
        future'[k] = IF k = j /\ Pending(k) THEN "cancelled" ELSE future[k]
  BY DEF Cancel, Settle
<1>3. QueuedIsAwaited'
  BY <1>1, <1>2 DEF QueueInv, QueuedIsAwaited, Pending, TypeOK
<1>4. NoneUnaccounted'
  BY <1>1 DEF QueueInv, NoneUnaccounted
<1>5. DiscardedEntries'
  BY <1>1, <1>2 DEF QueueInv, DiscardedEntries, Pending, TypeOK
<1>6. DepthIsExact'
  BY <1>1, <1>2, DepthKept DEF QueueInv, Pending
<1>7. DequeHoldsSleepers' /\ IdleIsCovered'
  BY <1>1, WorkersKept DEF QueueInv
<1> QED BY <1>3, <1>4, <1>5, <1>6, <1>7 DEF QueueInv

(* The slot that the handler of a cancellation gives back was really held.   *)
LEMMA AbandonedIsQueued ==
  ASSUME QueueInv, NEW j \in Jobs
  PROVE  Abandoned(j) \subseteq heap \ stale
BY DEF QueueInv, NoneUnaccounted, Abandoned

LEMMA UnwindQueue ==
  ASSUME IInv, QueueInv, NEW j \in Jobs, Unwind(j)
  PROVE  QueueInv'
<1>1. /\ UNCHANGED <<phase, sequence, job, future, heap, started>>
      /\ caller' = [caller EXCEPT ![j] = "returned"]
      /\ stale' = stale \cup Abandoned(j)
      /\ queued' = queued - Cardinality(Abandoned(j))
      /\ partials' = [s \in Sessions |-> IF partials[s] \in Abandoned(j) THEN NoJob
                                                                ELSE partials[s]]
      /\ NotifyAll
      /\ TypeOK /\ Jobs' = Jobs
  BY DEF Unwind, jobVars, IInv, Jobs
<1>2. Abandoned(j) \subseteq heap \ stale /\ Abandoned(j) \subseteq {j}
  BY AbandonedIsQueued DEF Abandoned
<1>3. QueuedIsAwaited'
  BY <1>1 DEF QueueInv, QueuedIsAwaited, Pending, TypeOK
<1>4. NoneUnaccounted'
  BY <1>1 DEF QueueInv, NoneUnaccounted
<1>5. DiscardedEntries'
  BY <1>1, <1>2 DEF QueueInv, DiscardedEntries, Jobs, NoJob, TypeOK
<1>6. DepthIsExact'
  <2>1. heap' \ stale' = (heap \ stale) \ Abandoned(j)
    BY <1>1
  <2>2. IsFiniteSet(heap \ stale) /\ Cardinality(heap \ stale) \in Nat
    BY <1>1, JobSetSize DEF TypeOK
  <2>3. (heap \ stale) \cap Abandoned(j) = Abandoned(j)
    BY <1>2
  <2>4. Cardinality(heap' \ stale') = Cardinality(heap \ stale)
                                     - Cardinality(Abandoned(j))
    BY <2>1, <2>2, <2>3, FS_Difference
  <2>5. Cardinality(Abandoned(j)) \in Nat
    BY <1>1, JobSetSize DEF Abandoned
  <2>6. queued \in Int /\ MaxQueue \in Nat
    BY <1>1, SchedulerAssumption DEF TypeOK, SchedulerAssumption
  <2>7. queued' <= Cardinality(heap' \ stale')
    BY <1>1, <2>2, <2>4, <2>5, <2>6 DEF QueueInv, DepthIsExact
  <2>8. ASSUME \A k \in Jobs : IsPartial(k) => future[k] # "cancelled"
        PROVE  queued' = Cardinality(heap' \ stale') /\ queued' <= MaxQueue
    BY <1>1, <2>2, <2>4, <2>5, <2>6, <2>8 DEF QueueInv, DepthIsExact
  <2> QED BY <1>1, <2>7, <2>8 DEF DepthIsExact, IsPartial
<1>7. DequeHoldsSleepers' /\ IdleIsCovered'
  BY <1>1, NotifyAllEffect DEF QueueInv, IdleIsCovered
<1> QED BY <1>3, <1>4, <1>5, <1>6, <1>7 DEF QueueInv

-----------------------------------------------------------------------------
(* Submission.                                                               *)

(* Taking the session's partial out of the depth: one slot if it held one,   *)
(* and no slot is counted that it did not hold, unless it was cancelled.     *)
LEMMA DepthWithoutPartial ==
  ASSUME IInv, QueueInv, phase = "up", NEW s \in Sessions
  PROVE  /\ DepthWithout(s) \in Int
         /\ DepthWithout(s) <= queued
         /\ DepthWithout(s) <= Cardinality((heap \ stale) \ Superseded(s))
         /\ (\A j \in Jobs : IsPartial(j) => future[j] # "cancelled") =>
              DepthWithout(s) = Cardinality((heap \ stale) \ Superseded(s))
<1> DEFINE out == Superseded(s) \ started
           live == heap \ stale
<1>1. /\ TypeOK /\ queued \in Int /\ Superseded(s) \subseteq Jobs
      /\ IsFiniteSet(live) /\ Cardinality(live) \in Nat
      /\ Cardinality(out) \in Nat /\ IsFiniteSet(out)
      /\ Cardinality(live \cap Superseded(s)) \in Nat
  BY JobSetSize DEF IInv, TypeOK, Superseded
<1>2. Cardinality(live \ Superseded(s)) =
        Cardinality(live) - Cardinality(live \cap Superseded(s))
  BY <1>1, FS_Difference
<1>3. live \cap Superseded(s) \subseteq out
  BY DEF IInv, ServedOnce
<1>4. Cardinality(live \cap Superseded(s)) <= Cardinality(out)
  BY <1>1, <1>3, FS_Subset
<1>5. DepthWithout(s) = queued - Cardinality(out)
  BY DEF DepthWithout
<1>6. queued <= Cardinality(live)
  BY DEF QueueInv, DepthIsExact
<1>7. ASSUME \A j \in Jobs : IsPartial(j) => future[j] # "cancelled"
      PROVE  DepthWithout(s) = Cardinality(live \ Superseded(s))
  <2>1. out \subseteq live
    <3> SUFFICES ASSUME NEW p \in out PROVE p \in live
      OBVIOUS
    <3>1. p = partials[s] /\ p \in Jobs /\ p # NoJob /\ p \notin started
      BY <1>1 DEF Superseded
    <3>2. IsPartial(p) /\ future[p] # "cancelled"
      BY <1>7, <3>1 DEF IInv, PartialEntries
    <3>3. p \notin stale
      BY <3>1, <3>2 DEF QueueInv, DiscardedEntries
    <3> QED BY <3>1, <3>3 DEF QueueInv, NoneUnaccounted
  <2>2. live \cap Superseded(s) = out
    BY <1>3, <2>1
  <2>3. queued = Cardinality(live)
    BY <1>7 DEF QueueInv, DepthIsExact
  <2> QED BY <1>2, <1>5, <2>2, <2>3
<1>8. /\ DepthWithout(s) \in Int /\ DepthWithout(s) <= queued
      /\ DepthWithout(s) <= Cardinality(live \ Superseded(s))
  BY <1>1, <1>2, <1>4, <1>5, <1>6
<1> QED BY <1>7, <1>8

(* An accepted submission, of either kind.                                   *)
LEMMA EnqueueQueue ==
  ASSUME IInv, QueueInv, NEW s \in Sessions, NEW kind \in Kinds, NEW gen, NEW shape,
         phase = "up", Enqueue(s, kind, gen, shape),
         partials' = [partials EXCEPT
                        ![s] = IF kind = "partial" THEN NextSequence ELSE NoJob]
  PROVE  QueueInv'
<1> DEFINE live == heap \ stale
<1>1. /\ TypeOK /\ phase' = phase /\ started' = started
      /\ heap' = heap \cup {NextSequence}
      /\ stale' = stale \cup Superseded(s)
      /\ queued' = DepthWithout(s) + 1 /\ DepthWithout(s) < MaxQueue
      /\ Notify
  BY DEF Enqueue, IInv
<1>2. /\ Jobs' = Jobs \cup {NextSequence} /\ NextSequence \notin Jobs
      /\ NextSequence # NoJob
      /\ \A k \in Jobs : job'[k] = job[k] /\ caller'[k] = caller[k]
      /\ \A k \in Jobs :
           future'[k] = IF k \in Superseded(s) /\ Pending(k) THEN "stale" ELSE future[k]
      /\ future'[NextSequence] = "pending"
  BY <1>1, EnqueueEffect
<1>3. /\ Superseded(s) \subseteq Jobs /\ stale \subseteq Jobs /\ heap \subseteq Jobs
      /\ NoJob \notin Jobs
  BY <1>1 DEF Superseded, TypeOK, Jobs, NoJob
<1>4. heap' \ stale' = (live \ Superseded(s)) \cup {NextSequence}
      /\ NextSequence \notin live \ Superseded(s)
  BY <1>1, <1>2, <1>3
<1>5. QueuedIsAwaited'
  BY <1>2, <1>3, <1>4 DEF QueueInv, QueuedIsAwaited, Pending
<1>6. NoneUnaccounted'
  BY <1>1, <1>2 DEF QueueInv, NoneUnaccounted
<1>7. DiscardedEntries'
  <2> SUFFICES ASSUME NEW t \in Sessions, partials'[t] \in stale'
               PROVE  future'[partials'[t]] = "cancelled"
    BY DEF DiscardedEntries
  <2>1. t # s
    BY <1>1, <1>2, <1>3 DEF TypeOK
  <2>2. partials'[t] = partials[t] /\ partials[t] \in Jobs /\ partials[t] # NoJob
    BY <1>1, <1>3, <2>1 DEF TypeOK
  <2>3. partials[t] \notin Superseded(s)
    BY <2>1, <2>2 DEF Superseded, IInv, PartialEntries
  <2>4. future[partials[t]] = "cancelled"
    BY <1>1, <2>2, <2>3 DEF QueueInv, DiscardedEntries
  <2> QED BY <1>2, <2>2, <2>3, <2>4
<1>8. /\ IsFiniteSet(live \ Superseded(s))
      /\ Cardinality(live \ Superseded(s)) \in Nat
      /\ IsFiniteSet(live) /\ Cardinality(live) \in Nat
  BY <1>1, <1>3, JobSetSize
<1>9. Cardinality(heap' \ stale') = Cardinality(live \ Superseded(s)) + 1
  BY <1>4, <1>8, FS_AddElement
<1>10. DepthIsExact'
  <2>1. MaxQueue \in Nat
    BY SchedulerAssumption DEF SchedulerAssumption
  <2>2. queued' <= Cardinality(heap' \ stale')
    BY <1>1, <1>8, <1>9, DepthWithoutPartial
  <2>3. ASSUME \A j \in Jobs' : (job'[j].kind = "partial") => future'[j] # "cancelled"
        PROVE  queued' = Cardinality(heap' \ stale') /\ queued' <= MaxQueue
    <3>1. \A j \in Jobs : IsPartial(j) => future[j] # "cancelled"
      BY <1>2, <2>3 DEF IsPartial, Pending
    <3>2. DepthWithout(s) = Cardinality(live \ Superseded(s)) /\ DepthWithout(s) \in Int
      BY <3>1, DepthWithoutPartial
    <3> QED BY <1>1, <1>8, <1>9, <2>1, <3>2
  <2> QED BY <2>2, <2>3 DEF DepthIsExact, IsPartial
<1>11. DequeHoldsSleepers'
  BY <1>1, NotifyEffect DEF QueueInv
<1>12. IdleIsCovered'
  <2> SUFFICES ASSUME NEW w \in Workers, pc'[w] = "idle"
               PROVE  Cardinality(heap' \ stale') <= Cardinality(Helpers(w)')
    BY DEF IdleIsCovered
  <2>1. PICK v \in Workers : v \notin Helpers(w) /\ v \in Helpers(w)'
    BY <1>1, NotifyEffect DEF QueueInv
  <2>2. pc[w] = "idle" /\ Helpers(w) \cup {v} \subseteq Helpers(w)'
    BY <1>1, <2>1, NotifyEffect DEF QueueInv
  <2>3. /\ IsFiniteSet(Helpers(w)) /\ Cardinality(Helpers(w)) \in Nat
        /\ IsFiniteSet(Helpers(w)') /\ Cardinality(Helpers(w)') \in Nat
    BY WorkerSetSize DEF Helpers
  <2>4. Cardinality(Helpers(w)) + 1 <= Cardinality(Helpers(w)')
    <3>1. Cardinality(Helpers(w) \cup {v}) = Cardinality(Helpers(w)) + 1
      BY <2>1, <2>3, FS_AddElement
    <3>2. Cardinality(Helpers(w) \cup {v}) <= Cardinality(Helpers(w)')
      BY <2>2, <2>3, FS_Subset
    <3> QED BY <3>1, <3>2
  <2>5. Cardinality(live \ Superseded(s)) <= Cardinality(live)
    BY <1>8, FS_Subset
  <2>6. Cardinality(live) <= Cardinality(Helpers(w))
    BY <2>2 DEF QueueInv, IdleIsCovered
  <2> QED BY <1>8, <1>9, <2>3, <2>4, <2>5, <2>6
<1> QED BY <1>5, <1>6, <1>7, <1>10, <1>11, <1>12 DEF QueueInv

LEMMA SubmitQueue == ASSUME IInv, QueueInv, Submit PROVE QueueInv'
<1>1. ASSUME NEW s \in Sessions, NEW shape \in Shapes, SubmitFinal(s, shape)
      PROVE  QueueInv'
  BY <1>1, EnqueueQueue DEF SubmitFinal, Kinds
<1>2. ASSUME NEW s \in Sessions, NEW shape \in Shapes, SubmitPartial(s, shape)
      PROVE  QueueInv'
  BY <1>2, EnqueueQueue DEF SubmitPartial, Kinds
<1>3. ASSUME NEW s \in Sessions, SubmitFinalBusy(s)
      PROVE  QueueInv'
  <2>1. /\ TypeOK /\ phase = "up" /\ Jobs' = Jobs
        /\ UNCHANGED <<phase, sequence, job, caller, heap, started, pc, waiters>>
        /\ stale' = stale \cup Superseded(s)
        /\ queued' = DepthWithout(s)
        /\ partials' = [partials EXCEPT ![s] = NoJob]
    BY <1>3 DEF SubmitFinalBusy, jobVars, workerVars, IInv, Jobs
  <2>2. \A k \in Jobs :
          future'[k] = IF k \in Superseded(s) /\ Pending(k) THEN "stale" ELSE future[k]
    BY <1>3 DEF SubmitFinalBusy, Settle
  <2>3. stale \subseteq Jobs /\ Superseded(s) \subseteq Jobs /\ NoJob \notin Jobs
        /\ heap \subseteq Jobs
    BY <2>1 DEF TypeOK, Superseded, Jobs, NoJob
  <2>4. QueuedIsAwaited'
    BY <2>1, <2>2, <2>3 DEF QueueInv, QueuedIsAwaited, Pending
  <2>5. NoneUnaccounted'
    BY <2>1 DEF QueueInv, NoneUnaccounted
  <2>6. DiscardedEntries'
    <3> SUFFICES ASSUME NEW t \in Sessions, partials'[t] \in stale'
                 PROVE  future'[partials'[t]] = "cancelled"
      BY DEF DiscardedEntries
    <3>1. t # s
      BY <2>1, <2>3 DEF TypeOK
    <3>2. partials'[t] = partials[t] /\ partials[t] \in Jobs /\ partials[t] # NoJob
      BY <2>1, <2>3, <3>1 DEF TypeOK
    <3>3. partials[t] \notin Superseded(s)
      BY <3>1, <3>2 DEF Superseded, IInv, PartialEntries
    <3>4. future[partials[t]] = "cancelled"
      BY <2>1, <3>2, <3>3 DEF QueueInv, DiscardedEntries
    <3> QED BY <2>2, <3>2, <3>3, <3>4
  <2>7. heap' \ stale' = (heap \ stale) \ Superseded(s)
    BY <2>1
  <2>8. DepthIsExact'
    <3>1. queued' <= Cardinality(heap' \ stale')
      BY <2>1, <2>7, DepthWithoutPartial
    <3>2. ASSUME \A j \in Jobs : IsPartial(j) => future'[j] # "cancelled"
          PROVE  queued' = Cardinality(heap' \ stale') /\ queued' <= MaxQueue
      <4>1. \A j \in Jobs : IsPartial(j) => future[j] # "cancelled"
        BY <2>2, <3>2 DEF Pending
      <4>2. queued' = Cardinality(heap' \ stale') /\ queued' <= queued
        BY <2>1, <2>7, <4>1, DepthWithoutPartial
      <4>3. queued <= MaxQueue /\ queued \in Int /\ MaxQueue \in Int
        BY <2>1, <4>1, SchedulerAssumption
        DEF QueueInv, DepthIsExact, TypeOK, SchedulerAssumption
      <4>4. DepthWithout(s) \in Int
        BY <2>1, DepthType
      <4> QED BY <2>1, <4>2, <4>3, <4>4
    <3> QED BY <2>1, <3>1, <3>2 DEF DepthIsExact, IsPartial
  <2>9. DequeHoldsSleepers' /\ IdleIsCovered'
    BY <2>1, <2>7, WorkersKept DEF QueueInv
  <2> QED BY <2>4, <2>5, <2>6, <2>8, <2>9 DEF QueueInv
<1> QED BY <1>1, <1>2, <1>3 DEF Submit

-----------------------------------------------------------------------------
(* Workers.                                                                  *)

(* What holds of the jobs while a worker only moves in the deque.            *)
LEMMA JobsKept ==
  ASSUME IInv, QueueInv,
         UNCHANGED <<phase, sequence, job, future, caller, heap, stale, started,
                     queued, partials>>
  PROVE  QueuedIsAwaited' /\ NoneUnaccounted' /\ DiscardedEntries' /\ DepthIsExact'
<1>1. DepthIsExact'
  BY DepthKept DEF IInv, QueueInv, Jobs
<1> QED
  BY <1>1 DEF QueueInv, QueuedIsAwaited, NoneUnaccounted, DiscardedEntries, Pending, Jobs

(* A worker that leaves, when the scheduler is closing.                      *)
LEMMA ExitKeepsDeque ==
  ASSUME TypeOK, DequeHoldsSleepers, NEW w \in Workers,
         NEW to \in {"exited", "run", "check"},
         pc[w] \notin {"idle", "gather"}, pc' = [pc EXCEPT ![w] = to],
         waiters' = waiters
  PROVE  DequeHoldsSleepers'
BY DEF TypeOK, DequeHoldsSleepers, Asleep

LEMMA EmptyIsCovered == ASSUME heap' = {} PROVE IdleIsCovered'
<1> SUFFICES ASSUME NEW w \in Workers
             PROVE  Cardinality(heap' \ stale') <= Cardinality(Helpers(w)')
  BY DEF IdleIsCovered
<1>1. heap' \ stale' = {} /\ Cardinality({}) = 0
  BY FS_EmptySet
<1>2. Cardinality(Helpers(w)') \in Nat
  BY WorkerSetSize DEF Helpers
<1> QED BY <1>1, <1>2

LEMMA CheckQueueQueue ==
  ASSUME IInv, QueueInv, NEW w \in Workers, CheckQueue(w)
  PROVE  QueueInv'
<1>1. /\ UNCHANGED <<phase, sequence, job, future, caller, heap, stale, started,
                     queued, partials>>
      /\ pc[w] = "check" /\ TypeOK /\ DequeHoldsSleepers
  BY DEF CheckQueue, jobVars, IInv, QueueInv
<1>2. CASE phase # "up"
  <2>1. pc' = [pc EXCEPT ![w] = "exited"] /\ waiters' = waiters
    BY <1>2 DEF CheckQueue
  <2>2. DequeHoldsSleepers'
    BY <1>1, <2>1, ExitKeepsDeque
  <2>3. IdleIsCovered'
    BY <1>1, <1>2 DEF IdleIsCovered
  <2> QED BY <1>1, <2>2, <2>3, JobsKept DEF QueueInv
<1>3. CASE phase = "up" /\ heap = {}
  <2>1. Sleep(w, "idle")
    BY <1>3 DEF CheckQueue
  <2>2. DequeHoldsSleepers'
    BY <1>1, <2>1, SleepEffect
  <2>3. IdleIsCovered'
    BY <1>1, <1>3, EmptyIsCovered
  <2> QED BY <1>1, <2>2, <2>3, JobsKept DEF QueueInv
<1>4. CASE phase = "up" /\ heap # {}
  <2>1. Sleep(w, "gather")
    BY <1>4 DEF CheckQueue
  <2>2. /\ DequeHoldsSleepers'
        /\ pc'[w] = "gather" /\ \A v \in Workers : v # w => pc'[v] = pc[v]
        /\ \A u, v \in Workers : After(u, v) => After(u, v)'
        /\ \A v \in Asleep : After(v, w)'
    BY <1>1, <2>1, SleepEffect
  <2>3. ASSUME NEW u \in Workers, pc'[u] = "idle"
        PROVE  pc[u] = "idle" /\ Helpers(u) \subseteq Helpers(u)'
    <3>1. u # w /\ pc[u] = "idle" /\ u \in Asleep
      BY <1>1, <2>2, <2>3 DEF DequeHoldsSleepers
    <3>2. w \in Helpers(u)'
      BY <2>2, <3>1 DEF Helpers
    <3>3. \A v \in Workers : v # w /\ v \in Helpers(u) => v \in Helpers(u)'
      BY <2>2 DEF Helpers
    <3> QED BY <3>1, <3>2, <3>3 DEF Helpers
  <2>4. IdleIsCovered'
    BY <1>1, <2>3, CoverageKept DEF QueueInv
  <2> QED BY <1>1, <2>2, <2>4, JobsKept DEF QueueInv
<1> QED BY <1>2, <1>3, <1>4

LEMMA BatchWaitElapsesQueue ==
  ASSUME IInv, QueueInv, NEW w \in Workers, BatchWaitElapses(w)
  PROVE  QueueInv'
<1>1. /\ UNCHANGED <<phase, sequence, job, future, caller, heap, stale, started,
                     queued, partials>>
      /\ pc[w] = "gather" /\ pc' = [pc EXCEPT ![w] = "pick"]
      /\ TypeOK /\ DequeHoldsSleepers
  BY DEF BatchWaitElapses, jobVars, IInv, QueueInv
<1>2. PICK i \in DOMAIN waiters : waiters[i] = w /\ waiters' = RemoveAt(waiters, i)
  BY DEF BatchWaitElapses
<1>3. /\ waiters' \in Seq(Workers) /\ Len(waiters') = Len(waiters) - 1
      /\ \A k \in 1..Len(waiters') :
           waiters'[k] = waiters[IF k < i THEN k ELSE k + 1]
  <2> DEFINE front == SubSeq(waiters, 1, i - 1)
             rear  == SubSeq(waiters, i + 1, Len(waiters))
  <2>1. waiters \in Seq(Workers) /\ i \in 1..Len(waiters) /\ Len(waiters) \in Nat
    BY <1>1, LenProperties DEF TypeOK
  <2>2. \A k \in 1..Len(waiters) : waiters[k] \in Workers
    BY <2>1, ElementOfSeq
  <2>3. /\ front \in Seq(Workers) /\ Len(front) = i - 1
        /\ \A k \in 1..(i - 1) : front[k] = waiters[k]
    BY <2>1, <2>2, SubSeqProperties
  <2>4. /\ rear \in Seq(Workers) /\ Len(rear) = Len(waiters) - i
        /\ \A k \in 1..(Len(waiters) - i) : rear[k] = waiters[k + i]
    BY <2>1, <2>2, SubSeqProperties
  <2>5. waiters' = front \o rear
    BY <1>2 DEF RemoveAt
  <2> HIDE DEF front, rear
  <2>6. /\ waiters' \in Seq(Workers) /\ Len(waiters') = Len(front) + Len(rear)
        /\ \A k \in 1..(Len(front) + Len(rear)) :
             waiters'[k] = IF k <= Len(front) THEN front[k] ELSE rear[k - Len(front)]
    BY <2>3, <2>4, <2>5, ConcatProperties
  <2>7. Len(front) + Len(rear) = Len(waiters) - 1
    BY <2>1, <2>3, <2>4
  <2>8. ASSUME NEW k \in 1..Len(waiters')
        PROVE  waiters'[k] = waiters[IF k < i THEN k ELSE k + 1]
    <3>1. k \in 1..(Len(waiters) - 1) /\ k \in Int /\ i \in Int
      BY <2>1, <2>6, <2>7
    <3>2. CASE k < i
      BY <2>1, <2>3, <2>6, <3>1, <3>2
    <3>3. CASE ~(k < i)
      <4>1. k - Len(front) \in 1..(Len(waiters) - i)
        BY <2>1, <2>3, <3>1, <3>3
      <4>2. (k - Len(front)) + i = k + 1 /\ ~(k <= Len(front))
        BY <2>1, <2>3, <3>1, <3>3
      <4>3. waiters'[k] = rear[k - Len(front)]
        BY <2>6, <4>2
      <4> QED BY <2>4, <3>3, <4>1, <4>2, <4>3
    <3> QED BY <3>2, <3>3
  <2> QED BY <2>6, <2>7, <2>8
<1>4. /\ \A v \in Workers : v \in Asleep' <=> v \in Asleep /\ v # w
      /\ \A k, l \in DOMAIN waiters' : waiters'[k] = waiters'[l] => k = l
      /\ \A u, v \in Workers : After(u, v) /\ u # w /\ v # w => After(u, v)'
  BY <1>1, <1>2, <1>3, Dequeue
<1>5. pc'[w] = "pick" /\ \A v \in Workers : v # w => pc'[v] = pc[v]
  BY <1>1 DEF TypeOK
<1>6. DequeHoldsSleepers'
  BY <1>1, <1>4, <1>5 DEF DequeHoldsSleepers
<1>7. ASSUME NEW u \in Workers, pc'[u] = "idle"
      PROVE  pc[u] = "idle" /\ Helpers(u) \subseteq Helpers(u)'
  <2>1. u # w /\ pc[u] = "idle"
    BY <1>5, <1>7
  <2>2. w \in Helpers(u)'
    BY <1>5 DEF Helpers
  <2>3. \A v \in Workers : v # w /\ v \in Helpers(u) => v \in Helpers(u)'
    BY <1>4, <1>5, <2>1 DEF Helpers
  <2> QED BY <2>1, <2>2, <2>3 DEF Helpers
<1>8. IdleIsCovered'
  BY <1>1, <1>7, CoverageKept DEF QueueInv
<1> QED BY <1>1, <1>6, <1>8, JobsKept DEF QueueInv

(* What the scan leaves: the live jobs are the waiting ones, and what it      *)
(* discards is what still held a slot, or was discarded before.               *)
LEMMA LiveIsWaiting ==
  ASSUME IInv, QueueInv
  PROVE  /\ \A j \in heap : j \in Live <=> Pending(j)
         /\ heap \ stale = Counted \cup Live /\ Counted \cap Live = {}
         /\ Live \cap (stale \cup Dead) = {} /\ Live \subseteq heap
         /\ \A j \in Dead \ stale : future[j] = "cancelled"
<1>1. \A j \in heap : j \in Live <=> Pending(j)
  BY DEF IInv, StaleIsSettled, QueueInv, QueuedIsAwaited, Live, Dead, Pending
<1> QED BY <1>1 DEF Live, Dead, Counted

(* The conjuncts about the jobs, after a scan that keeps the jobs `kept` in   *)
(* the queue and hands those of b to a worker.                                *)
LEMMA ScanQueue ==
  ASSUME IInv, QueueInv, Scan, NEW b, b \subseteq Live,
         heap' = Live \ b, started' = started \cup b,
         queued' = queued - Cardinality(Counted) - Cardinality(b)
  PROVE  /\ heap' \ stale' = Live \ b
         /\ QueuedIsAwaited' /\ NoneUnaccounted' /\ DiscardedEntries' /\ DepthIsExact'
<1>1. /\ UNCHANGED <<phase, sequence, job, future, caller, partials>>
      /\ stale' = stale \cup Dead
      /\ TypeOK /\ Jobs' = Jobs
  BY DEF Scan, jobVars, IInv, Jobs
<1>2. heap' \ stale' = Live \ b
  BY <1>1, LiveIsWaiting
<1>3. QueuedIsAwaited'
  <2>1. \A j \in Live : Pending(j)
    BY LiveIsWaiting
  <2> QED BY <1>1, <1>2, <2>1 DEF QueuedIsAwaited, Pending
<1>4. NoneUnaccounted'
  BY <1>1 DEF QueueInv, NoneUnaccounted, Live
<1>5. DiscardedEntries'
  BY <1>1, LiveIsWaiting DEF QueueInv, DiscardedEntries
<1>6. IsFiniteSet(heap \ stale)
  BY <1>1, JobSetSize DEF TypeOK
<1>7. Counted \subseteq heap \ stale /\ (heap \ stale) \ Counted = Live
  BY LiveIsWaiting
<1>8. IsFiniteSet(Live)
  BY <1>6, <1>7, FS_Difference
<1> DEFINE size == Cardinality(heap \ stale)
           out  == Cardinality(Counted) + Cardinality(b)
<1>9. /\ Cardinality(heap' \ stale') = size - out
      /\ queued' = queued - out
      /\ size \in Nat /\ out \in Nat /\ queued \in Int /\ MaxQueue \in Nat
  <2>1. /\ Cardinality(Live) = size - Cardinality(Counted)
        /\ size \in Nat /\ Cardinality(Counted) \in Nat
    BY <1>6, <1>7, SizeWithout
  <2>2. /\ Cardinality(Live \ b) = Cardinality(Live) - Cardinality(b)
        /\ Cardinality(b) \in Nat
    BY <1>8, SizeWithout
  <2>3. queued \in Int /\ MaxQueue \in Nat
    BY <1>1, SchedulerAssumption DEF TypeOK, SchedulerAssumption
  <2>4. queued' = queued - Cardinality(Counted) - Cardinality(b)
    OBVIOUS
  <2>5. Cardinality(heap' \ stale') = Cardinality(Live \ b)
    BY <1>2
  <2> DEFINE left == Cardinality(Live)
             c    == Cardinality(Counted)
             d    == Cardinality(b)
  <2>6. /\ left = size - c /\ size \in Nat /\ c \in Nat
        /\ Cardinality(heap' \ stale') = left - d /\ d \in Nat
        /\ queued' = queued - c - d /\ out = c + d
    BY <2>1, <2>2, <2>4, <2>5
  <2> HIDE DEF left, c, d, size, out
  <2> QED BY <2>3, <2>6
<1>10. /\ queued <= size
       /\ (\A j \in Jobs : IsPartial(j) => future[j] # "cancelled") =>
            queued = size /\ queued <= MaxQueue
  BY DEF QueueInv, DepthIsExact
<1> HIDE DEF size, out
<1>11. DepthIsExact'
  <2>1. queued' <= Cardinality(heap' \ stale')
    BY <1>9, <1>10
  <2>2. ASSUME \A j \in Jobs : IsPartial(j) => future[j] # "cancelled"
        PROVE  queued' = Cardinality(heap' \ stale') /\ queued' <= MaxQueue
    <3>1. queued = size /\ queued <= MaxQueue
      BY <1>10, <2>2
    <3> QED BY <1>9, <3>1
  <2> QED BY <1>1, <2>1, <2>2 DEF DepthIsExact, IsPartial
<1> QED BY <1>2, <1>3, <1>4, <1>5, <1>11

LEMMA PickBatchQueue ==
  ASSUME IInv, QueueInv, NEW w \in Workers, PickBatch(w)
  PROVE  QueueInv'
<1>1. PICK b \in SUBSET Live :
        /\ IsBatch(b)
        /\ heap' = Live \ b
        /\ started' = started \cup b
        /\ queued' = queued - Cardinality(Counted) - Cardinality(b)
  BY DEF PickBatch, Retained
<1>2. /\ Scan /\ phase' = phase /\ waiters' = waiters
      /\ pc[w] = "pick" /\ pc' = [pc EXCEPT ![w] = "run"]
      /\ TypeOK
  BY DEF PickBatch, Scan, IInv
<1>3. /\ heap' \ stale' = Live \ b
      /\ QueuedIsAwaited' /\ NoneUnaccounted' /\ DiscardedEntries' /\ DepthIsExact'
  BY <1>1, <1>2, ScanQueue
<1>4. DequeHoldsSleepers'
  BY <1>2, ExitKeepsDeque DEF QueueInv
<1>5. IdleIsCovered'
  <2> SUFFICES ASSUME phase = "up", NEW u \in Workers, pc'[u] = "idle"
               PROVE  Cardinality(heap' \ stale') <= Cardinality(Helpers(u)')
    BY <1>2 DEF IdleIsCovered
  <2>1. PICK first \in Live : first \in b
    BY <1>1 DEF IsBatch
  <2>2. heap' \ stale' \subseteq (heap \ stale) \ {first} /\ first \in heap \ stale
    BY <1>3, <2>1, LiveIsWaiting
  <2>3. IsFiniteSet(heap \ stale) /\ Cardinality(heap \ stale) \in Nat
    BY <1>2, JobSetSize DEF TypeOK
  <2>4. Cardinality(heap' \ stale') <= Cardinality(heap \ stale) - 1
    <3>1. /\ IsFiniteSet((heap \ stale) \ {first})
          /\ Cardinality((heap \ stale) \ {first}) = Cardinality(heap \ stale) - 1
      <4>1. first \in heap \ stale /\ IsFiniteSet(heap \ stale)
        BY <2>2, <2>3
      <4> QED BY <4>1, FS_RemoveElement, Zenon
    <3>2. Cardinality(heap' \ stale') <= Cardinality((heap \ stale) \ {first})
      BY <2>2, <3>1, FS_Subset
    <3> QED BY <3>1, <3>2
  <2>5. pc[u] = "idle" /\ u # w
    BY <1>2 DEF TypeOK
  <2>6. w \in Helpers(u) /\ Helpers(u) \ {w} \subseteq Helpers(u)'
    BY <1>2 DEF Helpers, After, TypeOK
  <2>7. /\ IsFiniteSet(Helpers(u)) /\ Cardinality(Helpers(u)) \in Nat
        /\ IsFiniteSet(Helpers(u)') /\ Cardinality(Helpers(u)') \in Nat
    BY WorkerSetSize DEF Helpers
  <2>8. Cardinality(Helpers(u)) - 1 <= Cardinality(Helpers(u)')
    <3>1. Cardinality(Helpers(u) \ {w}) = Cardinality(Helpers(u)) - 1
      BY <2>6, <2>7, FS_RemoveElement
    <3>2. Cardinality(Helpers(u) \ {w}) <= Cardinality(Helpers(u)')
      BY <2>6, <2>7, FS_Subset
    <3> QED BY <3>1, <3>2
  <2>9. Cardinality(heap \ stale) <= Cardinality(Helpers(u))
    BY <2>5 DEF QueueInv, IdleIsCovered
  <2>10. Cardinality(heap' \ stale') \in Nat
    BY <1>2, <1>3, JobSetSize DEF TypeOK, Live
  <2> QED BY <2>3, <2>4, <2>7, <2>8, <2>9, <2>10
<1> QED BY <1>3, <1>4, <1>5 DEF QueueInv

LEMMA PickNothingQueue ==
  ASSUME IInv, QueueInv, NEW w \in Workers, PickNothing(w)
  PROVE  QueueInv'
<1>1. /\ Scan /\ started' = started
      /\ Live = {} /\ heap' = {}
      /\ queued' = queued - Cardinality(Counted)
      /\ pc[w] = "pick" /\ phase' = phase
      /\ TypeOK /\ DequeHoldsSleepers
  BY DEF PickNothing, Scan, IInv, QueueInv
<1>2. QueuedIsAwaited' /\ NoneUnaccounted' /\ DiscardedEntries' /\ DepthIsExact'
  <2>1. Cardinality(Counted) \in Nat /\ queued \in Int
    BY <1>1, JobSetSize DEF TypeOK, Counted, Dead
  <2>2. queued' = queued - Cardinality(Counted) - Cardinality({})
    BY <1>1, <2>1, FS_EmptySet
  <2>3. {} \subseteq Live /\ heap' = Live \ {} /\ started' = started \cup {}
    BY <1>1
  <2> QED BY <1>1, <2>2, <2>3, ScanQueue
<1>3. DequeHoldsSleepers'
  <2>1. CASE Sleep(w, "idle")
    BY <1>1, <2>1, SleepEffect
  <2>2. CASE pc' = [pc EXCEPT ![w] = "exited"] /\ waiters' = waiters
    BY <1>1, <2>2, ExitKeepsDeque
  <2> QED BY <2>1, <2>2 DEF PickNothing
<1>4. IdleIsCovered'
  BY <1>1, EmptyIsCovered
<1> QED BY <1>2, <1>3, <1>4 DEF QueueInv

LEMMA FinishBatchQueue ==
  ASSUME IInv, QueueInv, NEW w \in Workers, FinishBatch(w)
  PROVE  QueueInv'
<1>1. /\ UNCHANGED <<phase, sequence, job, caller, heap, stale, started, queued,
                     waiters>>
      /\ pc[w] = "run" /\ pc' = [pc EXCEPT ![w] = "check"]
      /\ TypeOK /\ Jobs' = Jobs
  BY DEF FinishBatch, jobVars, IInv, Jobs
<1>2. \A j \in Jobs :
        /\ future[j] # "pending" => future'[j] = future[j]
        /\ j \notin batch[w] => future'[j] = future[j]
  BY DEF FinishBatch, Pending
<1>3. \A s \in Sessions : partials'[s] \in {partials[s], NoJob}
  BY DEF FinishBatch
<1>4. \A j \in heap : j \in Jobs /\ j \notin batch[w]
  BY <1>1 DEF IInv, ServedOnce, TypeOK
<1>5. QueuedIsAwaited'
  BY <1>1, <1>2, <1>4 DEF QueueInv, QueuedIsAwaited, Pending
<1>6. NoneUnaccounted'
  BY <1>1 DEF QueueInv, NoneUnaccounted
<1>7. DiscardedEntries'
  BY <1>1, <1>2, <1>3 DEF QueueInv, DiscardedEntries, TypeOK, Jobs, NoJob
<1>8. DepthIsExact'
  BY <1>1, <1>2, DepthKept DEF QueueInv
<1>9. DequeHoldsSleepers'
  BY <1>1, ExitKeepsDeque DEF QueueInv
<1>10. ASSUME NEW u \in Workers, pc'[u] = "idle"
       PROVE  pc[u] = "idle" /\ Helpers(u) \subseteq Helpers(u)'
  BY <1>1, <1>10 DEF Helpers, After, TypeOK
<1>11. IdleIsCovered'
  BY <1>1, <1>10, CoverageKept DEF QueueInv
<1> QED BY <1>5, <1>6, <1>7, <1>8, <1>9, <1>11 DEF QueueInv

-----------------------------------------------------------------------------
(* start and close.                                                          *)

LEMMA StartQueue == ASSUME IInv, QueueInv, Start PROVE QueueInv'
<1>1. /\ UNCHANGED <<sequence, job, future, caller, heap, stale, started, queued,
                     partials, waiters>>
      /\ phase \in {"new", "down"}
      /\ \A w \in Workers : pc'[w] = "check"
      /\ heap = {} /\ waiters = <<>> /\ TypeOK /\ Jobs' = Jobs
  BY DEF Start, jobVars, IInv, NotRunningIsEmpty, Jobs
<1>2. QueuedIsAwaited' /\ NoneUnaccounted'
  BY <1>1 DEF QueueInv, QueuedIsAwaited, NoneUnaccounted
<1>3. DiscardedEntries'
  BY <1>1 DEF QueueInv, DiscardedEntries
<1>4. DepthIsExact'
  BY <1>1, DepthKept DEF QueueInv
<1>5. DequeHoldsSleepers' /\ IdleIsCovered'
  BY <1>1 DEF DequeHoldsSleepers, IdleIsCovered, Asleep
<1> QED BY <1>2, <1>3, <1>4, <1>5 DEF QueueInv

LEMMA BeginCloseQueue == ASSUME IInv, QueueInv, BeginClose PROVE QueueInv'
<1>1. /\ UNCHANGED <<sequence, started>>
      /\ phase' = "joining" /\ heap' = {} /\ queued' = 0
      /\ stale' = stale \cup heap /\ NotifyAll
      /\ TypeOK /\ Jobs' = Jobs
  BY DEF BeginClose, jobVars, IInv, Jobs
<1>2. QueuedIsAwaited' /\ NoneUnaccounted' /\ DiscardedEntries'
  BY <1>1 DEF QueueInv, QueuedIsAwaited, NoneUnaccounted, DiscardedEntries
<1>3. DepthIsExact'
  <2>1. heap' \ stale' = {} /\ Cardinality({}) = 0
    BY <1>1, FS_EmptySet
  <2> QED BY <1>1, <2>1, SchedulerAssumption DEF DepthIsExact, SchedulerAssumption
<1>4. DequeHoldsSleepers' /\ IdleIsCovered'
  BY <1>1, NotifyAllEffect DEF QueueInv, IdleIsCovered
<1> QED BY <1>2, <1>3, <1>4 DEF QueueInv

LEMMA EndCloseQueue == ASSUME IInv, QueueInv, EndClose PROVE QueueInv'
<1>1. /\ UNCHANGED <<sequence, job, future, caller, heap, stale, started, queued,
                     pc, waiters>>
      /\ phase' = "down" /\ TypeOK /\ Jobs' = Jobs
      /\ \A s \in Sessions : partials'[s] = NoJob
  BY DEF EndClose, jobVars, workerVars, IInv, Jobs
<1>2. QueuedIsAwaited' /\ NoneUnaccounted'
  BY <1>1 DEF QueueInv, QueuedIsAwaited, NoneUnaccounted, Pending
<1>3. DiscardedEntries'
  BY <1>1 DEF DiscardedEntries, TypeOK, Jobs, NoJob
<1>4. DepthIsExact'
  BY <1>1, DepthKept DEF QueueInv
<1>5. DequeHoldsSleepers' /\ IdleIsCovered'
  BY <1>1, WorkersKept DEF QueueInv, IdleIsCovered
<1> QED BY <1>2, <1>3, <1>4, <1>5 DEF QueueInv

LEMMA InitQueue == Init => QueueInv
<1> SUFFICES ASSUME Init PROVE QueueInv
  OBVIOUS
<1>1. Jobs = {} /\ heap = {} /\ stale = {} /\ heap \ stale = {} /\ Asleep = {}
  BY DEF Init, Jobs, Asleep
<1>2. DepthIsExact
  BY <1>1, FS_EmptySet, SchedulerAssumption DEF Init, DepthIsExact, SchedulerAssumption
<1>3. DequeHoldsSleepers /\ IdleIsCovered
  BY <1>1 DEF Init, DequeHoldsSleepers, IdleIsCovered
<1> QED BY <1>1, <1>2, <1>3
        DEF QueueInv, QueuedIsAwaited, NoneUnaccounted, DiscardedEntries

LEMMA NextQueue == IInv /\ QueueInv /\ [Next]_vars => QueueInv'
<1>1. ASSUME IInv, QueueInv, UNCHANGED vars PROVE QueueInv'
  <2>1. /\ UNCHANGED <<phase, sequence, job, future, caller, heap, stale, started,
                       queued, partials, pc, waiters>>
        /\ TypeOK
    BY <1>1 DEF vars, IInv
  <2> QED BY <1>1, <2>1, JobsKept, WorkersKept DEF QueueInv
<1>2. ASSUME IInv, QueueInv, NEW w \in Workers, Worker(w) PROVE QueueInv'
  BY <1>2, CheckQueueQueue, BatchWaitElapsesQueue, PickBatchQueue, PickNothingQueue,
     FinishBatchQueue DEF Worker
<1> QED
  BY <1>1, <1>2, SubmitQueue, LeaveQueue, CancelQueue, UnwindQueue, StartQueue,
     BeginCloseQueue, EndCloseQueue DEF Next

LEMMA QueueInvariant == Spec => [](IInv /\ QueueInv)
<1>1. Init => QueueInv
  BY InitQueue
<1>2. IInv /\ QueueInv /\ [Next]_vars => QueueInv'
  BY NextQueue
<1> QED BY <1>1, <1>2, Invariant, PTL DEF Spec

-----------------------------------------------------------------------------
(* The properties the runs check.                                            *)

(* Capacity is never leaked: _queued_count never exceeds the jobs that hold  *)
(* a slot, and is exactly their number, within max_queue_size, as long as no *)
(* caller of a partial is cancelled.                                         *)
THEOREM CapacityIsNotLeaked == Spec => []DepthIsExact
<1>1. QueueInv => DepthIsExact
  BY DEF QueueInv
<1> QED BY <1>1, QueueInvariant, PTL

(* No notification of the condition is lost: while a worker sleeps idle, at  *)
(* least as many workers are on their way to the queue as jobs wait in it,   *)
(* for every number of workers.                                              *)
THEOREM NoWakeupIsLost == Spec => []WorkConserving
<1>1. IInv /\ QueueInv => WorkConserving
  <2> SUFFICES ASSUME IInv, QueueInv, NEW w \in Workers, pc[w] = "idle", phase = "up"
               PROVE  Cardinality(heap \ stale) <=
                        Cardinality({v \in Workers : pc[v] \in {"check", "gather", "pick"}})
    BY DEF WorkConserving
  <2> DEFINE awake == {v \in Workers : pc[v] \in {"check", "gather", "pick"}}
  <2>1. Cardinality(heap \ stale) <= Cardinality(Helpers(w))
    BY DEF QueueInv, IdleIsCovered
  <2>2. Helpers(w) \subseteq awake
    BY DEF Helpers
  <2>3. /\ IsFiniteSet(awake) /\ Cardinality(awake) \in Nat
        /\ Cardinality(Helpers(w)) \in Nat
    BY WorkerSetSize DEF Helpers
  <2>4. Cardinality(Helpers(w)) <= Cardinality(awake)
    BY <2>2, <2>3, FS_Subset
  <2>5. Cardinality(heap \ stale) \in Nat
    BY JobSetSize DEF IInv, TypeOK
  <2> QED BY <2>1, <2>3, <2>4, <2>5
<1> QED BY <1>1, QueueInvariant, PTL

(* Only _next_batch hands jobs to a worker.                                   *)
LEMMA OnlyPickBatchFills ==
  ASSUME IInv, [Next]_vars, NEW w \in Workers, batch[w] = {}, batch'[w] # {}
  PROVE  PickBatch(w)
<1>1. \A v \in Workers : v # w => ~(PickBatch(v) \/ FinishBatch(v))
  BY DEF PickBatch, FinishBatch, IInv, TypeOK
<1>2. ~FinishBatch(w)
  BY DEF FinishBatch, IInv, TypeOK
<1>3. ASSUME batch' = batch PROVE FALSE
  BY <1>3
<1>4. Submit => batch' = batch
  BY DEF Submit, SubmitFinal, SubmitPartial, SubmitFinalBusy, Enqueue, workerVars
<1>5. \A j \in Jobs :
        Resume(j) \/ Cancel(j) \/ Unwind(j) \/ Interrupted(j) => batch' = batch
  BY DEF Resume, Cancel, Unwind, Interrupted, workerVars
<1>6. Start \/ BeginClose \/ EndClose => batch' = batch
  BY DEF Start, BeginClose, EndClose, workerVars
<1>7. \A v \in Workers :
        CheckQueue(v) \/ BatchWaitElapses(v) \/ PickNothing(v) => batch' = batch
  BY DEF CheckQueue, BatchWaitElapses, PickNothing
<1>8. UNCHANGED vars => batch' = batch
  BY DEF vars
<1> QED BY <1>1, <1>2, <1>3, <1>4, <1>5, <1>6, <1>7, <1>8 DEF Next, Worker

(* The head of the queue is never passed over: whatever batch _next_batch    *)
(* forms holds the oldest live final, or the oldest live partial when no     *)
(* final waits, for every batch limit and mix of requests.                   *)
THEOREM HeadOfQueueIsServed == Spec => OldestFinalFirst
<1> DEFINE Order ==
      \A w \in Workers : batch[w] = {} /\ batch'[w] # {} =>
        LET waiting == {j \in heap : Pending(j)}
            finals  == {j \in waiting : ~IsPartial(j)}
        IN \E f \in batch'[w] :
             IF finals # {} THEN f \in finals /\ \A k \in finals : f <= k
                            ELSE \A k \in waiting : f <= k
<1>1. IInv /\ QueueInv /\ [Next]_vars => Order
  <2> SUFFICES ASSUME IInv, QueueInv, [Next]_vars, NEW w \in Workers,
                      batch[w] = {}, batch'[w] # {}
               PROVE  LET waiting == {j \in heap : Pending(j)}
                          finals  == {j \in waiting : ~IsPartial(j)}
                      IN \E f \in batch'[w] :
                           IF finals # {} THEN f \in finals /\ \A k \in finals : f <= k
                                          ELSE \A k \in waiting : f <= k
    OBVIOUS
  <2>1. PickBatch(w)
    BY OnlyPickBatchFills
  <2>2. PICK b \in SUBSET Live : IsBatch(b) /\ batch' = [batch EXCEPT ![w] = b]
    BY <2>1 DEF PickBatch
  <2>3. batch'[w] = b
    BY <2>2 DEF IInv, TypeOK
  <2>4. PICK first \in Live : first \in b /\ \A j \in Live \ {first} : Before(first, j)
    BY <2>2 DEF IsBatch
  <2>5. Live = {j \in heap : Pending(j)}
    BY LiveIsWaiting
  <2>6. Live \subseteq Nat
    <3>1. Live \subseteq Jobs /\ sequence \in Nat
      BY DEF IInv, TypeOK, Live
    <3> QED BY <3>1 DEF Jobs
  <2>7. \A k \in Live : ~IsPartial(k) => ~IsPartial(first) /\ first <= k
    BY <2>4, <2>6 DEF Before
  <2>8. ASSUME \A k \in Live : IsPartial(k) PROVE \A k \in Live : first <= k
    BY <2>4, <2>6, <2>8 DEF Before
  <2> QED BY <2>3, <2>4, <2>5, <2>7, <2>8
<1>2. IInv /\ QueueInv /\ [Next]_vars => [Order]_vars
  BY <1>1
<1> QED BY <1>2, QueueInvariant, PTL DEF Spec, OldestFinalFirst
-----------------------------------------------------------------------------
(* The audio of a set of jobs.  TotalAudio is a recursive function over the  *)
(* subsets of its argument; the facts about it follow from a smallest set    *)
(* that would refute them.                                                   *)

\* MapThenSumSet takes the elements of a set in the order CHOOSE picks them.
AnyOf(s) == CHOOSE x \in s : TRUE

\* TotalAudio for any table of jobs, and one step of its recursion.
SumOf(jobs, S) == MapThenSumSet(LAMBDA j : jobs[j].shape.audio, S)
Folded(g, jobs, s) ==
  IF s = {} THEN 0 ELSE jobs[AnyOf(s)].shape.audio + g[s \ {AnyOf(s)}]

\* g solves the recursion over the subsets of U.
Sums(g, jobs, U) ==
  /\ g \in [SUBSET U -> Nat]
  /\ \A s \in SUBSET U : g[s] = Folded(g, jobs, s)

(* A set of numbers that is not empty has a least one: how the smallest      *)
(* counterexample of what follows is found.                                  *)
LEMMA SmallestOf ==
  ASSUME NEW T, T \subseteq Nat, T # {}
  PROVE  \E x \in T : \A y \in T : x <= y
<1>1. PICK x \in T : \A y \in T : ~(<<y, x>> \in OpToRel(<, Nat))
  BY Zenon, NatLessThanWellFounded, WFMin
<1>2. \A y \in T : ~(y < x)
  BY <1>1 DEF OpToRel
<1> QED BY <1>2

(* What MapThenSumSet is defined by.                                         *)
LEMMA SumUnfolds ==
  ASSUME NEW jobs, NEW S
  PROVE  SumOf(jobs, S) =
           (CHOOSE g : g = [s \in SUBSET S |-> Folded(g, jobs, s)])[S]
BY Zenon DEF SumOf, MapThenSumSet, MapThenFoldSet, Folded, AnyOf

(* The audio of a set of the jobs.                                           *)
LEMMA TotalIsSum ==
  ASSUME NEW S
  PROVE  TotalAudio(S) = SumOf(job, S)
BY Zenon DEF SumOf, TotalAudio, MapThenSumSet, MapThenFoldSet

(* The audio of a worker's batch after a step.                               *)
LEMMA SumAfter ==
  ASSUME NEW w
  PROVE  (TotalAudio(batch[w]))' = SumOf(job', batch'[w])
BY Zenon DEF SumOf, TotalAudio, MapThenSumSet, MapThenFoldSet

(* A set that is not empty has the element CHOOSE picks.                     *)
LEMMA AnyOfIn ==
  ASSUME NEW s, s # {}
  PROVE  AnyOf(s) \in s
BY DEF AnyOf

(* The recursion determines its values: whatever satisfies it over the       *)
(* subsets of U has the values of a solution over those of a larger set.     *)
LEMMA SumsAgree ==
  ASSUME NEW U, NEW V, IsFiniteSet(V), U \subseteq V, NEW jobs, NEW later,
         \A j \in U : later[j] = jobs[j],
         NEW g, \A s \in SUBSET U : g[s] = Folded(g, jobs, s),
         NEW h, Sums(h, later, V)
  PROVE  \A s \in SUBSET U : g[s] = h[s]
<1> DEFINE Wrong == {s \in SUBSET U : g[s] # h[s]}
           Sizes == {Cardinality(s) : s \in Wrong}
<1>1. \A s \in SUBSET U : IsFiniteSet(s) /\ Cardinality(s) \in Nat
  BY FS_Subset, FS_CardinalityType
<1>2. SUFFICES ASSUME Wrong # {} PROVE FALSE
  OBVIOUS
<1>3. Sizes \subseteq Nat /\ Sizes # {}
  BY <1>1, <1>2
<1>4. PICK n \in Sizes : \A m \in Sizes : n <= m
  BY <1>3, SmallestOf
<1>5. \A m \in Sizes : ~(m < n)
  BY <1>3, <1>4
<1>6. PICK s \in Wrong : n = Cardinality(s)
  OBVIOUS
<1>7. g[s] = Folded(g, jobs, s) /\ h[s] = Folded(h, later, s)
  BY DEF Sums
<1>8. CASE s = {}
  BY <1>6, <1>7, <1>8 DEF Folded
<1>9. CASE s # {}
  <2> DEFINE x == AnyOf(s)
             r == s \ {x}
  <2>1. x \in s /\ x \in U /\ r \in SUBSET U
    BY <1>9, AnyOfIn
  <2>2. Cardinality(r) < Cardinality(s)
    BY <1>1, <2>1, FS_RemoveElement
  <2>3. g[r] = h[r]
    BY <1>5, <1>6, <2>1, <2>2
  <2> QED BY <1>6, <1>7, <1>9, <2>1, <2>3 DEF Folded
<1> QED BY <1>8, <1>9

(* The recursion has a solution over a finite set: one that is right for the *)
(* sets of at most n elements gives one that is right for n + 1.             *)
LEMMA SumExists ==
  ASSUME NEW U, IsFiniteSet(U), NEW jobs, \A j \in U : jobs[j].shape.audio \in Nat
  PROVE  \E g : Sums(g, jobs, U)
<1> DEFINE Good(g, n) == \A s \in SUBSET U : Cardinality(s) <= n => g[s] = Folded(g, jobs, s)
           Bad == {n \in Nat : ~\E g \in [SUBSET U -> Nat] : Good(g, n)}
<1>1. \A s \in SUBSET U : IsFiniteSet(s) /\ Cardinality(s) \in Nat /\ Cardinality(s) <= Cardinality(U)
  BY FS_Subset, FS_CardinalityType
<1>2. \A g \in [SUBSET U -> Nat] : \A s \in SUBSET U : Folded(g, jobs, s) \in Nat
  <2> SUFFICES ASSUME NEW g \in [SUBSET U -> Nat], NEW s \in SUBSET U
               PROVE  Folded(g, jobs, s) \in Nat
    OBVIOUS
  <2>1. CASE s = {}
    BY <2>1 DEF Folded
  <2>2. CASE s # {}
    <3>1. AnyOf(s) \in U /\ s \ {AnyOf(s)} \in SUBSET U
      BY <2>2, AnyOfIn
    <3>2. jobs[AnyOf(s)].shape.audio \in Nat /\ g[s \ {AnyOf(s)}] \in Nat
      BY <3>1
    <3> QED BY <2>2, <3>2 DEF Folded
  <2> QED BY <2>1, <2>2
<1>3. Bad = {}
  <2> SUFFICES ASSUME Bad # {} PROVE FALSE
    OBVIOUS
  <2> HIDE DEF Good
  <2>0. Bad \subseteq Nat
    OBVIOUS
  <2> HIDE DEF Bad
  <2>1. PICK n \in Bad : \A m \in Bad : n <= m
    BY <2>0, SmallestOf
  <2>2. \A m \in Bad : ~(m < n)
    BY <2>0, <2>1
  <2> USE DEF Bad
  <2>3. CASE n = 0
    <3> DEFINE g == [s \in SUBSET U |-> 0]
    <3>1. \A s \in SUBSET U : Cardinality(s) <= 0 => s = {}
      BY <1>1, FS_EmptySet
    <3>2. Good(g, 0)
      BY <3>1 DEF Good, Folded
    <3> QED BY <2>3, <3>2
  <2>4. CASE n # 0
    <3>1. n - 1 \in Nat /\ n - 1 < n
      BY <2>4
    <3>2. n - 1 \notin Bad
      BY <2>2, <3>1
    <3>3. PICK g \in [SUBSET U -> Nat] : Good(g, n - 1)
      BY <3>1, <3>2
    <3> DEFINE h == [s \in SUBSET U |-> Folded(g, jobs, s)]
    <3>4. h \in [SUBSET U -> Nat]
      BY <1>2
    <3>5. ASSUME NEW s \in SUBSET U, Cardinality(s) <= n
          PROVE  h[s] = Folded(h, jobs, s)
      <4>1. CASE s = {}
        BY <4>1 DEF Folded
      <4>2. CASE s # {}
        <5> DEFINE r == s \ {AnyOf(s)}
        <5>1. AnyOf(s) \in s /\ r \in SUBSET U
          BY <4>2, AnyOfIn
        <5>2. Cardinality(r) = Cardinality(s) - 1
          BY <1>1, <5>1, FS_RemoveElement
        <5>3. Cardinality(r) <= n - 1
          BY <1>1, <3>5, <5>1, <5>2
        <5>4. g[r] = Folded(g, jobs, r)
          BY <3>3, <5>1, <5>3 DEF Good
        <5>5. h[r] = g[r]
          BY <5>1, <5>4
        <5>6. h[s] = Folded(g, jobs, s)
          OBVIOUS
        <5> HIDE DEF h
        <5> QED BY <4>2, <5>5, <5>6 DEF Folded
      <4> QED BY <4>1, <4>2
    <3>6. Good(h, n)
      BY <3>5 DEF Good
    <3> QED BY <3>4, <3>6
  <2> QED BY <2>3, <2>4
<1>4. Cardinality(U) \in Nat
  BY FS_CardinalityType
<1>5. PICK g \in [SUBSET U -> Nat] : Good(g, Cardinality(U))
  BY <1>3, <1>4
<1>6. \A s \in SUBSET U : g[s] = Folded(g, jobs, s)
  BY <1>1, <1>5
<1> QED BY <1>6 DEF Sums

(* The order of a sum does not matter: any element may be taken out first.   *)
LEMMA SumAdds ==
  ASSUME NEW U, IsFiniteSet(U), NEW jobs, \A j \in U : jobs[j].shape.audio \in Nat,
         NEW g, Sums(g, jobs, U)
  PROVE  \A x \in U : g[U] = jobs[x].shape.audio + g[U \ {x}]
<1> DEFINE Adds(s) == \A x \in s : g[s] = jobs[x].shape.audio + g[s \ {x}]
           Wrong == {s \in SUBSET U : ~Adds(s)}
           Sizes == {Cardinality(s) : s \in Wrong}
<1>1. \A s \in SUBSET U : IsFiniteSet(s) /\ Cardinality(s) \in Nat
  BY FS_Subset, FS_CardinalityType
<1>2. SUFFICES ASSUME Wrong # {} PROVE FALSE
  OBVIOUS
<1> HIDE DEF Adds
<1>3. Sizes \subseteq Nat /\ Sizes # {}
  BY <1>1, <1>2
<1>4. PICK n \in Sizes : \A m \in Sizes : n <= m
  BY <1>3, SmallestOf
<1>5. \A m \in Sizes : ~(m < n)
  BY <1>3, <1>4
<1>6. PICK s \in Wrong : n = Cardinality(s)
  OBVIOUS
<1>7. PICK x \in s : g[s] # jobs[x].shape.audio + g[s \ {x}]
  BY <1>6 DEF Adds
<1> DEFINE y == AnyOf(s)
<1>8. y \in s /\ s \in SUBSET U
  BY <1>7, AnyOfIn
<1>9. g[s] = jobs[y].shape.audio + g[s \ {y}]
  BY <1>8 DEF Sums, Folded
<1>10. x # y
  BY <1>7, <1>9
<1> HIDE DEF y
<1>11. s \ {x} \in SUBSET U /\ s \ {y} \in SUBSET U /\ (s \ {x}) \ {y} \in SUBSET U
  BY <1>8
<1>12. Cardinality(s \ {x}) < Cardinality(s) /\ Cardinality(s \ {y}) < Cardinality(s)
  <2>1. IsFiniteSet(s) /\ Cardinality(s) \in Nat
    BY <1>1
  <2>2. \A z \in s : Cardinality(s \ {z}) = Cardinality(s) - 1
    BY <2>1, FS_RemoveElement
  <2> QED BY <1>8, <2>1, <2>2
<1>13. Adds(s \ {x}) /\ Adds(s \ {y})
  BY <1>5, <1>6, <1>11, <1>12
<1>14. g[s \ {x}] = jobs[y].shape.audio + g[(s \ {x}) \ {y}]
  BY <1>8, <1>10, <1>13 DEF Adds
<1>15. g[s \ {y}] = jobs[x].shape.audio + g[(s \ {y}) \ {x}]
  BY <1>7, <1>10, <1>13 DEF Adds
<1>16. (s \ {x}) \ {y} = (s \ {y}) \ {x}
  OBVIOUS
<1>17. jobs[x].shape.audio \in Nat /\ jobs[y].shape.audio \in Nat
       /\ g[(s \ {x}) \ {y}] \in Nat
  BY <1>7, <1>8, <1>11 DEF Sums
<1> HIDE DEF Adds
<1>18. \A p, q, r \in Nat : p + (q + r) = q + (p + r)
  OBVIOUS
<1>19. jobs[y].shape.audio + (jobs[x].shape.audio + g[(s \ {x}) \ {y}])
         = jobs[x].shape.audio + (jobs[y].shape.audio + g[(s \ {x}) \ {y}])
  BY <1>17, <1>18
<1> QED BY <1>7, <1>9, <1>14, <1>15, <1>16, <1>19, Zenon

(* The solution is the sum.                                                  *)
LEMMA SumsOfJobs ==
  ASSUME NEW U, IsFiniteSet(U), NEW jobs, \A j \in U : jobs[j].shape.audio \in Nat
  PROVE  \E g : Sums(g, jobs, U) /\ \A s \in SUBSET U : g[s] = SumOf(jobs, s)
<1>1. PICK g : Sums(g, jobs, U)
  BY SumExists
<1>2. ASSUME NEW S \in SUBSET U PROVE g[S] = SumOf(jobs, S)
  <2> DEFINE Solves(h) == h = [s \in SUBSET S |-> Folded(h, jobs, s)]
             i         == CHOOSE h : Solves(h)
  <2>1. \A j \in S : jobs[j].shape.audio \in Nat
    OBVIOUS
  <2>2. IsFiniteSet(S)
    BY FS_Subset
  <2>3. PICK h : Sums(h, jobs, S)
    BY <2>1, <2>2, SumExists
  <2>4. Solves(h)
    BY <2>3 DEF Sums
  <2> HIDE DEF Solves
  <2>5. Solves(i)
    BY Zenon, <2>4
  <2>6. SumOf(jobs, S) = i[S]
    BY Zenon, SumUnfolds DEF Solves
  <2> HIDE DEF i
  <2>7. \A s \in SUBSET S : i[s] = Folded(i, jobs, s)
    BY <2>5 DEF Solves
  <2>8. i[S] = g[S]
    BY <1>1, <2>7, SumsAgree
  <2> QED BY <2>6, <2>8
<1> QED BY <1>1, <1>2

(* What is used of a sum below: it is a number, and the sum of the audio of   *)
(* any one job and that of the others.                                       *)
LEMMA SumFacts ==
  ASSUME NEW U, IsFiniteSet(U), NEW jobs, \A j \in U : jobs[j].shape.audio \in Nat
  PROVE  /\ SumOf(jobs, U) \in Nat
         /\ \A x \in U : SumOf(jobs, U) = jobs[x].shape.audio + SumOf(jobs, U \ {x})
<1>1. PICK g : Sums(g, jobs, U) /\ \A s \in SUBSET U : g[s] = SumOf(jobs, s)
  BY SumsOfJobs
<1>2. \A x \in U : g[U] = jobs[x].shape.audio + g[U \ {x}]
  BY <1>1, SumAdds
<1>3. g[U] \in Nat
  BY <1>1 DEF Sums
<1> QED BY <1>1, <1>2, <1>3

(* A sum depends on the jobs of its set only.                                *)
LEMMA SumStays ==
  ASSUME NEW U, IsFiniteSet(U), NEW jobs, NEW later, \A j \in U : jobs[j].shape.audio \in Nat,
         \A j \in U : later[j] = jobs[j]
  PROVE  SumOf(later, U) = SumOf(jobs, U)
<1>1. PICK g : Sums(g, jobs, U) /\ \A s \in SUBSET U : g[s] = SumOf(jobs, s)
  BY SumsOfJobs
<1>2. \A j \in U : later[j].shape.audio \in Nat
  OBVIOUS
<1>3. PICK h : Sums(h, later, U) /\ \A s \in SUBSET U : h[s] = SumOf(later, s)
  BY <1>2, SumsOfJobs
<1>4. \A s \in SUBSET U : g[s] = Folded(g, jobs, s)
  BY <1>1 DEF Sums
<1>5. g[U] = h[U]
  BY <1>3, <1>4, SumsAgree
<1> QED BY <1>1, <1>3, <1>5

-----------------------------------------------------------------------------
(* Batches.                                                                  *)

(* A set of job numbers that is not empty has a greatest one.                *)
LEMMA LastOf ==
  ASSUME NEW n \in Nat, NEW S, S \subseteq 1..n, S # {}
  PROVE  \E last \in S : \A k \in S : k <= last
<1> DEFINE T == {n - k : k \in S}
<1>1. T \subseteq Nat /\ T # {}
  <2>1. \A k \in S : k \in 1..n /\ n - k \in Nat
    OBVIOUS
  <2> QED BY <2>1
<1>2. PICK x \in T : \A y \in T : x <= y
  BY <1>1, SmallestOf
<1>3. PICK last \in S : x = n - last
  OBVIOUS
<1>4. ASSUME NEW k \in S PROVE k <= last
  <2>1. n - k \in T /\ k \in 1..n /\ last \in 1..n
    BY <1>4
  <2>2. n - last <= n - k
    BY <1>2, <1>3, <2>1
  <2> QED BY <2>1, <2>2
<1> QED BY <1>4

(* The audio of a job is a number.                                           *)
LEMMA AudioIsNat ==
  ASSUME TypeOK
  PROVE  \A j \in Jobs : job[j].shape.audio \in Nat
BY SchedulerAssumption DEF TypeOK, JobFields, SchedulerAssumption

(* What _next_batch forms.                                                   *)
LEMMA BatchShape ==
  ASSUME IInv, QueueInv, NEW b \in SUBSET Live, IsBatch(b)
  PROVE  /\ \A i, j \in b :
              /\ job[i].kind = job[j].kind
              /\ job[i].shape.class = job[j].shape.class
              /\ SessionOf(i) = SessionOf(j) /\ IsPartial(i) => i = j
         /\ Cardinality(b) <= MaxBatch
         /\ Cardinality(b) > 1 => TotalAudio(b) <= MaxAudio
<1>1. PICK first \in Live :
        /\ first \in b
        /\ \A j \in Live \ {first} : Before(first, j)
        /\ \A j \in Live \ {first} :
             j \in b <=> /\ Compatible(first, j)
                         /\ Fits(j, {k \in b : Before(k, j)})
  BY DEF IsBatch
<1>2. \A j \in b : Compatible(first, j)
  BY <1>1 DEF Compatible
<1>3. b \subseteq Jobs /\ sequence \in Nat /\ MaxBatch \in Nat /\ MaxBatch >= 1
  BY SchedulerAssumption DEF IInv, TypeOK, Live, SchedulerAssumption
<1>4. \A j \in b : job[j].kind \in {"final", "partial"}
  BY <1>3 DEF IInv, TypeOK, JobFields, Kinds
<1>5. \A i, j \in b : IsPartial(i) = IsPartial(j) /\ job[i].kind = job[j].kind
                      /\ job[i].shape.class = job[j].shape.class
  BY <1>2, <1>4 DEF Compatible, IsPartial
<1>6. ASSUME NEW i \in b, NEW j \in b, SessionOf(i) = SessionOf(j), IsPartial(i)
      PROVE  i = j
  <2>1. Pending(i) /\ Pending(j)
    BY LiveIsWaiting
  <2>2. i \in Jobs /\ j \in Jobs /\ IsPartial(j)
    BY <1>3, <1>5, <1>6
  <2> QED BY <1>6, <2>1, <2>2 DEF IInv, LivePartialIsNewest
<1>7. Cardinality(b) <= MaxBatch /\ (Cardinality(b) > 1 => TotalAudio(b) <= MaxAudio)
  <2>1. IsFiniteSet(b) /\ Cardinality(b) \in Nat
    BY <1>3, JobSetSize DEF IInv
  <2>2. PICK last \in b : \A k \in b : k <= last
    BY <1>1, <1>3, LastOf DEF Jobs
  <2>3. CASE last = first
    <3>1. \A k \in b \ {first} : first < k
      BY <1>1, <1>3, <1>5 DEF Before, Jobs
    <3>2. \A k \in b : k \in Int /\ k <= first
      BY <1>3, <2>2, <2>3 DEF Jobs
    <3>3. b = {first}
      BY <1>1, <3>1, <3>2
    <3>4. Cardinality(b) = 1
      BY <3>3, FS_Singleton
    <3> QED BY <1>3, <3>4
  <2>4. CASE last # first
    <3>1. Fits(last, {k \in b : Before(k, last)})
      BY <1>1, <2>4
    <3>2. {k \in b : Before(k, last)} = b \ {last}
      <4>1. ASSUME NEW k \in b PROVE k \in Int /\ last \in Int /\ k <= last
        BY <1>3, <2>2 DEF Jobs
      <4>2. \A k \in b : Before(k, last) <=> k < last
        BY <1>5 DEF Before
      <4> QED BY <4>1, <4>2
    <3>3. /\ Cardinality(b \ {last}) < MaxBatch
          /\ TotalAudio(b \ {last}) + job[last].shape.audio <= MaxAudio
      BY <3>1, <3>2 DEF Fits
    <3>4. Cardinality(b \ {last}) = Cardinality(b) - 1
      BY <2>1, FS_RemoveElement
    <3>5. TotalAudio(b) <= MaxAudio
      <4>1. \A j \in b : job[j].shape.audio \in Nat
        BY <1>3, AudioIsNat DEF IInv
      <4>2. \A j \in b \ {last} : job[j].shape.audio \in Nat
        BY <4>1
      <4>3. IsFiniteSet(b \ {last})
        BY <2>1, FS_Subset
      <4>4. /\ TotalAudio(b) = job[last].shape.audio + TotalAudio(b \ {last})
            /\ TotalAudio(b \ {last}) \in Nat
        BY <2>1, <4>1, <4>2, <4>3, SumFacts, TotalIsSum
      <4>5. TotalAudio(b) = TotalAudio(b \ {last}) + job[last].shape.audio
        BY <4>1, <4>4
      <4> QED BY <3>3, <4>5
    <3> QED BY <1>3, <2>1, <3>3, <3>4, <3>5
  <2> QED BY <2>3, <2>4
<1> QED BY <1>5, <1>6, <1>7

(* A worker's batch changes only when it picks one, and when it has run it.   *)
LEMMA BatchChanges ==
  ASSUME IInv, [Next]_vars
  PROVE  /\ Jobs \subseteq Jobs' /\ \A j \in Jobs : job'[j] = job[j]
         /\ \A w \in Workers :
              \/ batch'[w] \in {batch[w], {}}
              \/ \E b \in SUBSET Live : IsBatch(b) /\ batch'[w] = b
<1>1. TypeOK
  BY DEF IInv
<1>2. CASE UNCHANGED vars
  BY <1>1, <1>2 DEF vars, Jobs
<1>3. CASE Submit
  <2>1. PICK s, kind, gen, shape :
          s \in Sessions /\ (Enqueue(s, kind, gen, shape) \/ SubmitFinalBusy(s))
    BY <1>3 DEF Submit, SubmitFinal, SubmitPartial
  <2>2. CASE SubmitFinalBusy(s)
    BY <1>1, <2>2 DEF SubmitFinalBusy, jobVars, workerVars, Jobs
  <2>3. CASE Enqueue(s, kind, gen, shape)
    <3>1. batch' = batch
      BY <2>3 DEF Enqueue
    <3> QED BY <1>1, <2>1, <2>3, <3>1, EnqueueEffect
  <2> QED BY <2>1, <2>2, <2>3
<1>4. CASE \E w \in Workers : PickBatch(w)
  <2>1. PICK w \in Workers, b \in SUBSET Live :
          IsBatch(b) /\ batch' = [batch EXCEPT ![w] = b]
    BY <1>4 DEF PickBatch
  <2>2. UNCHANGED <<sequence, job>>
    BY <1>4 DEF PickBatch, Scan, jobVars
  <2> QED BY <1>1, <2>1, <2>2 DEF Jobs, TypeOK
<1>5. CASE \E w \in Workers : FinishBatch(w)
  BY <1>1, <1>5 DEF FinishBatch, jobVars, Jobs, TypeOK
<1>6. CASE \E w \in Workers : CheckQueue(w) \/ BatchWaitElapses(w) \/ PickNothing(w)
  <2>1. UNCHANGED <<sequence, job, batch>>
    BY <1>6 DEF CheckQueue, BatchWaitElapses, PickNothing, Scan, jobVars
  <2> QED BY <2>1 DEF Jobs
<1>7. CASE \E j \in Jobs : Resume(j) \/ Cancel(j) \/ Unwind(j) \/ Interrupted(j)
  <2>1. UNCHANGED <<sequence, job, batch>>
    BY <1>7 DEF Resume, Cancel, Unwind, Interrupted, jobVars, workerVars
  <2> QED BY <2>1 DEF Jobs
<1>8. CASE Start \/ BeginClose \/ EndClose
  <2>1. UNCHANGED <<sequence, job, batch>>
    BY <1>8 DEF Start, BeginClose, EndClose, jobVars, workerVars
  <2> QED BY <2>1 DEF Jobs
<1> QED BY <1>2, <1>3, <1>4, <1>5, <1>6, <1>7, <1>8 DEF Next, Worker

LEMMA NextBatches ==
  ASSUME IInv, QueueInv, BatchAdmissible, [Next]_vars
  PROVE  BatchAdmissible'
<1>1. /\ Jobs \subseteq Jobs' /\ \A j \in Jobs : job'[j] = job[j]
      /\ \A w \in Workers :
           \/ batch'[w] \in {batch[w], {}}
           \/ \E b \in SUBSET Live : IsBatch(b) /\ batch'[w] = b
  BY BatchChanges
<1>2. Live \subseteq Jobs /\ \A w \in Workers : batch[w] \subseteq Jobs
  BY DEF IInv, TypeOK, Live
<1>3. MaxBatch \in Nat /\ Cardinality({}) = 0
  BY SchedulerAssumption, FS_EmptySet DEF SchedulerAssumption
<1>4. ASSUME NEW w \in Workers
      PROVE  /\ batch'[w] \subseteq Jobs
             /\ Cardinality(batch'[w]) <= MaxBatch
             /\ \A i, j \in batch'[w] :
                  /\ job[i].kind = job[j].kind
                  /\ job[i].shape.class = job[j].shape.class
                  /\ SessionOf(i) = SessionOf(j) /\ IsPartial(i) => i = j
             /\ Cardinality(batch'[w]) > 1 => TotalAudio(batch'[w]) <= MaxAudio
  <2>1. CASE batch'[w] = batch[w]
    BY <1>2, <1>4, <2>1
    DEF BatchAdmissible, BatchesAreUniform, BatchesAreWithinSize
  <2>2. CASE batch'[w] = {}
    BY <1>3, <2>2
  <2>3. CASE \E b \in SUBSET Live : IsBatch(b) /\ batch'[w] = b
    BY <1>2, <2>3, BatchShape
  <2> QED BY <1>1, <1>4, <2>1, <2>2, <2>3
<1>5. BatchesAreUniform'
  BY <1>1, <1>4 DEF BatchesAreUniform, SessionOf, IsPartial
<1>6. BatchesAreWithinSize'
  BY <1>4 DEF BatchesAreWithinSize
<1>7. ASSUME NEW w \in Workers, (Cardinality(batch[w]) > 1)'
      PROVE  (TotalAudio(batch[w]) <= MaxAudio)'
  <2> DEFINE b == batch'[w]
  <2>1. b \subseteq Jobs /\ TotalAudio(b) <= MaxAudio
    BY <1>4, <1>7
  <2>2. IsFiniteSet(b) /\ \A j \in b : job[j].shape.audio \in Nat
    BY <2>1, JobSetSize, AudioIsNat DEF IInv
  <2>3. SumOf(job', b) = SumOf(job, b)
    BY <1>1, <2>1, <2>2, SumStays
  <2>4. TotalAudio(b) = SumOf(job, b)
    BY TotalIsSum
  <2>5. (TotalAudio(batch[w]))' = SumOf(job', b)
    BY SumAfter
  <2> QED BY <2>1, <2>3, <2>4, <2>5
<1> QED BY <1>5, <1>6, <1>7 DEF BatchAdmissible

(* What _next_batch selects stays admissible until it is settled: an engine   *)
(* call gets at most max_batch_size jobs, of one kind and one class, of a     *)
(* session at most one partial, so the order of _finish's loop is immaterial; *)
(* and unless it is a single request, no more audio than its budget.          *)
THEOREM BatchesAreAdmissible == Spec => []BatchAdmissible
<1>1. Init => BatchAdmissible
  BY FS_EmptySet, SchedulerAssumption
  DEF Init, BatchAdmissible, BatchesAreUniform, BatchesAreWithinSize, SchedulerAssumption
<1>2. IInv /\ QueueInv /\ BatchAdmissible /\ [Next]_vars => BatchAdmissible'
  BY NextBatches
<1> QED BY <1>1, <1>2, QueueInvariant, PTL DEF Spec

-----------------------------------------------------------------------------
(* Generations: which partials fail as stale, and why.                       *)

(* What is known of a live partial.                                          *)
LEMMA LivePartial ==
  ASSUME IInv, NEW j \in Jobs, Pending(j), IsPartial(j)
  PROVE  /\ SessionOf(j) \in Sessions /\ gens[SessionOf(j)] \in Nat
         /\ job[j].gen \in Nat
         /\ partials[SessionOf(j)] = j /\ j # NoJob /\ j \notin stale
         /\ j \notin heap => \E v \in Workers : pc[v] = "run" /\ j \in batch[v]
<1>1. SessionOf(j) \in Sessions /\ job[j].gen \in Nat
  BY DEF IInv, TypeOK, JobFields, SessionOf
<1>2. j # NoJob
  BY DEF IInv, TypeOK, Jobs, NoJob
<1>3. j \notin stale /\ partials[SessionOf(j)] = j
  BY DEF IInv, StaleIsSettled, LivePartialIsNewest
<1>4. j \notin heap => \E v \in Workers : pc[v] = "run" /\ j \in batch[v]
  BY DEF IInv, NoOrphan, Running
<1> QED BY <1>1, <1>2, <1>3, <1>4 DEF IInv, TypeOK

(* The counter of a session with a queued partial is released by nobody: the *)
(* partial is in _partials and stands behind everything else in the queue.   *)
LEMMA QueuedKeepsCounter ==
  ASSUME IInv, NEW j \in Jobs, Pending(j), IsPartial(j), j \in heap,
         NEW i, NEW rest, NEW ps, SessionOf(i) = SessionOf(j), j \in rest
  PROVE  ~Releases(i, rest, ps)
BY DEF Releases

LEMMA ScanKeepsCounter ==
  ASSUME IInv, NEW j \in Jobs, Pending(j), IsPartial(j), j \in heap
  PROVE  SessionOf(j) \notin ReleasedByScan
<1>1. /\ partials[SessionOf(j)] = j /\ j # NoJob /\ j \in heap \ stale
  BY LivePartial
<1>2. ASSUME NEW d \in Dead, SessionOf(d) = SessionOf(j),
             Releases(d, {k \in heap \ stale : Before(d, k)}, partials)
      PROVE  FALSE
  <2>1. CASE IsPartial(d)
    BY <1>1, <1>2, <2>1 DEF Releases
  <2>2. CASE ~IsPartial(d)
    <3>1. j \in {k \in heap \ stale : Before(d, k)}
      BY <1>1, <2>2 DEF Before
    <3> QED BY <1>2, <3>1, QueuedKeepsCounter
  <2> QED BY <2>1, <2>2
<1> QED BY <1>2 DEF ReleasedByScan

(* What a step may do to the counter of a live partial: nothing, or drop it  *)
(* while the partial runs.                                                   *)
LEMMA CounterOfLivePartial ==
  ASSUME IInv, QueueInv, [Next]_vars, NEW j \in Jobs, Pending(j), IsPartial(j),
         future'[j] = "pending"
  PROVE  \/ gens'[SessionOf(j)] = gens[SessionOf(j)]
         \/ gens'[SessionOf(j)] = 0 /\ j \notin heap
<1> DEFINE s == SessionOf(j)
           Dropped == gens'[s] = 0 /\ j \notin heap
<1>0. /\ s \in Sessions /\ partials[s] = j /\ j # NoJob /\ j \notin stale
      /\ j \notin heap => \E v \in Workers : pc[v] = "run" /\ j \in batch[v]
  BY LivePartial
<1> HIDE DEF s
<1>1. CASE Submit
  <2>1. PICK r \in Sessions :
          \/ \E shape \in Shapes : SubmitFinal(r, shape) \/ SubmitPartial(r, shape)
          \/ SubmitFinalBusy(r)
    BY <1>1 DEF Submit
  <2>2. CASE \E shape \in Shapes : SubmitFinal(r, shape)
    <3>1. PICK shape \in Shapes : SubmitFinal(r, shape)
      BY <2>2
    <3>2. Enqueue(r, "final", gens[r] + 1, shape) /\ gens' = [gens EXCEPT ![r] = @ + 1]
      BY <3>1 DEF SubmitFinal
    <3>3. j \notin Superseded(r)
      BY <3>2, EnqueueEffect DEF IInv
    <3>4. r # s
      BY <1>0, <3>3 DEF Superseded
    <3> QED BY <1>0, <3>2, <3>4 DEF s, IInv, TypeOK
  <2>3. CASE SubmitFinalBusy(r) \/ \E shape \in Shapes : SubmitPartial(r, shape)
    BY <2>3 DEF SubmitFinalBusy, SubmitPartial
  <2> QED BY <2>1, <2>2, <2>3
<1>2. ASSUME NEW i \in Jobs, Unwind(i) PROVE gens'[s] = gens[s] \/ Dropped
  <2> DEFINE ps   == [r \in Sessions |-> IF partials[r] \in Abandoned(i) THEN NoJob
                                                                         ELSE partials[r]]
             rest == heap \ (stale \cup Abandoned(i))
  <2>1. /\ caller[i] = "cancelling"
        /\ gens' = IF Releases(i, rest, ps)
                   THEN [gens EXCEPT ![SessionOf(i)] = 0] ELSE gens
    BY <1>2 DEF Unwind
  <2>2. j \notin Abandoned(i)
    BY <2>1 DEF Abandoned, IInv, CancelledIsSettled
  <2> HIDE DEF ps, rest
  <2>3. CASE Releases(i, rest, ps) /\ SessionOf(i) = s
    <3>1. j \notin rest
      BY <2>3 DEF Releases, s
    <3>2. j \notin heap
      BY <1>0, <2>2, <3>1 DEF rest
    <3>3. gens'[s] = 0
      BY <1>0, <2>1, <2>3 DEF IInv, TypeOK
    <3> QED BY <3>2, <3>3
  <2>4. CASE ~(Releases(i, rest, ps) /\ SessionOf(i) = s)
    BY <1>0, <2>1, <2>4 DEF IInv, TypeOK
  <2> QED BY <2>3, <2>4
<1>3. ASSUME NEW w \in Workers, PickBatch(w) \/ PickNothing(w)
      PROVE  gens'[s] = gens[s] \/ Dropped
  <2>1. gens' = [r \in Sessions |-> IF r \in ReleasedByScan THEN 0 ELSE gens[r]]
    BY <1>3 DEF PickBatch, PickNothing, Scan
  <2>2. CASE j \in heap
    BY <1>0, <2>1, <2>2, ScanKeepsCounter DEF s
  <2>3. CASE j \notin heap
    BY <1>0, <2>1, <2>3
  <2> QED BY <2>2, <2>3
<1>4. ASSUME NEW w \in Workers, FinishBatch(w) PROVE gens'[s] = gens[s] \/ Dropped
  <2> DEFINE b  == batch[w]
             ps == [r \in Sessions |-> IF partials[r] \in b THEN NoJob ELSE partials[r]]
  <2>2. gens' = [r \in Sessions |->
                   IF \E k \in b : SessionOf(k) = r /\ Releases(k, heap \ stale, ps)
                   THEN 0 ELSE gens[r]]
    BY <1>4 DEF FinishBatch
  <2> HIDE DEF ps
  <2>4. CASE j \in heap
    <3>1. \A k \in b : SessionOf(k) = s => ~Releases(k, heap \ stale, ps)
      BY <1>0, <2>4 DEF Releases, s
    <3> QED BY <1>0, <2>2, <3>1
  <2>5. CASE j \notin heap
    BY <1>0, <2>2, <2>5
  <2> QED BY <2>4, <2>5
<1>5. CASE EndClose
  <2>1. phase = "joining" /\ \A w \in Workers : pc[w] = "exited"
    BY <1>5 DEF EndClose, WorkersExited
  <2>2. heap = {}
    BY <2>1 DEF IInv, NotRunningIsEmpty
  <2> QED BY <1>0, <2>1, <2>2
<1>6. CASE \/ Start \/ BeginClose \/ UNCHANGED vars
           \/ \E i \in Jobs : Resume(i) \/ Cancel(i) \/ Interrupted(i)
           \/ \E w \in Workers : CheckQueue(w) \/ BatchWaitElapses(w)
  BY <1>6 DEF Start, BeginClose, vars, Resume, Cancel, Interrupted, CheckQueue,
              BatchWaitElapses
<1> QED BY <1>1, <1>2, <1>3, <1>4, <1>5, <1>6 DEF Next, Worker, s

(* A settled future stays as it is, a job that has left the queue stays out. *)
LEMMA SettledStays ==
  ASSUME IInv, [Next]_vars, NEW j \in Jobs
  PROVE  /\ ~Pending(j) => future'[j] = future[j]
         /\ j \in heap' => j \in heap
<1>1. TypeOK /\ sequence \in Nat
  BY DEF IInv, TypeOK
<1>2. CASE Submit
  <2>1. PICK s, kind, gen, shape :
          s \in Sessions /\ (Enqueue(s, kind, gen, shape) \/ SubmitFinalBusy(s))
    BY <1>2 DEF Submit, SubmitFinal, SubmitPartial
  <2>2. CASE Enqueue(s, kind, gen, shape)
    <3>1. heap' = heap \cup {NextSequence}
      BY <2>2 DEF Enqueue
    <3> QED BY <1>1, <2>1, <2>2, <3>1, EnqueueEffect
  <2>3. CASE SubmitFinalBusy(s)
    BY <2>3 DEF SubmitFinalBusy, Settle
  <2> QED BY <2>1, <2>2, <2>3
<1>3. CASE \E w \in Workers : PickBatch(w) \/ PickNothing(w)
  BY <1>3 DEF PickBatch, PickNothing, Scan, Retained, Live
<1>4. CASE \E w \in Workers : FinishBatch(w)
  BY <1>4 DEF FinishBatch
<1>5. CASE \E i \in Jobs : Cancel(i)
  BY <1>5 DEF Cancel, Settle
<1>6. CASE BeginClose
  BY <1>6 DEF BeginClose, Settle
<1>7. CASE \/ Start \/ EndClose \/ UNCHANGED vars
           \/ \E i \in Jobs : Resume(i) \/ Unwind(i) \/ Interrupted(i)
           \/ \E w \in Workers : CheckQueue(w) \/ BatchWaitElapses(w)
  BY <1>7 DEF Start, EndClose, vars, Resume, Unwind, Interrupted, CheckQueue,
              BatchWaitElapses
<1> QED BY <1>2, <1>3, <1>4, <1>5, <1>6, <1>7 DEF Next, Worker

(* A job that is new was submitted in this step; a new partial has the       *)
(* generation of its session.                                                *)
LEMMA NewJob ==
  ASSUME IInv, [Next]_vars, NEW j \in Jobs', j \notin Jobs
  PROVE  /\ future'[j] = "pending" /\ caller'[j] = "awaiting"
         /\ job'[j].kind = "partial" => gens'[job'[j].session] = job'[j].gen
<1>1. Submit
  <2>1. sequence' # sequence
    BY DEF Jobs
  <2> QED BY <2>1 DEF Next, vars, Resume, Cancel, Unwind, Interrupted, Worker, CheckQueue,
                      BatchWaitElapses, PickBatch, PickNothing, FinishBatch, Scan,
                      Start, BeginClose, EndClose, jobVars
<1>2. PICK s \in Sessions, kind \in Kinds, gen \in Nat, shape \in Shapes :
        /\ Enqueue(s, kind, gen, shape)
        /\ kind = "partial" => gen = gens[s] /\ gens' = gens
  <2>1. PICK s \in Sessions :
          \/ \E shape \in Shapes : SubmitFinal(s, shape) \/ SubmitPartial(s, shape)
          \/ SubmitFinalBusy(s)
    BY <1>1 DEF Submit
  <2>2. ~SubmitFinalBusy(s)
    BY DEF SubmitFinalBusy, jobVars, Jobs
  <2>0. gens[s] \in Nat
    BY DEF IInv, TypeOK
  <2>3. CASE \E shape \in Shapes : SubmitFinal(s, shape)
    BY <2>3, <2>0 DEF SubmitFinal, Kinds
  <2>4. CASE \E shape \in Shapes : SubmitPartial(s, shape)
    BY <2>4, <2>0 DEF SubmitPartial, Kinds
  <2> QED BY <2>1, <2>2, <2>3, <2>4
<1>3. j = NextSequence
  BY <1>2, EnqueueEffect DEF IInv
<1> QED BY <1>2, <1>3, EnqueueEffect DEF IInv

LEMMA NextGeneration ==
  ASSUME IInv, QueueInv, GenerationIsKept, [Next]_vars
  PROVE  GenerationIsKept'
<1> SUFFICES ASSUME NEW j \in Jobs', future'[j] = "pending", job'[j].kind = "partial"
             PROVE  /\ gens'[job'[j].session] \in {job'[j].gen, 0}
                    /\ j \in heap' => gens'[job'[j].session] = job'[j].gen
  BY DEF GenerationIsKept, Pending, IsPartial, SessionOf
<1>1. CASE j \notin Jobs
  BY <1>1, NewJob
<1>2. CASE j \in Jobs
  <2>1. job'[j] = job[j]
    BY <1>2, BatchChanges
  <2>2. Pending(j) /\ (j \in heap' => j \in heap)
    BY <1>2, SettledStays DEF Pending
  <2>3. IsPartial(j)
    BY <2>1 DEF IsPartial
  <2>4. /\ gens[SessionOf(j)] \in {job[j].gen, 0}
        /\ j \in heap => gens[SessionOf(j)] = job[j].gen
    BY <1>2, <2>2, <2>3 DEF GenerationIsKept
  <2>5. \/ gens'[SessionOf(j)] = gens[SessionOf(j)]
        \/ gens'[SessionOf(j)] = 0 /\ j \notin heap
    BY <1>2, <2>2, <2>3, CounterOfLivePartial
  <2> QED BY <2>1, <2>2, <2>4, <2>5 DEF SessionOf
<1> QED BY <1>1, <1>2

LEMMA GenerationInvariant == Spec => [](IInv /\ QueueInv /\ GenerationIsKept)
<1>1. Init => GenerationIsKept
  BY DEF Init, GenerationIsKept, Jobs
<1>2. IInv /\ QueueInv /\ GenerationIsKept /\ [Next]_vars => GenerationIsKept'
  BY NextGeneration
<1> QED BY <1>1, <1>2, QueueInvariant, PTL DEF Spec

(* A queued partial keeps the generation of its session and a running one    *)
(* can only lose it to a dropped counter, for every number of workers and    *)
(* every cancellation.                                                       *)
THEOREM QueuedPartialsKeepTheirGeneration == Spec => []GenerationIsKept
BY GenerationInvariant, PTL


(* The steps that fail a job as stale: newer audio of its session, accepted  *)
(* or refused; or the end of its own run, when the counter has been dropped. *)
LEMMA StaleCause ==
  ASSUME IInv, [Next]_vars, NEW j \in Jobs, Pending(j), future'[j] = "stale"
  PROVE  IsPartial(j) /\ (SupersededNow(j) \/ CounterIsGone(j))
<1>1. CASE Submit
  <2>1. PICK s, kind, gen, shape :
          s \in Sessions /\ (Enqueue(s, kind, gen, shape) \/ SubmitFinalBusy(s))
    BY <1>1 DEF Submit, SubmitFinal, SubmitPartial
  <2>2. ASSUME j \in Superseded(s) PROVE IsPartial(j) /\ SessionOf(j) = s
    BY <2>1, <2>2 DEF Superseded, IInv, PartialEntries
  <2>3. CASE Enqueue(s, kind, gen, shape)
    <3>1. /\ NextSequence \in Jobs' /\ job'[NextSequence].session = s
          /\ NextSequence # j
          /\ j \in Superseded(s)
      BY <2>1, <2>3, EnqueueEffect DEF IInv, Pending
    <3>2. NextSequence \notin Jobs
      BY DEF IInv, TypeOK, Jobs, NextSequence
    <3> QED BY <2>2, <3>1, <3>2 DEF SupersededNow
  <2>4. CASE SubmitFinalBusy(s)
    <3>1. j \in Superseded(s)
      BY <2>4 DEF SubmitFinalBusy, Settle, Pending
    <3> QED BY <2>2, <2>4, <3>1 DEF SupersededNow
  <2> QED BY <2>1, <2>3, <2>4
<1>2. CASE \E w \in Workers : FinishBatch(w)
  <2>1. PICK w \in Workers : FinishBatch(w)
    BY <1>2
  <2>2. j \in batch[w] /\ Spoiled(j)
    BY <2>1 DEF FinishBatch, Pending
  <2>3. IsPartial(j) /\ job[j].gen # gens[SessionOf(j)]
    BY <2>2 DEF Spoiled, IInv, StaleIsSettled
  <2>4. j \notin heap
    BY <2>2 DEF IInv, ServedOnce
  <2> QED BY <2>3, <2>4 DEF CounterIsGone
<1>3. CASE \E i \in Jobs : Cancel(i)
  BY <1>3 DEF Cancel, Settle, Pending
<1>4. CASE BeginClose
  BY <1>4 DEF BeginClose, Settle, Pending
<1>5. CASE \/ Start \/ EndClose \/ UNCHANGED vars
           \/ \E i \in Jobs : Resume(i) \/ Unwind(i) \/ Interrupted(i)
           \/ \E w \in Workers : \/ CheckQueue(w) \/ BatchWaitElapses(w)
                                 \/ PickBatch(w) \/ PickNothing(w)
  BY <1>5 DEF Start, EndClose, vars, Resume, Unwind, Interrupted, CheckQueue,
              BatchWaitElapses, PickBatch, PickNothing, Scan, Pending
<1> QED BY <1>1, <1>2, <1>3, <1>4, <1>5 DEF Next, Worker

(* A job that releases the counter of a live partial is a final of the       *)
(* partial's generation: the partial itself still stands in _partials.       *)
LEMMA ReleasedByFinal ==
  ASSUME IInv, NEW j \in Jobs, Pending(j), IsPartial(j),
         gens[SessionOf(j)] = job[j].gen,
         NEW f \in Jobs, NEW rest, NEW ps, Releases(f, rest, ps),
         SessionOf(f) = SessionOf(j), ps[SessionOf(j)] = partials[SessionOf(j)]
  PROVE  ~IsPartial(f) /\ SessionOf(f) = SessionOf(j) /\ job[f].gen = job[j].gen
<1>1. partials[SessionOf(j)] = j /\ j # NoJob
  BY LivePartial
<1> QED BY <1>1 DEF Releases

(* What drops the counter of a partial that stays alive in a step.           *)
LEMMA DropCause ==
  ASSUME IInv, [Next]_vars, NEW j \in Jobs, Pending(j), IsPartial(j),
         future'[j] = "pending", gens[SessionOf(j)] = job[j].gen,
         gens'[SessionOf(j)] # job[j].gen
  PROVE  EndingFinals(j) # {}
<1> DEFINE s == SessionOf(j)
<1>0. /\ s \in Sessions /\ partials[s] = j /\ j # NoJob /\ j \notin stale
      /\ TypeOK /\ gens'[s] # gens[s]
  BY LivePartial DEF IInv
<1> HIDE DEF s
<1>1. ASSUME NEW r \in Sessions, NEW shape \in Shapes, SubmitFinal(r, shape)
      PROVE  FALSE
  <2>1. r = s
    BY <1>0, <1>1 DEF SubmitFinal, TypeOK
  <2>2. j \in Superseded(s)
    BY <1>0 DEF Superseded
  <2>3. future'[j] = "stale"
    BY <1>0, <1>1, <2>1, <2>2 DEF SubmitFinal, Enqueue, Extend, Settle, Jobs, TypeOK
  <2> QED BY <2>3
<1>2. ASSUME NEW f \in Jobs, Unwind(f) PROVE f \in EndingFinals(j)
  <2> DEFINE ps   == [r \in Sessions |-> IF partials[r] \in Abandoned(f) THEN NoJob
                                                                         ELSE partials[r]]
             rest == heap \ (stale \cup Abandoned(f))
  <2>1. /\ caller[f] = "cancelling"
        /\ gens' = IF Releases(f, rest, ps)
                   THEN [gens EXCEPT ![SessionOf(f)] = 0] ELSE gens
    BY <1>2 DEF Unwind
  <2>2. j \notin Abandoned(f)
    BY <2>1 DEF Abandoned, IInv, CancelledIsSettled
  <2>3. ps[s] = partials[s]
    BY <1>0, <2>2
  <2> HIDE DEF ps, rest
  <2>4. Releases(f, rest, ps) /\ SessionOf(f) = s
    BY <1>0, <2>1 DEF TypeOK
  <2> QED BY <2>1, <2>3, <2>4, ReleasedByFinal DEF EndingFinals, s
<1>3. ASSUME NEW w \in Workers, PickBatch(w) \/ PickNothing(w)
      PROVE  EndingFinals(j) # {}
  <2>1. gens' = [r \in Sessions |-> IF r \in ReleasedByScan THEN 0 ELSE gens[r]]
    BY <1>3 DEF PickBatch, PickNothing, Scan
  <2>2. s \in ReleasedByScan
    BY <1>0, <2>1
  <2>3. PICK f \in Dead : /\ SessionOf(f) = s
                          /\ Releases(f, {k \in heap \ stale : Before(f, k)}, partials)
    BY <2>2 DEF ReleasedByScan
  <2>4. f \in Jobs
    BY <1>0 DEF Dead, TypeOK
  <2>5. f \in EndingFinals(j)
    BY <2>3, <2>4, ReleasedByFinal DEF EndingFinals, s
  <2> QED BY <2>5
<1>4. ASSUME NEW w \in Workers, FinishBatch(w) PROVE EndingFinals(j) # {}
  <2> DEFINE b  == batch[w]
             ps == [r \in Sessions |-> IF partials[r] \in b THEN NoJob ELSE partials[r]]
  <2>1. /\ pc[w] = "run"
        /\ gens' = [r \in Sessions |->
                      IF \E f \in b : SessionOf(f) = r /\ Releases(f, heap \ stale, ps)
                      THEN 0 ELSE gens[r]]
    BY <1>4 DEF FinishBatch
  <2>2. j \notin b
    <3>1. PICK outcome \in {"result", "error"} :
            future' = [k \in Jobs |->
                         IF k \notin b \/ ~Pending(k) THEN future[k]
                         ELSE IF Spoiled(k) THEN "stale" ELSE outcome]
      BY <1>4 DEF FinishBatch
    <3> QED BY <3>1
  <2>3. ps[s] = partials[s]
    BY <1>0, <2>2
  <2> HIDE DEF ps
  <2>4. PICK f \in b : SessionOf(f) = s /\ Releases(f, heap \ stale, ps)
    BY <1>0, <2>1
  <2>5. f \in Jobs /\ Running(f)
    BY <1>0, <2>1, <2>4 DEF Running, TypeOK
  <2>6. f \in EndingFinals(j)
    BY <2>3, <2>4, <2>5, ReleasedByFinal DEF EndingFinals, s
  <2> QED BY <2>6
<1>5. ASSUME EndClose PROVE FALSE
  <2>1. heap = {} /\ \A w \in Workers : pc[w] = "exited"
    BY <1>5 DEF EndClose, WorkersExited, IInv, NotRunningIsEmpty
  <2> QED BY <2>1, LivePartial
<1>6. CASE \/ Start \/ BeginClose \/ UNCHANGED vars
           \/ \E r \in Sessions, shape \in Shapes : SubmitPartial(r, shape)
           \/ \E r \in Sessions : SubmitFinalBusy(r)
           \/ \E i \in Jobs : Resume(i) \/ Cancel(i) \/ Interrupted(i)
           \/ \E w \in Workers : CheckQueue(w) \/ BatchWaitElapses(w)
  BY <1>0, <1>6
  DEF Start, BeginClose, vars, SubmitPartial, SubmitFinalBusy, Resume, Cancel,
      Interrupted, CheckQueue, BatchWaitElapses
<1> QED BY <1>1, <1>2, <1>3, <1>4, <1>5, <1>6 DEF Next, Worker, Submit

(* Why a call fails with StalePartialError, and what may drop the counter of *)
(* a partial that runs, for every number of workers, every cancellation and  *)
(* every refusal.                                                            *)
THEOREM StalenessIsExplained == Spec => StalenessHasACause
<1> DEFINE Explained ==
      \A j \in Jobs : Pending(j) =>
        /\ future'[j] = "stale" =>
             IsPartial(j) /\ (SupersededNow(j) \/ CounterIsGone(j))
        /\ /\ IsPartial(j) /\ future'[j] = "pending"
           /\ gens[SessionOf(j)] = job[j].gen /\ gens'[SessionOf(j)] # job[j].gen
           => EndingFinals(j) # {}
<1>1. IInv /\ [Next]_vars => [Explained]_vars
  BY StaleCause, DropCause
<1> QED BY <1>1, Invariant, PTL DEF Spec, StalenessHasACause

-----------------------------------------------------------------------------
(* The scheduler implements its contract: the step each action is mapped to.  *)

(* What a transport knows of an accepted call, job by job.                    *)
LEMMA CallStatusOf ==
  ASSUME TypeOK
  PROVE  /\ \A j \in Jobs : CallStatus[j] = "waiting" <=> Pending(j) /\ j \in heap
         /\ \A j \in Jobs : CallStatus[j] = "running" <=> Pending(j) /\ j \notin heap
         /\ \A j \in Jobs : ~Pending(j) => CallStatus[j] = future[j]
         /\ \A j \in Jobs : CallStatus[j] \in {"waiting", "running"} <=> Pending(j)
BY DEF TypeOK, CallStatus, Pending, Outcomes

(* A step that accepts no call leaves owners and kinds alone.                 *)
LEMMA SameCalls ==
  ASSUME sequence' = sequence, job' = job
  PROVE  /\ Jobs' = Jobs
         /\ [j \in Jobs |-> SessionOf(j)]' = [j \in Jobs |-> SessionOf(j)]
         /\ [j \in Jobs |-> IsPartial(j)]' = [j \in Jobs |-> IsPartial(j)]
BY DEF Jobs, SessionOf, IsPartial

(* A step that settles nothing and moves no unsettled job in or out of the    *)
(* queue is not visible to the transports.                                    *)
LEMMA Invisible ==
  ASSUME sequence' = sequence, job' = job, (phase' = "up") = (phase = "up"),
         \A j \in Jobs : /\ future'[j] = future[j]
                         /\ Pending(j) => (j \in heap' <=> j \in heap)
  PROVE  UNCHANGED Contract!vars
<1>1. CallStatus' = CallStatus
  BY SameCalls DEF CallStatus, Pending
<1> QED BY <1>1, SameCalls DEF Contract!vars

(* The unsettled partial of a session is the entry of _partials.              *)
LEMMA OutdatedPartial ==
  ASSUME IInv, NEW s \in Sessions
  PROVE  Contract!Outdated(s) = {j \in Superseded(s) : j \in Jobs /\ Pending(j)}
<1>1. \A j \in Jobs : CallStatus[j] \in {"waiting", "running"} <=> Pending(j)
  BY CallStatusOf DEF IInv
<1>2. Contract!Outdated(s)
        = {j \in Jobs : SessionOf(j) = s /\ IsPartial(j) /\ Pending(j)}
  BY <1>1 DEF Contract!Outdated, Contract!Calls, Contract!Unsettled, Jobs
<1>3. ASSUME NEW j \in Jobs, Pending(j)
      PROVE  SessionOf(j) = s /\ IsPartial(j) <=> j \in Superseded(s)
  <2>1. j # NoJob
    BY DEF Jobs, NoJob
  <2>2. SessionOf(j) = s /\ IsPartial(j) => partials[s] = j
    BY <1>3 DEF IInv, LivePartialIsNewest
  <2>3. partials[s] = j => SessionOf(j) = s /\ IsPartial(j)
    BY <2>1 DEF IInv, PartialEntries
  <2> QED BY <2>1, <2>2, <2>3 DEF Superseded
<1> QED BY <1>2, <1>3

LEMMA EnqueueAccepts ==
  ASSUME IInv, NEW s \in Sessions, NEW kind \in Kinds, NEW gen, NEW shape,
         phase = "up", sequence < MaxJobs, Enqueue(s, kind, gen, shape),
         kind = "partial" => partials[s] \notin started
  PROVE  Contract!Accept(s, kind = "partial")
<1>1. /\ Jobs' = Jobs \cup {NextSequence} /\ NextSequence \notin Jobs
      /\ \A j \in Jobs : job'[j] = job[j]
      /\ \A j \in Jobs : future'[j] = IF j \in Superseded(s) /\ Pending(j)
                                      THEN "stale" ELSE future[j]
      /\ job'[NextSequence].session = s /\ job'[NextSequence].kind = kind
      /\ future'[NextSequence] = "pending"
  BY EnqueueEffect DEF IInv
<1>2. /\ heap' = heap \cup {NextSequence} /\ phase' = phase
      /\ sequence' = sequence + 1
  BY DEF Enqueue
<1>3. Contract!Outdated(s) = {j \in Superseded(s) : j \in Jobs /\ Pending(j)}
  BY OutdatedPartial
<1>4. Jobs' = 1..(sequence + 1) /\ Jobs = 1..sequence /\ NextSequence = sequence + 1
  BY <1>2 DEF Jobs, NextSequence
<1>5. [j \in Jobs |-> SessionOf(j)]' = Contract!Add([j \in Jobs |-> SessionOf(j)], s)
  BY <1>1, <1>4 DEF Contract!Add, Contract!Calls, SessionOf
<1>6. [j \in Jobs |-> IsPartial(j)]'
        = Contract!Add([j \in Jobs |-> IsPartial(j)], kind = "partial")
  BY <1>1, <1>4 DEF Contract!Add, Contract!Calls, IsPartial
<1>7. ASSUME NEW j \in Jobs
      PROVE  CallStatus'[j] = IF j \in Contract!Outdated(s) THEN "stale"
                                                            ELSE CallStatus[j]
  <2>1. CASE j \in Superseded(s) /\ Pending(j)
    BY <1>1, <1>3, <2>1 DEF CallStatus, Pending
  <2>2. CASE ~(j \in Superseded(s) /\ Pending(j))
    BY <1>1, <1>2, <1>3, <2>2 DEF CallStatus, Pending
  <2> QED BY <2>1, <2>2
<1>8. CallStatus'[NextSequence] = "waiting"
  BY <1>1, <1>2 DEF CallStatus, Pending
<1>9. CallStatus' = Contract!Add(Contract!StatusWithout(Contract!Outdated(s)), "waiting")
  <2>1. CallStatus' = [j \in Jobs' |-> CallStatus'[j]]
    BY DEF CallStatus
  <2> QED BY <1>1, <1>4, <1>7, <1>8, <2>1
          DEF Contract!Add, Contract!Calls, Contract!StatusWithout
<1>10. ASSUME kind = "partial", NEW j \in Contract!Outdated(s)
       PROVE  CallStatus[j] = "waiting"
  <2>1. j \in Jobs /\ Pending(j) /\ j \notin started
    BY <1>3, <1>10 DEF Superseded
  <2>2. j \in heap
    BY <2>1 DEF IInv, NoOrphan, Running, ServedOnce
  <2> QED BY <2>1, <2>2 DEF CallStatus
<1> QED BY <1>2, <1>5, <1>6, <1>9, <1>10 DEF Contract!Accept

LEMMA BusyRefuses ==
  ASSUME IInv, NEW s \in Sessions, SubmitFinalBusy(s)
  PROVE  Contract!Refuse(s)
<1>1. UNCHANGED <<phase, sequence, job, heap>> /\ phase = "up"
  BY DEF SubmitFinalBusy, jobVars
<1>2. /\ Jobs' = Jobs
      /\ [j \in Jobs |-> SessionOf(j)]' = [j \in Jobs |-> SessionOf(j)]
      /\ [j \in Jobs |-> IsPartial(j)]' = [j \in Jobs |-> IsPartial(j)]
  BY <1>1, SameCalls
<1>3. Contract!Outdated(s) = {j \in Superseded(s) : j \in Jobs /\ Pending(j)}
  BY OutdatedPartial
<1>4. \A j \in Jobs : future'[j] = IF j \in Superseded(s) /\ Pending(j)
                                   THEN "stale" ELSE future[j]
  BY DEF SubmitFinalBusy, Settle
<1>5. ASSUME NEW j \in Jobs
      PROVE  CallStatus'[j] = IF j \in Contract!Outdated(s) THEN "stale"
                                                            ELSE CallStatus[j]
  <2>1. CASE j \in Superseded(s) /\ Pending(j)
    BY <1>2, <1>3, <1>4, <2>1 DEF CallStatus, Pending
  <2>2. CASE ~(j \in Superseded(s) /\ Pending(j))
    BY <1>1, <1>2, <1>3, <1>4, <2>2 DEF CallStatus, Pending
  <2> QED BY <2>1, <2>2
<1>6. CallStatus' = Contract!StatusWithout(Contract!Outdated(s))
  <2>1. CallStatus' = [j \in Jobs |-> CallStatus'[j]]
    BY <1>2 DEF CallStatus
  <2> QED BY <1>5, <2>1 DEF Contract!StatusWithout, Contract!Calls, Jobs
<1> QED BY <1>1, <1>2, <1>6 DEF Contract!Refuse

LEMMA CancelAbandons ==
  ASSUME IInv, NEW j \in Jobs, Cancel(j)
  PROVE  Contract!Abandon(j) \/ UNCHANGED Contract!vars
<1>1. UNCHANGED <<phase, sequence, job, heap>>
  BY DEF Cancel, jobVars
<1>2. /\ Jobs' = Jobs
      /\ [k \in Jobs |-> SessionOf(k)]' = [k \in Jobs |-> SessionOf(k)]
      /\ [k \in Jobs |-> IsPartial(k)]' = [k \in Jobs |-> IsPartial(k)]
  BY <1>1, SameCalls
<1>3. \A k \in Jobs : future'[k] = IF k = j /\ Pending(j) THEN "cancelled" ELSE future[k]
  BY DEF Cancel, Settle
<1>4. CASE ~Pending(j)
  BY <1>1, <1>3, <1>4, Invisible
<1>5. CASE Pending(j)
  <2>1. CallStatus[j] \in {"waiting", "running"}
    BY <1>5 DEF CallStatus
  <2>2. CallStatus' = [CallStatus EXCEPT ![j] = "cancelled"]
    BY <1>1, <1>2, <1>3, <1>5 DEF CallStatus, Pending
  <2> QED BY <1>1, <1>2, <2>1, <2>2 DEF Contract!Abandon, Contract!Unsettled
<1> QED BY <1>4, <1>5

LEMMA CallerInvisible ==
  ASSUME NEW j \in Jobs, Resume(j) \/ Unwind(j) \/ Interrupted(j)
  PROVE  UNCHANGED Contract!vars
<1>1. UNCHANGED <<phase, sequence, job, future, heap>>
  BY DEF Resume, Unwind, Interrupted, jobVars
<1> QED BY <1>1, Invisible

LEMMA PickBegins ==
  ASSUME IInv, QueueInv, NEW w \in Workers, PickBatch(w)
  PROVE  \E S \in SUBSET Contract!Calls : Contract!Begin(S)
<1>1. PICK b \in SUBSET Live : IsBatch(b) /\ heap' = Live \ b
  BY DEF PickBatch, Retained
<1>2. UNCHANGED <<phase, sequence, job, future>>
  BY DEF PickBatch, Scan, jobVars
<1>3. /\ Jobs' = Jobs
      /\ [j \in Jobs |-> SessionOf(j)]' = [j \in Jobs |-> SessionOf(j)]
      /\ [j \in Jobs |-> IsPartial(j)]' = [j \in Jobs |-> IsPartial(j)]
  BY <1>2, SameCalls
<1>4. /\ \A j \in heap : j \in Live <=> Pending(j)
      /\ Live \subseteq heap /\ heap \subseteq Jobs
  BY LiveIsWaiting DEF IInv, TypeOK
<1>5. /\ \A j \in Jobs : CallStatus[j] = "waiting" <=> j \in Live
      /\ b \subseteq Jobs
  BY <1>4, CallStatusOf DEF IInv
<1>6. ASSUME NEW j \in Live, NEW k \in b, ~IsPartial(j)
      PROVE  ~IsPartial(k)
  <2>1. PICK first \in Live :
          /\ first \in b
          /\ \A i \in Live \ {first} : Before(first, i)
          /\ \A i \in b \ {first} : Compatible(first, i)
    BY <1>1 DEF IsBatch
  <2>2. ~IsPartial(first)
    BY <1>6, <2>1 DEF Before
  <2> QED BY <2>1, <2>2 DEF Compatible
<1>7. CallStatus' = [j \in Jobs |-> IF j \in b THEN "running" ELSE CallStatus[j]]
  <2>1. CallStatus' = [j \in Jobs |-> CallStatus'[j]]
    BY <1>3 DEF CallStatus
  <2>2. ASSUME NEW j \in Jobs
        PROVE  CallStatus'[j] = IF j \in b THEN "running" ELSE CallStatus[j]
    <3>1. CallStatus'[j] = IF ~Pending(j) THEN future[j]
                           ELSE IF j \in heap' THEN "waiting" ELSE "running"
      BY <1>2, <1>3 DEF CallStatus, Pending
    <3> QED BY <1>1, <1>4, <3>1 DEF CallStatus
  <2> QED BY <2>1, <2>2
<1>8. Contract!Begin(b)
  BY <1>2, <1>3, <1>5, <1>6, <1>7 DEF Contract!Begin, Contract!Calls, Jobs
<1> QED BY <1>5, <1>8 DEF Contract!Calls, Jobs

LEMMA FinishSettles ==
  ASSUME IInv, NEW w \in Workers, FinishBatch(w)
  PROVE  \E S \in SUBSET Contract!Calls : Contract!Settle(S)
<1> DEFINE S == {j \in batch[w] : Pending(j)}
           spoiled == {j \in S : Spoiled(j)}
<1>1. UNCHANGED <<phase, sequence, job, heap>>
  BY DEF FinishBatch, jobVars
<1>2. /\ Jobs' = Jobs
      /\ [j \in Jobs |-> SessionOf(j)]' = [j \in Jobs |-> SessionOf(j)]
      /\ [j \in Jobs |-> IsPartial(j)]' = [j \in Jobs |-> IsPartial(j)]
  BY <1>1, SameCalls
<1>3. PICK outcome \in {"result", "error"} :
        future' = [j \in Jobs |->
                     IF j \notin batch[w] \/ ~Pending(j) THEN future[j]
                     ELSE IF Spoiled(j) THEN "stale" ELSE outcome]
  BY DEF FinishBatch
<1>4. S \subseteq Jobs /\ S \cap heap = {}
  BY DEF IInv, TypeOK, ServedOnce
<1>5. \A j \in spoiled : IsPartial(j)
  BY DEF Spoiled, IInv, StaleIsSettled
<1>6. \A j \in S : CallStatus[j] = "running"
  BY <1>4 DEF CallStatus
<1>7. CallStatus' = [j \in Jobs |-> IF j \in spoiled THEN "stale"
                                    ELSE IF j \in S THEN outcome
                                    ELSE CallStatus[j]]
  <2>1. CallStatus' = [j \in Jobs |-> CallStatus'[j]]
    BY <1>2 DEF CallStatus
  <2>2. ASSUME NEW j \in Jobs
        PROVE  CallStatus'[j] = IF j \in spoiled THEN "stale"
                                ELSE IF j \in S THEN outcome ELSE CallStatus[j]
    <3>1. CallStatus'[j] = IF future'[j] # "pending" THEN future'[j]
                           ELSE IF j \in heap THEN "waiting" ELSE "running"
      BY <1>1, <1>2 DEF CallStatus, Pending
    <3>2. CASE j \in S
      BY <1>3, <3>1, <3>2
    <3>3. CASE j \notin S
      BY <1>3, <3>1, <3>3 DEF CallStatus, Pending
    <3> QED BY <3>2, <3>3
  <2> QED BY <2>1, <2>2
<1>8. spoiled \in SUBSET {j \in S : [k \in Jobs |-> IsPartial(k)][j]}
  BY <1>4, <1>5
<1> HIDE DEF S, spoiled
<1>9. Contract!Settle(S)
  BY <1>1, <1>2, <1>6, <1>7, <1>8 DEF Contract!Settle, Contract!Calls, Jobs
<1> QED BY <1>4, <1>9 DEF Contract!Calls, Jobs

LEMMA WorkerInvisible ==
  ASSUME IInv, QueueInv, NEW w \in Workers,
         CheckQueue(w) \/ BatchWaitElapses(w) \/ PickNothing(w)
  PROVE  UNCHANGED Contract!vars
<1>1. UNCHANGED <<phase, sequence, job, future>>
  BY DEF CheckQueue, BatchWaitElapses, PickNothing, Scan, jobVars
<1>2. CASE CheckQueue(w) \/ BatchWaitElapses(w)
  BY <1>1, <1>2, Invisible DEF CheckQueue, BatchWaitElapses
<1>3. CASE PickNothing(w)
  <2>1. heap' = {} /\ \A j \in heap : ~Pending(j)
    BY <1>3, LiveIsWaiting DEF PickNothing
  <2> QED BY <1>1, <2>1, Invisible
<1> QED BY <1>2, <1>3

LEMMA StartOpens == ASSUME IInv, Start PROVE Contract!Open
<1>1. UNCHANGED <<sequence, job, future, heap>> /\ phase # "up" /\ phase' = "up"
  BY DEF Start, jobVars
<1>2. \A j \in Jobs : ~Pending(j)
  BY DEF Start, IInv, NotRunningIsEmpty, WorkersExited, NoOrphan, Running
<1>3. \A j \in Jobs : CallStatus[j] \notin {"waiting", "running"}
  BY <1>2, CallStatusOf DEF IInv
<1>4. CallStatus' = CallStatus
  BY <1>1 DEF CallStatus, Jobs, Pending
<1> QED BY <1>1, <1>3, <1>4, SameCalls
        DEF Contract!Open, Contract!Calls, Contract!Unsettled, Jobs

LEMMA BeginCloseCloses == ASSUME IInv, BeginClose PROVE Contract!Close
<1>1. UNCHANGED <<sequence, job>> /\ phase = "up" /\ phase' = "joining" /\ heap' = {}
  BY DEF BeginClose, jobVars
<1>2. /\ Jobs' = Jobs
      /\ [j \in Jobs |-> SessionOf(j)]' = [j \in Jobs |-> SessionOf(j)]
      /\ [j \in Jobs |-> IsPartial(j)]' = [j \in Jobs |-> IsPartial(j)]
  BY <1>1, SameCalls
<1>3. \A j \in Jobs :
        future'[j] = IF j \in heap \ stale /\ Pending(j) THEN "closed" ELSE future[j]
  BY DEF BeginClose, Settle, Drained
<1>4. \A j \in Jobs : Pending(j) => j \notin stale
  BY DEF IInv, StaleIsSettled
<1>5. CallStatus' = [j \in Jobs |-> IF CallStatus[j] = "waiting" THEN "closed"
                                                               ELSE CallStatus[j]]
  <2>1. CallStatus' = [j \in Jobs |-> CallStatus'[j]]
    BY <1>2 DEF CallStatus
  <2>2. ASSUME NEW j \in Jobs
        PROVE  CallStatus'[j] = IF CallStatus[j] = "waiting" THEN "closed"
                                                             ELSE CallStatus[j]
    <3>1. CallStatus[j] = "waiting" <=> Pending(j) /\ j \in heap
      BY CallStatusOf DEF IInv
    <3>2. CallStatus'[j] = IF future'[j] # "pending" THEN future'[j] ELSE "running"
      BY <1>1, <1>2 DEF CallStatus, Pending
    <3> QED BY <1>3, <1>4, <3>1, <3>2 DEF CallStatus, Pending
  <2> QED BY <2>1, <2>2
<1> QED BY <1>1, <1>2, <1>5 DEF Contract!Close, Contract!Calls, Jobs

LEMMA EndCloseInvisible == ASSUME EndClose PROVE UNCHANGED Contract!vars
<1>1. /\ UNCHANGED <<sequence, job, future, heap>>
      /\ phase = "joining" /\ phase' = "down"
  BY DEF EndClose, jobVars
<1> QED BY <1>1, Invisible

LEMMA InitContract == Init => Contract!Init
<1> SUFFICES ASSUME Init PROVE Contract!Init
  OBVIOUS
<1>1. Jobs = {} /\ sequence = 0 /\ phase = "new"
  BY DEF Init, Jobs
<1> QED BY <1>1 DEF Contract!Init, Contract!Calls, CallStatus

LEMMA NextContract ==
  IInv /\ QueueInv /\ [Next]_vars => [Contract!Next]_(Contract!vars)
<1> SUFFICES ASSUME IInv, QueueInv, [Next]_vars
             PROVE  Contract!Next \/ UNCHANGED Contract!vars
  OBVIOUS
<1>1. CASE UNCHANGED vars
  BY <1>1, Invisible DEF vars
<1>2. CASE Submit
  <2>1. PICK s \in Sessions :
          \/ \E shape \in Shapes : SubmitFinal(s, shape) \/ SubmitPartial(s, shape)
          \/ SubmitFinalBusy(s)
    BY <1>2 DEF Submit
  <2>2. ASSUME NEW shape \in Shapes, SubmitFinal(s, shape)
        PROVE  Contract!Accept(s, FALSE)
    <3>1. Contract!Accept(s, "final" = "partial")
      BY <2>2, EnqueueAccepts DEF SubmitFinal, Kinds
    <3>2. ("final" = "partial") = FALSE
      OBVIOUS
    <3> QED BY <3>1, <3>2
  <2>3. ASSUME NEW shape \in Shapes, SubmitPartial(s, shape)
        PROVE  Contract!Accept(s, TRUE)
    <3>1. Contract!Accept(s, "partial" = "partial")
      BY <2>3, EnqueueAccepts DEF SubmitPartial, Kinds
    <3>2. ("partial" = "partial") = TRUE
      OBVIOUS
    <3> QED BY <3>1, <3>2
  <2>4. SubmitFinalBusy(s) => Contract!Refuse(s)
    BY BusyRefuses
  <2> QED BY <2>1, <2>2, <2>3, <2>4 DEF Contract!Next
<1>3. CASE \E j \in Jobs : Resume(j) \/ Cancel(j) \/ Unwind(j) \/ Interrupted(j)
  <2>1. PICK j \in Jobs : Resume(j) \/ Cancel(j) \/ Unwind(j) \/ Interrupted(j)
    BY <1>3
  <2>2. Contract!Abandon(j) \/ UNCHANGED Contract!vars
    BY <2>1, CancelAbandons, CallerInvisible
  <2> QED BY <2>2 DEF Contract!Next, Contract!Calls, Jobs
<1>4. CASE \E w \in Workers : Worker(w)
  BY <1>4, PickBegins, FinishSettles, WorkerInvisible DEF Worker, Contract!Next
<1>5. CASE Start \/ BeginClose \/ EndClose
  BY <1>5, StartOpens, BeginCloseCloses, EndCloseInvisible DEF Contract!Next
<1> QED BY <1>1, <1>2, <1>3, <1>4, <1>5 DEF Next

(* The scheduler keeps the promises its callers rely on, for any number of    *)
(* sessions, workers, jobs and cancellations: every step of the queue, the    *)
(* workers and close is a step of SchedulerContract or none that a caller     *)
(* can see.                                                                   *)
THEOREM SchedulerImplementsContract == Spec => ImplementsContract
<1>1. Init => Contract!Init
  BY InitContract
<1>2. IInv /\ QueueInv /\ [Next]_vars => [Contract!Next]_(Contract!vars)
  BY NextContract
<1> QED BY <1>1, <1>2, QueueInvariant, PTL DEF Spec, ImplementsContract, Contract!Spec

-----------------------------------------------------------------------------
(* The scheduler inside the service.                                         *)

(* A request that waits for its job, or gives it up, knows which one it is.  *)
LEMMA OwnJob ==
  ASSUME RequestsFollowJobs, NEW r \in Requests, req[r] \in {"awaiting", "leaving"}
  PROVE  /\ JobOf(r) \in Jobs /\ SessionOf(JobOf(r)) = r
         /\ \A j \in Jobs : SessionOf(j) = r => j = JobOf(r)
<1>1. \E j \in Jobs : SessionOf(j) = r
  BY DEF RequestsFollowJobs
<1>2. JobOf(r) \in Jobs /\ SessionOf(JobOf(r)) = r
  BY <1>1 DEF JobOf
<1> QED BY <1>2 DEF RequestsFollowJobs

(* Whatever the service does is a step of its scheduler, or none.            *)
LEMMA SchedulerStep ==
  ASSUME RequestsFollowJobs, [ServiceNext]_serviceVars
  PROVE  [Next]_vars
<1>1. CASE UNCHANGED serviceVars
  BY <1>1 DEF serviceVars
<1>2. CASE BeginStartup \/ StartupRejected \/ StopServing
  BY <1>2 DEF BeginStartup, StartupRejected, StopServing
<1>3. CASE Lifespan
  BY <1>3 DEF Lifespan, StartEngine, ProviderFails, EngineMissing, Serve, EngineFails,
              CloseScheduler, ShutDownEngine, CloseProvider, Next
<1>4. CASE \E r \in Requests : Receive(r) \/ TimesOutEarly(r)
  BY <1>4 DEF Receive, TurnedAway, Arrive, BodyTooLarge,
              FormRejected, NotReady, Admit, TimesOutEarly
<1>5. CASE \E r \in Requests : UploadTooLarge(r) \/ DecodePCM(r) \/ BeginDecode(r)
                               \/ DecodeAudio(r) \/ Refused(r)
  BY <1>5 DEF UploadTooLarge, DecodePCM, BeginDecode, DecodeAudio, Refused
<1>6. CASE \E r \in Requests : Submits(r)
  BY <1>6, ServiceAssumption DEF ServiceAssumption, Submits, Submit, Next
<1>7. CASE \E s \in Connections : Speak(s)
  BY <1>7 DEF Speak, Connections, Submit, Next
<1>8. CASE \E j \in Jobs : Hear(j)
  BY <1>8 DEF Hear, Next
<1>9. CASE \E w \in Workers : Work(w)
  BY <1>9 DEF Work, Next
<1>10. CASE \E r \in Requests : Transcribed(r) \/ Deadline(r) \/ TimedOut(r)
  <2>1. PICK r \in Requests : Transcribed(r) \/ Deadline(r) \/ TimedOut(r)
    BY <1>10
  <2>2. req[r] \in {"awaiting", "leaving"}
    BY <2>1 DEF Transcribed, Deadline, TimedOut
  <2>3. JobOf(r) \in Jobs
    BY <2>2, OwnJob
  <2> QED BY <2>1, <2>3 DEF Transcribed, Deadline, TimedOut, Next
<1> QED BY <1>1, <1>2, <1>3, <1>4, <1>5, <1>6, <1>7, <1>8, <1>9, <1>10
        DEF ServiceNext, Handle

(* What the service needs to know of the steps of its scheduler.             *)
SchedulerInv == IInv /\ QueueInv

\* A settled job is out of the queue, or about to be found by a scan.
Noticed(j) ==
  /\ ~Pending(j)
  /\ j \in heap \ stale => \E w \in Workers : pc[w] \in {"gather", "pick"}

(* Once accepted a job keeps its fields, and the end of its caller's wait is *)
(* nobody's step but its own.                                                *)
LEMMA JobsStay ==
  ASSUME SchedulerInv, [Next]_vars
  PROVE  /\ Jobs \subseteq Jobs' /\ \A j \in Jobs : job'[j] = job[j]
         /\ phase # "new" => phase' # "new"
<1>1. /\ Jobs \subseteq Jobs' /\ \A j \in Jobs : job'[j] = job[j]
  BY BatchChanges DEF SchedulerInv
<1> QED BY <1>1 DEF Next, vars, Submit, SubmitFinal, SubmitPartial, SubmitFinalBusy,
                   Enqueue, Resume, Cancel, Unwind, Interrupted, Worker, CheckQueue,
                   BatchWaitElapses, PickBatch, PickNothing, FinishBatch, Scan,
                   Start, BeginClose, EndClose

(* Notifying wakes a worker in its batch wait into the scan.                 *)
LEMMA NotifyKeepsScan ==
  ASSUME TypeOK, Notify \/ NotifyAll, NEW w \in Workers, pc[w] \in {"gather", "pick"}
  PROVE  pc'[w] \in {"gather", "pick"}
BY DEF TypeOK, Notify, NotifyAll, Wake

(* No step brings a settled job back into the queue, or leaves a discarded   *)
(* one there while every worker sleeps.                                      *)
LEMMA NoticedStays ==
  ASSUME SchedulerInv, [Next]_vars, NEW j \in Jobs, Noticed(j)
  PROVE  Noticed(j)'
<1>1. TypeOK /\ DequeHoldsSleepers
  BY DEF SchedulerInv, IInv, QueueInv
<1>2. CASE UNCHANGED vars
  BY <1>2 DEF vars, Noticed, Pending
<1>3. CASE Submit
  <2>1. PICK s, kind, gen, shape :
          s \in Sessions /\ (Enqueue(s, kind, gen, shape) \/ SubmitFinalBusy(s))
    BY <1>3 DEF Submit, SubmitFinal, SubmitPartial
  <2>2. CASE SubmitFinalBusy(s)
    BY <2>2 DEF SubmitFinalBusy, Settle, workerVars, Noticed, Pending
  <2>3. CASE Enqueue(s, kind, gen, shape)
    <3>1. /\ heap' = heap \cup {NextSequence} /\ stale' = stale \cup Superseded(s)
          /\ Notify
      BY <2>3 DEF Enqueue
    <3>2. ~Pending(j)' /\ j # NextSequence
      BY <1>1, <2>1, <2>3, EnqueueEffect DEF Noticed, Pending
    <3> QED BY <1>1, <3>1, <3>2, NotifyKeepsScan DEF Noticed
  <2> QED BY <2>1, <2>2, <2>3
<1>4. CASE \E k \in Jobs : Resume(k) \/ Interrupted(k)
  BY <1>4 DEF Resume, Interrupted, jobVars, workerVars, Noticed, Pending
<1>5. CASE \E k \in Jobs : Cancel(k)
  BY <1>5 DEF Cancel, Settle, workerVars, Noticed, Pending
<1>6. CASE \E k \in Jobs : Unwind(k)
  <2>1. heap' = heap /\ stale \subseteq stale' /\ future' = future /\ NotifyAll
    BY <1>6 DEF Unwind
  <2> QED BY <1>1, <2>1, NotifyKeepsScan DEF Noticed, Pending
<1>7. CASE \E w \in Workers : CheckQueue(w) \/ BatchWaitElapses(w)
  <2>1. PICK w \in Workers : CheckQueue(w) \/ BatchWaitElapses(w)
    BY <1>7
  <2>2. UNCHANGED <<future, heap, stale>>
    BY <2>1 DEF CheckQueue, BatchWaitElapses
  <2>3. \A v \in Workers : pc[v] \in {"gather", "pick"} => pc'[v] \in {"gather", "pick"}
    BY <1>1, <2>1 DEF CheckQueue, BatchWaitElapses, Sleep, TypeOK
  <2> QED BY <2>2, <2>3 DEF Noticed, Pending
<1>8. CASE \E w \in Workers : PickBatch(w) \/ PickNothing(w)
  <2>1. future' = future /\ stale' = stale \cup Dead /\ heap' \subseteq Live
    BY <1>8 DEF PickBatch, PickNothing, Retained, Scan
  <2>2. j \notin heap'
    BY <2>1, LiveIsWaiting DEF Noticed, SchedulerInv
  <2> QED BY <2>1, <2>2 DEF Noticed, Pending
<1>9. CASE \E w \in Workers : FinishBatch(w)
  <2>1. PICK w \in Workers : FinishBatch(w)
    BY <1>9
  <2>2. UNCHANGED <<heap, stale>> /\ future'[j] = future[j]
    BY <2>1 DEF FinishBatch, Noticed
  <2>3. \A v \in Workers : pc[v] \in {"gather", "pick"} => pc'[v] \in {"gather", "pick"}
    BY <1>1, <2>1 DEF FinishBatch, TypeOK
  <2> QED BY <2>2, <2>3 DEF Noticed, Pending
<1>10. CASE Start
  <2>1. heap' = {} /\ future' = future
    BY <1>10 DEF Start, SchedulerInv, IInv, NotRunningIsEmpty
  <2> QED BY <2>1 DEF Noticed, Pending
<1>11. CASE BeginClose
  <2>1. heap' = {} /\ future'[j] = future[j]
    BY <1>11 DEF BeginClose, Settle, Noticed
  <2> QED BY <2>1 DEF Noticed, Pending
<1>12. CASE EndClose
  BY <1>12 DEF EndClose, workerVars, Noticed, Pending
<1> QED BY <1>2, <1>3, <1>4, <1>5, <1>6, <1>7, <1>8, <1>9, <1>10, <1>11, <1>12
        DEF Next, Worker

-----------------------------------------------------------------------------
(* The lifespan.                                                             *)

LifeInv == ServiceTypeOK /\ LifeMatches /\ ModelMatches /\ AnnouncedWhileServing

LEMMA LifeInit == ServiceInit => LifeInv
<1> SUFFICES ASSUME ServiceInit PROVE LifeInv
  OBVIOUS
<1>1. ServiceTypeOK
  BY DEF ServiceInit, Report, ServiceTypeOK, Stages, Statuses
<1>2. LifeMatches
  BY DEF ServiceInit, Init, LifeMatches, Holding
<1>3. ModelMatches
  <2>1. model = FALSE /\ (life \in Holding) = FALSE
    BY DEF ServiceInit, Holding
  <2> QED BY <2>1 DEF ModelMatches
<1>4. AnnouncedWhileServing
  BY DEF ServiceInit, Report, AnnouncedWhileServing
<1> QED BY <1>1, <1>2, <1>3, <1>4 DEF LifeInv

(* A request, a connection or a worker changes nothing the lifespan knows.   *)
LEMMA LifeElse ==
  ASSUME [ServiceNext]_serviceVars,
         ~(BeginStartup \/ StartupRejected \/ StopServing \/ Lifespan)
  PROVE  UNCHANGED <<lifeVars, phase>>
<1>1. CASE UNCHANGED serviceVars
  BY <1>1 DEF serviceVars, vars
<1>2. CASE \E r \in Requests : Receive(r) \/ TimesOutEarly(r)
  BY <1>2 DEF Receive, TurnedAway, Arrive, BodyTooLarge,
              FormRejected, NotReady, Admit, TimesOutEarly, vars
<1>3. CASE \E r \in Requests : UploadTooLarge(r) \/ DecodePCM(r) \/ BeginDecode(r)
                               \/ DecodeAudio(r) \/ Refused(r)
  BY <1>3 DEF UploadTooLarge, DecodePCM, BeginDecode, DecodeAudio, Refused, vars
<1>4. CASE \E r \in Requests : Submits(r)
  BY <1>4 DEF Submits, SubmitFinal, Enqueue
<1>5. CASE \E r \in Requests : Transcribed(r) \/ Deadline(r) \/ TimedOut(r)
  BY <1>5 DEF Transcribed, Deadline, TimedOut, Resume, Cancel, Unwind, Interrupted
<1>6. CASE \E s \in Connections : Speak(s)
  BY <1>6 DEF Speak, SubmitFinal, SubmitPartial, SubmitFinalBusy, Enqueue
<1>7. CASE \E j \in Jobs : Hear(j)
  BY <1>7 DEF Hear, Resume
<1>8. CASE \E w \in Workers : Work(w)
  BY <1>8 DEF Work, Worker, CheckQueue, BatchWaitElapses, PickBatch, PickNothing,
              FinishBatch, Scan
<1> QED BY <1>1, <1>2, <1>3, <1>4, <1>5, <1>6, <1>7, <1>8 DEF ServiceNext, Handle

(* No request, connection or worker steps with the lifespan.                 *)
LEMMA RequestsElse ==
  ASSUME BeginStartup \/ StartupRejected \/ StopServing \/ Lifespan
  PROVE  req' = req /\ caller' = caller /\ sequence' = sequence
BY DEF BeginStartup, StartupRejected, StopServing, Lifespan, StartEngine, ProviderFails,
       EngineMissing, Serve, EngineFails, CloseScheduler, ShutDownEngine, CloseProvider,
       requestVars, vars, Start, BeginClose, EndClose, jobVars

LEMMA RequestTypes ==
  ASSUME ServiceTypeOK, [ServiceNext]_serviceVars
  PROVE  req' \in [Requests -> {"new", "body", "upload", "decode", "lock", "awaiting",
                               "leaving", "direct", "answered"}]
<1>1. CASE req' = req
  BY <1>1 DEF ServiceTypeOK
<1>2. CASE \E r \in Requests, to \in {"body", "upload", "decode", "lock", "awaiting",
                                     "leaving", "direct", "answered"} :
             req' = [req EXCEPT ![r] = to]
  BY <1>2 DEF ServiceTypeOK
<1>3. CASE \E r \in Requests : Receive(r) \/ Handle(r) \/ TimesOutEarly(r) \/ Deadline(r)
  BY <1>2, <1>3 DEF Receive, TurnedAway, Arrive, BodyTooLarge,
                    FormRejected, NotReady, Admit, TimesOutEarly, Handle,
                    UploadTooLarge, DecodePCM, BeginDecode, DecodeAudio, Refused,
                    Submits, Transcribed, Deadline, TimedOut, Goto, Answer
<1>4. CASE UNCHANGED serviceVars
  BY <1>1, <1>4 DEF serviceVars, requestVars
<1>5. CASE BeginStartup \/ StartupRejected \/ StopServing \/ Lifespan
  BY <1>1, <1>5, RequestsElse
<1>6. CASE \/ \E s \in Connections : Speak(s)
           \/ \E j \in Jobs : Hear(j)
           \/ \E w \in Workers : Work(w)
  BY <1>1, <1>6 DEF Speak, Hear, Work, requestVars
<1> QED BY <1>3, <1>4, <1>5, <1>6 DEF ServiceNext

LEMMA LifeNext ==
  ASSUME LifeInv, [ServiceNext]_serviceVars
  PROVE  LifeInv'
<1> USE DEF LifeInv
<1>0. req' \in [Requests -> {"new", "body", "upload", "decode", "lock", "awaiting",
                            "leaving", "direct", "answered"}]
  BY RequestTypes
<1>1. CASE BeginStartup
  <2>1. ServiceTypeOK'
    BY <1>0, <1>1 DEF BeginStartup, vars, ServiceTypeOK, Stages, Statuses
  <2>2. LifeMatches'
    BY <1>1 DEF BeginStartup, vars, LifeMatches, Holding
  <2>3. ModelMatches'
    BY <1>1 DEF BeginStartup, ModelMatches, Holding
  <2>4. AnnouncedWhileServing'
    BY <1>1 DEF BeginStartup, Stopping, Stopped, Report, AnnouncedWhileServing,
                ServiceTypeOK
  <2> QED BY <2>1, <2>2, <2>3, <2>4
<1>2. CASE StartupRejected
  <2>1. ServiceTypeOK'
    BY <1>0, <1>2 DEF StartupRejected, Stopped, Report, vars, ServiceTypeOK, Stages,
                      Statuses
  <2>2. LifeMatches'
    BY <1>2 DEF StartupRejected, Stopped, Report, vars, LifeMatches, Holding
  <2>3. ModelMatches'
    BY <1>2 DEF StartupRejected, ModelMatches, Holding
  <2>4. AnnouncedWhileServing'
    BY <1>2 DEF StartupRejected, Stopping, Stopped, Report, AnnouncedWhileServing,
                ServiceTypeOK
  <2> QED BY <2>1, <2>2, <2>3, <2>4
<1>3. CASE StopServing
  <2>1. ServiceTypeOK'
    BY <1>0, <1>3 DEF StopServing, Stopping, Report, vars, ServiceTypeOK, Stages, Statuses
  <2>2. LifeMatches'
    BY <1>3 DEF StopServing, Stopping, Report, vars, LifeMatches, Holding
  <2>3. ModelMatches'
    BY <1>3 DEF StopServing, ModelMatches, Holding
  <2>4. AnnouncedWhileServing'
    BY <1>3 DEF StopServing, Stopping, Stopped, Report, AnnouncedWhileServing, ServiceTypeOK
  <2> QED BY <2>1, <2>2, <2>3, <2>4
<1>4. CASE StartEngine
  <2>1. ServiceTypeOK'
    BY <1>0, <1>4 DEF StartEngine, vars, ServiceTypeOK, Stages, Statuses
  <2>2. LifeMatches'
    BY <1>4 DEF StartEngine, vars, LifeMatches, Holding
  <2>3. ModelMatches'
    BY <1>4 DEF StartEngine, ModelMatches, Holding
  <2>4. AnnouncedWhileServing'
    BY <1>4 DEF StartEngine, Stopping, Stopped, Report, AnnouncedWhileServing, ServiceTypeOK
  <2> QED BY <2>1, <2>2, <2>3, <2>4
<1>5. CASE ProviderFails
  <2>1. ServiceTypeOK'
    BY <1>0, <1>5 DEF ProviderFails, Stopping, Report, vars, ServiceTypeOK, Stages, Statuses
  <2>2. LifeMatches'
    BY <1>5 DEF ProviderFails, Stopping, Report, vars, LifeMatches, Holding
  <2>3. ModelMatches'
    BY <1>5 DEF ProviderFails, ModelMatches, Holding
  <2>4. AnnouncedWhileServing'
    BY <1>5 DEF ProviderFails, Stopping, Stopped, Report, AnnouncedWhileServing,
                ServiceTypeOK
  <2> QED BY <2>1, <2>2, <2>3, <2>4
<1>6. CASE EngineMissing
  <2>1. ServiceTypeOK'
    BY <1>0, <1>6 DEF EngineMissing, Stopping, Report, vars, ServiceTypeOK, Stages, Statuses
  <2>2. LifeMatches'
    BY <1>6 DEF EngineMissing, Stopping, Report, vars, LifeMatches, Holding
  <2>3. ModelMatches'
    BY <1>6 DEF EngineMissing, ModelMatches, Holding
  <2>4. AnnouncedWhileServing'
    BY <1>6 DEF EngineMissing, Stopping, Stopped, Report, AnnouncedWhileServing,
                ServiceTypeOK
  <2> QED BY <2>1, <2>2, <2>3, <2>4
<1>7. CASE Serve
  <2>1. ServiceTypeOK'
    BY <1>0, <1>7 DEF Serve, Start, Report, ServiceTypeOK, Stages, Statuses
  <2>2. LifeMatches'
    BY <1>7 DEF Serve, Start, Report, LifeMatches, Holding
  <2>3. ModelMatches'
    BY <1>7 DEF Serve, ModelMatches, Holding
  <2>4. AnnouncedWhileServing'
    BY <1>7 DEF Serve, Stopping, Stopped, Report, AnnouncedWhileServing, ServiceTypeOK
  <2> QED BY <2>1, <2>2, <2>3, <2>4
<1>8. CASE EngineFails
  <2>1. ServiceTypeOK'
    BY <1>0, <1>8 DEF EngineFails, Stopping, Report, vars, ServiceTypeOK, Stages, Statuses
  <2>2. LifeMatches'
    BY <1>8 DEF EngineFails, Stopping, Report, vars, LifeMatches, Holding
  <2>3. ModelMatches'
    BY <1>8 DEF EngineFails, ModelMatches, Holding
  <2>4. AnnouncedWhileServing'
    BY <1>8 DEF EngineFails, Stopping, Stopped, Report, AnnouncedWhileServing, ServiceTypeOK
  <2> QED BY <2>1, <2>2, <2>3, <2>4
<1>9. CASE CloseScheduler
  <2>1. ServiceTypeOK'
    BY <1>0, <1>9 DEF CloseScheduler, BeginClose, ServiceTypeOK, Stages, Statuses
  <2>2. LifeMatches'
    BY <1>9 DEF CloseScheduler, BeginClose, LifeMatches, Holding
  <2>3. ModelMatches'
    BY <1>9 DEF CloseScheduler, ModelMatches, Holding
  <2>4. AnnouncedWhileServing'
    BY <1>9 DEF CloseScheduler, Stopping, Stopped, Report, AnnouncedWhileServing,
                ServiceTypeOK
  <2> QED BY <2>1, <2>2, <2>3, <2>4
<1>10. CASE ShutDownEngine
  <2>1. ServiceTypeOK'
    BY <1>0, <1>10 DEF ShutDownEngine, EndClose, AfterRaise, ServiceTypeOK, Stages, Statuses
  <2>2. LifeMatches'
    BY <1>10 DEF ShutDownEngine, EndClose, AfterRaise, LifeMatches, Holding
  <2>3. ModelMatches'
    <3>1. model' = FALSE /\ (life' \in Holding) = FALSE
      BY <1>10 DEF ShutDownEngine, AfterRaise, Holding
    <3> QED BY <3>1 DEF ModelMatches, Holding
  <2>4. AnnouncedWhileServing'
    BY <1>10 DEF ShutDownEngine, Stopping, Stopped, Report, AnnouncedWhileServing,
                 ServiceTypeOK
  <2> QED BY <2>1, <2>2, <2>3, <2>4
<1>11. CASE CloseProvider
  <2>1. ServiceTypeOK'
    BY <1>0, <1>11 DEF CloseProvider, Stopped, Report, vars, ServiceTypeOK, Stages, Statuses
  <2>2. LifeMatches'
    BY <1>11 DEF CloseProvider, Stopped, Report, vars, LifeMatches, Holding
  <2>3. ModelMatches'
    BY <1>11 DEF CloseProvider, ModelMatches, Holding
  <2>4. AnnouncedWhileServing'
    BY <1>11 DEF CloseProvider, Stopping, Stopped, Report, AnnouncedWhileServing,
                 ServiceTypeOK
  <2> QED BY <2>1, <2>2, <2>3, <2>4
<1>12. CASE ~(BeginStartup \/ StartupRejected \/ StopServing \/ Lifespan)
  <2>1. UNCHANGED <<life, tracker, provider, engine, model, phase>>
    BY <1>12, LifeElse DEF lifeVars
  <2> QED BY <1>0, <2>1 DEF ServiceTypeOK, LifeMatches, ModelMatches, AnnouncedWhileServing
<1> QED BY <1>1, <1>2, <1>3, <1>4, <1>5, <1>6, <1>7, <1>8, <1>9, <1>10, <1>11, <1>12
        DEF Lifespan

-----------------------------------------------------------------------------
(* The requests.                                                             *)

RequestInv == RequestsFollowJobs /\ AnsweredHoldsNoSlot

LEMMA AnsweredAreNoticed ==
  AnsweredHoldsNoSlot <=>
    \A j \in Jobs : SessionOf(j) \in Requests /\ req[SessionOf(j)] = "answered" =>
      Noticed(j)
BY DEF AnsweredHoldsNoSlot, Noticed

(* No request steps, and what is submitted is not an upload.                 *)
LEMMA RequestsKept ==
  ASSUME SchedulerInv, RequestInv, [Next]_vars, req' = req,
         \A j \in Jobs : SessionOf(j) \in Requests => caller'[j] = caller[j],
         \A j \in Jobs' \ Jobs : job'[j].session \notin Requests
  PROVE  RequestInv'
<1>1. /\ Jobs \subseteq Jobs' /\ \A j \in Jobs : job'[j] = job[j]
      /\ phase # "new" => phase' # "new"
  BY JobsStay
<1>2. RequestsFollowJobs'
  BY <1>1 DEF RequestInv, RequestsFollowJobs, SessionOf
<1>3. ASSUME NEW j \in Jobs', SessionOf(j)' \in Requests, req'[SessionOf(j)'] = "answered"
      PROVE  Noticed(j)'
  <2>1. j \in Jobs /\ SessionOf(j)' = SessionOf(j)
    BY <1>1, <1>3 DEF SessionOf
  <2>2. Noticed(j)
    BY <1>3, <2>1, AnsweredAreNoticed DEF RequestInv
  <2> QED BY <2>1, <2>2, NoticedStays
<1>4. AnsweredHoldsNoSlot'
  BY <1>3 DEF AnsweredHoldsNoSlot, Noticed, Pending, SessionOf
<1> QED BY <1>2, <1>4 DEF RequestInv

(* A request that has submitted nothing yet goes on, or is answered.         *)
LEMMA RequestGoesOn ==
  ASSUME ServiceTypeOK, RequestInv, UNCHANGED vars, NEW r \in Requests,
         req[r] \in {"new", "body", "upload", "decode", "lock"},
         NEW to \in {"body", "upload", "decode", "lock", "answered"},
         to \in {"upload", "decode", "lock"} => phase # "new",
         req' = [req EXCEPT ![r] = to]
  PROVE  RequestInv'
<1>1. UNCHANGED <<phase, sequence, job, future, caller, heap, stale, pc>> /\ Jobs' = Jobs
  BY DEF vars, Jobs
<1>2. \A j \in Jobs : SessionOf(j) # r
  BY DEF RequestInv, RequestsFollowJobs
<1>3. \A q \in Requests : req'[q] = IF q = r THEN to ELSE req[q]
  BY DEF ServiceTypeOK
<1>4. RequestsFollowJobs'
  BY <1>1, <1>2, <1>3 DEF RequestInv, RequestsFollowJobs, SessionOf
<1>5. AnsweredHoldsNoSlot'
  BY <1>1, <1>2, <1>3 DEF RequestInv, AnsweredHoldsNoSlot, SessionOf, Pending
<1> QED BY <1>4, <1>5 DEF RequestInv

LEMMA ReceiveRequest ==
  ASSUME LifeInv, RequestInv, NEW r \in Requests, Receive(r) \/ TimesOutEarly(r)
  PROVE  RequestInv'
<1>1. UNCHANGED vars
  BY DEF Receive, TurnedAway, Arrive, BodyTooLarge,
         FormRejected, NotReady, Admit, TimesOutEarly
<1>2. CASE Admit(r)
  <2>1. phase # "new"
    BY <1>2 DEF Admit, Admitted, SnapshotReady, LifeInv, LifeMatches, AnnouncedWhileServing
  <2> QED BY <1>1, <1>2, <2>1, RequestGoesOn DEF Admit, Goto, LifeInv
<1>3. CASE ~Admit(r)
  <2>1. /\ req[r] \in {"new", "body", "lock"}
        /\ \E to \in {"body", "answered"} : req' = [req EXCEPT ![r] = to]
    BY <1>3 DEF Receive, TurnedAway, Arrive, BodyTooLarge,
                FormRejected, NotReady, TimesOutEarly, Answer, Goto
  <2> QED BY <1>1, <2>1, RequestGoesOn DEF LifeInv
<1> QED BY <1>2, <1>3

LEMMA DecodeRequest ==
  ASSUME ServiceTypeOK, RequestInv, NEW r \in Requests,
         \/ UploadTooLarge(r) \/ DecodePCM(r) \/ BeginDecode(r)
         \/ DecodeAudio(r) \/ Refused(r)
  PROVE  RequestInv'
<1>1. UNCHANGED vars /\ req[r] \in {"upload", "decode", "lock"}
  BY DEF UploadTooLarge, DecodePCM, BeginDecode, DecodeAudio, Refused
<1>2. phase # "new"
  BY <1>1 DEF RequestInv, RequestsFollowJobs
<1>3. \E to \in {"decode", "lock", "answered"} : req' = [req EXCEPT ![r] = to]
  BY <1>2 DEF UploadTooLarge, DecodePCM, BeginDecode, DecodeAudio, Refused, Answer, Goto
<1> QED BY <1>1, <1>2, <1>3, RequestGoesOn

LEMMA SubmitRequest ==
  ASSUME SchedulerInv, ServiceTypeOK, RequestInv, NEW r \in Requests, Submits(r)
  PROVE  RequestInv'
<1>1. PICK shape \in Shapes : SubmitFinal(r, shape)
  BY DEF Submits
<1>2. TypeOK /\ r \in Sessions /\ Enqueue(r, "final", gens[r] + 1, shape)
  BY <1>1, ServiceAssumption DEF SchedulerInv, IInv, SubmitFinal, ServiceAssumption
<1>3. /\ Jobs' = Jobs \cup {NextSequence} /\ NextSequence \notin Jobs
      /\ \A j \in Jobs : job'[j] = job[j] /\ caller'[j] = caller[j]
      /\ job'[NextSequence].session = r /\ caller'[NextSequence] = "awaiting"
  BY <1>2, EnqueueEffect
<1>4. \A j \in Jobs : SessionOf(j) # r
  BY DEF Submits, RequestInv, RequestsFollowJobs
<1>5. \A q \in Requests : req'[q] = IF q = r THEN "awaiting" ELSE req[q]
  BY DEF Submits, Goto, ServiceTypeOK
<1>6. phase = "up" /\ phase' = phase
  BY <1>1 DEF SubmitFinal, Enqueue
<1>7. RequestsFollowJobs'
  BY <1>3, <1>4, <1>5, <1>6 DEF RequestInv, RequestsFollowJobs, SessionOf
<1>8. ASSUME NEW j \in Jobs', SessionOf(j)' \in Requests, req'[SessionOf(j)'] = "answered"
      PROVE  Noticed(j)'
  <2>1. j \in Jobs /\ SessionOf(j)' = SessionOf(j)
    BY <1>3, <1>5, <1>8 DEF SessionOf
  <2>2. Noticed(j)
    BY <1>4, <1>5, <1>8, <2>1, AnsweredAreNoticed DEF RequestInv
  <2>3. [Next]_vars
    BY <1>1, <1>2 DEF Next, Submit
  <2> QED BY <2>1, <2>2, <2>3, NoticedStays
<1>9. AnsweredHoldsNoSlot'
  BY <1>8 DEF AnsweredHoldsNoSlot, Noticed, Pending, SessionOf
<1> QED BY <1>7, <1>9 DEF RequestInv

(* The request's coroutine resumes, is cancelled, or has handled it.         *)
LEMMA AwaitRequest ==
  ASSUME SchedulerInv, ServiceTypeOK, RequestInv, NEW r \in Requests,
         Transcribed(r) \/ Deadline(r) \/ TimedOut(r)
  PROVE  RequestInv'
<1>1. req[r] \in {"awaiting", "leaving"}
  BY DEF Transcribed, Deadline, TimedOut
<1>2. PICK own \in Jobs :
        /\ own = JobOf(r) /\ SessionOf(own) = r
        /\ \A j \in Jobs : SessionOf(j) = r => j = own
  BY <1>1, OwnJob DEF RequestInv
<1>3. Resume(own) \/ Cancel(own) \/ Unwind(own) \/ Interrupted(own)
  BY <1>2 DEF Transcribed, Deadline, TimedOut
<1>4. /\ UNCHANGED <<phase, sequence, job>> /\ Jobs' = Jobs /\ [Next]_vars
      /\ \A j \in Jobs : j # own => caller'[j] = caller[j]
  BY <1>2, <1>3
  DEF Resume, Cancel, Unwind, Interrupted, jobVars, Jobs, Next, SchedulerInv, IInv, TypeOK
<1>5. \E to \in {"leaving", "answered"} :
        /\ \A q \in Requests : req'[q] = IF q = r THEN to ELSE req[q]
        /\ to = "leaving" => caller'[own] = "cancelling"
        /\ to = "answered" => Noticed(own)'
  <2>1. CASE Transcribed(r)
    <3>1. /\ ~Pending(own) /\ caller[own] = "awaiting"
          /\ UNCHANGED <<future, heap, stale>>
      BY <1>2, <2>1 DEF Transcribed, Resume
    <3>2. own \notin heap \ stale
      BY <3>1 DEF SchedulerInv, QueueInv, QueuedIsAwaited
    <3>3. \A q \in Requests : req'[q] = IF q = r THEN "answered" ELSE req[q]
      BY <2>1 DEF Transcribed, Answer, Goto, ServiceTypeOK
    <3> QED BY <3>1, <3>2, <3>3 DEF Noticed, Pending
  <2>2. CASE Deadline(r)
    <3>1. Cancel(own)
      BY <1>2, <2>2 DEF Deadline
    <3>2. caller'[own] = "cancelling"
      BY <1>2, <3>1 DEF Cancel, SchedulerInv, IInv, TypeOK
    <3>3. \A q \in Requests : req'[q] = IF q = r THEN "leaving" ELSE req[q]
      BY <2>2 DEF Deadline, Goto, ServiceTypeOK
    <3> QED BY <3>2, <3>3
  <2>3. CASE TimedOut(r)
    <3>1. \A q \in Requests : req'[q] = IF q = r THEN "answered" ELSE req[q]
      BY <2>3 DEF TimedOut, Answer, Goto, ServiceTypeOK
    <3>2. Unwind(own) \/ Interrupted(own)
      BY <1>2, <2>3 DEF TimedOut
    <3>3. ~Pending(own)
      BY <1>2, <3>2 DEF Unwind, Interrupted, SchedulerInv, IInv, CancelledIsSettled
    <3>4. CASE Unwind(own)
      <4>1. UNCHANGED <<future, heap>> /\ stale' = stale \cup Abandoned(own)
        BY <3>4 DEF Unwind
      <4>2. own \notin heap' \ stale'
        BY <4>1 DEF Abandoned, SchedulerInv, IInv, ServedOnce
      <4> QED BY <3>1, <3>3, <4>1, <4>2 DEF Noticed, Pending
    <3>5. CASE Interrupted(own)
      BY <3>1, <3>3, <3>5 DEF Interrupted, workerVars, Noticed, Pending
    <3> QED BY <3>2, <3>4, <3>5
  <2> QED BY <2>1, <2>2, <2>3
<1>6. RequestsFollowJobs'
  <2>1. PICK to \in {"leaving", "answered"} :
          /\ \A q \in Requests : req'[q] = IF q = r THEN to ELSE req[q]
          /\ to = "leaving" => caller'[own] = "cancelling"
    BY <1>5
  <2>2. RequestsFollowJobs /\ \A j \in Jobs : SessionOf(j)' = SessionOf(j)
    BY <1>4 DEF RequestInv, SessionOf
  <2>3. ASSUME NEW q \in Requests
        PROVE  /\ req'[q] # "direct"
               /\ req'[q] \in {"upload", "decode", "lock", "awaiting", "leaving"}
                    => phase # "new"
               /\ req'[q] \in {"awaiting", "leaving"} => \E j \in Jobs : SessionOf(j) = q
    BY <1>1, <1>2, <2>1, <2>2 DEF RequestsFollowJobs
  <2>4. ASSUME NEW j \in Jobs, SessionOf(j) \in Requests
        PROVE  /\ req'[SessionOf(j)] \in {"awaiting", "leaving", "answered"}
               /\ req'[SessionOf(j)] = "awaiting" => caller'[j] = "awaiting"
               /\ req'[SessionOf(j)] = "leaving" => caller'[j] = "cancelling"
               /\ \A k \in Jobs : SessionOf(k) = SessionOf(j) => k = j
    <3>1. CASE j = own
      BY <1>2, <2>1, <3>1
    <3>2. CASE j # own
      BY <1>2, <1>4, <2>1, <2>2, <2>4, <3>2 DEF RequestsFollowJobs
    <3> QED BY <3>1, <3>2
  <2> QED BY <1>4, <2>2, <2>3, <2>4 DEF RequestsFollowJobs
<1>7. ASSUME NEW j \in Jobs, SessionOf(j) \in Requests, req'[SessionOf(j)] = "answered"
      PROVE  Noticed(j)'
  <2>1. CASE j = own
    BY <1>2, <1>5, <1>7, <2>1
  <2>2. CASE j # own
    <3>1. Noticed(j)
      BY <1>2, <1>5, <1>7, <2>2, AnsweredAreNoticed DEF RequestInv
    <3> QED BY <1>4, <3>1, NoticedStays
  <2> QED BY <2>1, <2>2
<1>8. AnsweredHoldsNoSlot'
  BY <1>4, <1>7 DEF AnsweredHoldsNoSlot, Noticed, Pending, SessionOf
<1> QED BY <1>6, <1>8 DEF RequestInv

(* The lifespan, a connection or a worker.                                   *)
LEMMA OthersKeepRequests ==
  ASSUME SchedulerInv, RequestInv, [Next]_vars,
         \/ UNCHANGED serviceVars
         \/ BeginStartup \/ StartupRejected \/ StopServing \/ Lifespan
         \/ \E s \in Connections : Speak(s)
         \/ \E j \in Jobs : Hear(j)
         \/ \E w \in Workers : Work(w)
  PROVE  RequestInv'
<1>1. CASE UNCHANGED serviceVars
  BY <1>1, RequestsKept DEF serviceVars, requestVars, vars, Jobs
<1>2. CASE BeginStartup \/ StartupRejected \/ StopServing \/ Lifespan
  BY <1>2, RequestsElse, RequestsKept DEF Jobs
<1>3. CASE \E s \in Connections : Speak(s)
  <2>1. PICK s, kind, gen, shape :
          /\ s \in Connections /\ req' = req
          /\ Enqueue(s, kind, gen, shape) \/ SubmitFinalBusy(s)
    BY <1>3 DEF Speak, requestVars, SubmitFinal, SubmitPartial
  <2>2. CASE SubmitFinalBusy(s)
    BY <2>1, <2>2, RequestsKept DEF SubmitFinalBusy, jobVars, Jobs
  <2>3. CASE Enqueue(s, kind, gen, shape)
    <3>1. /\ Jobs' = Jobs \cup {NextSequence}
          /\ \A j \in Jobs : caller'[j] = caller[j]
          /\ job'[NextSequence].session = s
      BY <2>1, <2>3, EnqueueEffect DEF Connections, SchedulerInv, IInv
    <3> QED BY <2>1, <3>1, RequestsKept DEF Connections
  <2> QED BY <2>1, <2>2, <2>3
<1>4. CASE \E j \in Jobs : Hear(j)
  BY <1>4, RequestsKept
  DEF Hear, Resume, Connections, requestVars, jobVars, Jobs, SchedulerInv, IInv, TypeOK
<1>5. CASE \E w \in Workers : Work(w)
  <2>1. UNCHANGED <<req, caller, sequence>>
    BY <1>5 DEF Work, Worker, CheckQueue, BatchWaitElapses, PickBatch, PickNothing,
                FinishBatch, Scan, jobVars, requestVars
  <2> QED BY <2>1, RequestsKept DEF Jobs
<1> QED BY <1>1, <1>2, <1>3, <1>4, <1>5

-----------------------------------------------------------------------------
(* The invariant.                                                            *)

LEMMA ServiceInitInv == ServiceInit => SchedulerInv /\ ServiceInv
<1> SUFFICES ASSUME ServiceInit PROVE SchedulerInv /\ ServiceInv
  OBVIOUS
<1>1. SchedulerInv
  BY InitInv, InitQueue DEF ServiceInit, SchedulerInv
<1>2. Jobs = {}
  BY DEF ServiceInit, Init, Jobs
<1>3. RequestInv
  BY <1>2 DEF ServiceInit, RequestInv, RequestsFollowJobs, AnsweredHoldsNoSlot
<1> QED BY <1>1, <1>3, LifeInit DEF ServiceInv, LifeInv, RequestInv

LEMMA ServiceNextInv ==
  SchedulerInv /\ ServiceInv /\ [ServiceNext]_serviceVars => SchedulerInv' /\ ServiceInv'
<1> SUFFICES ASSUME SchedulerInv, ServiceInv, [ServiceNext]_serviceVars
             PROVE  SchedulerInv' /\ ServiceInv'
  OBVIOUS
<1>1. LifeInv /\ ServiceTypeOK /\ RequestInv /\ RequestsFollowJobs
  BY DEF ServiceInv, LifeInv, RequestInv
<1>2. [Next]_vars
  BY <1>1, SchedulerStep
<1>3. SchedulerInv'
  BY <1>2, NextInv, NextQueue DEF SchedulerInv
<1>4. LifeInv'
  BY <1>1, LifeNext
<1>5. RequestInv'
  BY <1>1, <1>2, ReceiveRequest, DecodeRequest, SubmitRequest, AwaitRequest,
     OthersKeepRequests DEF ServiceNext, Handle
<1> QED BY <1>3, <1>4, <1>5 DEF ServiceInv, LifeInv, RequestInv

LEMMA ServiceInvariant == ServiceSpec => [](SchedulerInv /\ ServiceInv)
BY ServiceInitInv, ServiceNextInv, PTL DEF ServiceSpec

(* The scheduler inside the service is the scheduler of module Scheduler: the *)
(* lifespan, the uploads and the connections only take steps it allows, so    *)
(* whatever is proved of Scheduler holds of it in the service.                *)
THEOREM ServiceRunsScheduler == ServiceSpec => Spec
<1>1. ServiceInit => Init
  BY DEF ServiceInit
<1>2. SchedulerInv /\ ServiceInv /\ [ServiceNext]_serviceVars => [Next]_vars
  BY SchedulerStep DEF ServiceInv
<1> QED BY <1>1, <1>2, ServiceInvariant, PTL DEF ServiceSpec, Spec

(* Readiness is announced, to the probe and to the upload routes, only while  *)
(* the provider is started, the model loaded and the scheduler accepting, and *)
(* no admitted upload ever falls back to the engine itself.                   *)
THEOREM AnnouncedIsServable == ServiceSpec => []ReadyMeansServable
<1>1. ServiceInv => ReadyMeansServable
  <2> SUFFICES ASSUME ServiceInv PROVE ReadyMeansServable
    OBVIOUS
  <2>1. \A r \in Requests : req[r] # "direct"
    BY DEF ServiceInv, RequestsFollowJobs
  <2>2. HealthReady \/ SnapshotReady => life = "serving"
    BY DEF ServiceInv, AnnouncedWhileServing, HealthReady, SnapshotReady
  <2>3. life = "serving" => /\ provider = "up" /\ engine = "ready" /\ phase = "up"
                            /\ life \in Holding
    BY DEF ServiceInv, LifeMatches, Holding
  <2>4. life \in Holding => model
    BY DEF ServiceInv, ModelMatches
  <2> QED BY <2>1, <2>2, <2>3, <2>4 DEF ReadyMeansServable
<1> QED BY <1>1, ServiceInvariant, PTL

(* Whatever fails on the way up or down, no engine call runs without the      *)
(* model, the provider is closed last, and a lifespan that is over leaves     *)
(* nothing open and nobody waiting.                                           *)
THEOREM TeardownIsOrderly == ServiceSpec => []TeardownInOrder
<1>1. SchedulerInv /\ ServiceInv => TeardownInOrder
  <2> SUFFICES ASSUME SchedulerInv, ServiceInv PROVE TeardownInOrder
    OBVIOUS
  <2>1. phase \in {"new", "down"} =>
          WorkersExited /\ heap = {} /\ \A w \in Workers : pc[w] # "run"
    BY DEF SchedulerInv, IInv, NotRunningIsEmpty, WorkersExited
  <2>2. phase \in {"new", "down"} => \A j \in Jobs : ~Pending(j)
    BY <2>1 DEF SchedulerInv, IInv, NoOrphan, Running
  <2>3. /\ life \notin Holding => phase \in {"new", "down"}
        /\ provider = "closed" => life = "over"
        /\ life = "over" => life \notin Holding /\ provider \in {"none", "closed"}
    BY DEF ServiceInv, ServiceTypeOK, LifeMatches, Holding
  <2>4. model <=> life \in Holding
    BY DEF ServiceInv, ModelMatches
  <2>5. \A w \in Workers : pc[w] = "run" => life \in Holding
    BY <2>1, <2>3
  <2> QED BY <2>1, <2>2, <2>3, <2>4, <2>5 DEF TeardownInOrder
<1> QED BY <1>1, ServiceInvariant, PTL

(* An answered upload, timed out or not, leaves nothing pending and no slot   *)
(* of the queue taken, unless a worker is on its way to the scan that will    *)
(* find its discarded job.                                                    *)
THEOREM AnsweredUploadsAreGone == ServiceSpec => []AnsweredHoldsNoSlot
BY ServiceInvariant, PTL DEF ServiceInv
=============================================================================
