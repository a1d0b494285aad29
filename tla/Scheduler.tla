----------------------------- MODULE Scheduler -----------------------------
(***************************************************************************)
(* The inference scheduler of src/app/engine/scheduler.py: a bounded       *)
(* priority queue shared by every transport, drained in batches by a fixed *)
(* set of workers.                                                         *)
(*                                                                         *)
(* The program runs on one asyncio event loop.  A step of this module is   *)
(* the code between two awaits: the body of a critical section of          *)
(* `_condition`, or the synchronous settlement of a finished batch.  The   *)
(* engine runs on a thread between PickBatch and FinishBatch, so every     *)
(* other step may happen while it works.                                   *)
(***************************************************************************)
EXTENDS Integers, Sequences, FiniteSets, FiniteSetsExt, SequencesExt

CONSTANTS
  Sessions,    \* session identifiers used by the callers
  Workers,     \* scheduler worker tasks (worker_count of them)
  Shapes,      \* what a request may look like: [class, audio]
  MaxQueue,    \* max_queue_size
  MaxBatch,    \* max_batch_size
  MaxAudio,    \* max_batch_audio_ms, in the unit of a shape's audio
  MaxCancels,  \* bound on the futures cancelled by their callers (the code has none)
  MaxJobs      \* bound on the jobs ever accepted (itertools.count has none)

Kinds == {"final", "partial"}

ASSUME SchedulerAssumption ==
  /\ MaxQueue \in Nat \ {0}
  /\ MaxBatch \in Nat \ {0}
  /\ MaxAudio \in Nat \ {0}
  /\ MaxJobs \in Nat
  /\ MaxCancels \in Nat
  /\ Shapes # {} /\ \A sh \in Shapes : sh.audio \in Nat
  /\ IsFiniteSet(Workers)

VARIABLES
  phase,     \* "new", "up", "joining" (close waits for the workers), "down"
  sequence,  \* jobs accepted so far; a job is named by its sequence number
  job,       \* job -> the fields of _Job that never change
  future,    \* job -> "pending" or how _Job.future was settled
  caller,    \* job -> the coroutine blocked in _await_job
  heap,      \* jobs in _heap, the discarded ones included
  stale,     \* jobs whose `stale` flag is set
  started,   \* jobs whose `running` flag is set (it is never cleared)
  queued,    \* _queued_count
  partials,  \* session -> its entry of _partials, or NoJob
  gens,      \* session -> its entry of _generations; 0 when there is none
  pc,        \* worker -> where its coroutine is
  batch,     \* worker -> the jobs its engine call is running
  waiters    \* the waiter deque of _condition, oldest first

vars == <<phase, sequence, job, future, caller, heap, stale, started, queued,
          partials, gens, pc, batch, waiters>>

jobVars    == <<sequence, job>>
workerVars == <<pc, batch, waiters>>

-----------------------------------------------------------------------------
(* Jobs.                                                                   *)

NoJob == 0
Jobs  == 1..sequence

JobFields == [session : Sessions, kind : Kinds, gen : Nat, shape : Shapes]
Outcomes  == {"result", "error", "stale", "closed", "cancelled"}

SessionOf(j) == job[j].session
IsPartial(j) == job[j].kind = "partial"
Pending(j)   == future[j] = "pending"

\* The order of _HeapItem: priority first (a final before a partial), then age.
\* (Mutant: age alone.)
FifoBefore(i, j) == i < j
Before(i, j) ==
  \/ ~IsPartial(i) /\ IsPartial(j)
  \/ IsPartial(i) = IsPartial(j) /\ i < j

\* The futures after those of S that are still pending are settled.
\* (Mutant: without the test of future.done().)
SettleRegardless(S, outcome) ==
  [j \in Jobs |-> IF j \in S THEN outcome ELSE future[j]]
Settle(S, outcome) ==
  [j \in Jobs |-> IF j \in S /\ Pending(j) THEN outcome ELSE future[j]]

\* A function over Jobs extended to the job enqueued next.
Extend(f, x) == [j \in 1..(sequence + 1) |-> IF j \in Jobs THEN f[j] ELSE x]

(* _release_generation(j), when `rest` holds the jobs of _heap that are not *)
(* stale and ps is _partials: does it drop the session's counter?           *)
(* (Mutants: without looking at the session's other jobs; without asking    *)
(* whether the counter is still j's.)                                       *)
ReleasesAlways(j, rest, ps) == gens[SessionOf(j)] = job[j].gen
ReleasesAnySeries(j, rest, ps) ==
  /\ IsPartial(j) => ps[SessionOf(j)] = NoJob
  /\ \A k \in rest : SessionOf(k) # SessionOf(j)
Releases(j, rest, ps) ==
  /\ gens[SessionOf(j)] = job[j].gen
  /\ IsPartial(j) => ps[SessionOf(j)] = NoJob
  /\ \A k \in rest : SessionOf(k) # SessionOf(j)

-----------------------------------------------------------------------------
(* The condition variable.  Waking a worker takes it off the deque: an idle *)
(* worker re-evaluates its predicate, one in its batch wait goes on to pop. *)

Wake(W) == [w \in Workers |-> CASE w \in W /\ pc[w] = "idle"   -> "check"
                                [] w \in W /\ pc[w] = "gather" -> "pick"
                                [] OTHER -> pc[w]]

Asleep == {waiters[i] : i \in DOMAIN waiters}

\* notify().  (Mutants: the call is missing; the youngest waiter is woken.)
NotifyNobody == UNCHANGED <<pc, waiters>>
NotifyLast ==
  IF waiters = <<>> THEN UNCHANGED <<pc, waiters>>
  ELSE /\ pc' = Wake({waiters[Len(waiters)]})
       /\ waiters' = SubSeq(waiters, 1, Len(waiters) - 1)
Notify ==
  IF waiters = <<>> THEN UNCHANGED <<pc, waiters>>
  ELSE /\ pc' = Wake({Head(waiters)})
       /\ waiters' = Tail(waiters)

\* notify_all().
NotifyAll ==
  /\ pc' = Wake(Asleep)
  /\ waiters' = <<>>

\* Condition.wait(), in the idle wait or in the batch wait.
Sleep(w, where) ==
  /\ pc' = [pc EXCEPT ![w] = where]
  /\ waiters' = Append(waiters, w)

-----------------------------------------------------------------------------
(* Submission.                                                              *)

(* _invalidate_partial(s): the partial it takes out of _partials, what the *)
(* depth is afterwards, and which futures fail with StalePartialError.      *)
(* (Mutants: nothing is invalidated; a running partial is spared; a running *)
(* partial is taken out of the depth a second time.)                        *)
SupersededNone(s)   == {}
SupersededQueued(s) == {partials[s]} \ ({NoJob} \cup started)
Superseded(s)       == {partials[s]} \ {NoJob}

DepthWithoutAll(s) == queued - Cardinality(Superseded(s))
DepthWithout(s)    == queued - Cardinality(Superseded(s) \ started)

\* next(self._sequence).  (Mutant: a number is used twice.)
ReusedSequence == sequence
NextSequence   == sequence + 1

\* _enqueue of a job of kind `kind`, after the session's partial is gone.
Enqueue(s, kind, gen, shape) ==
  /\ DepthWithout(s) < MaxQueue
  /\ sequence' = sequence + 1
  /\ job' = Extend(job, [session |-> s, kind |-> kind, gen |-> gen,
                         shape |-> shape])
  /\ future' = Extend(Settle(Superseded(s), "stale"), "pending")
  /\ caller' = Extend(caller, "awaiting")
  /\ heap' = heap \cup {NextSequence}
  /\ stale' = stale \cup Superseded(s)
  /\ queued' = DepthWithout(s) + 1
  /\ Notify
  /\ UNCHANGED <<phase, started, batch>>

\* submit_final, accepted.
SubmitFinal(s, shape) ==
  /\ phase = "up"
  /\ sequence < MaxJobs
  /\ Enqueue(s, "final", gens[s] + 1, shape)
  /\ partials' = [partials EXCEPT ![s] = NoJob]
  /\ gens' = [gens EXCEPT ![s] = @ + 1]

(* submit_final, refused with ServerBusyError.  The partial was invalidated *)
(* before the capacity check and stays invalidated; without a partial the   *)
(* refusal changes nothing and is no step.                                  *)
SubmitFinalBusy(s) ==
  /\ phase = "up"
  /\ DepthWithout(s) >= MaxQueue
  /\ Superseded(s) # {}
  /\ future' = Settle(Superseded(s), "stale")
  /\ stale' = stale \cup Superseded(s)
  /\ queued' = DepthWithout(s)
  /\ partials' = [partials EXCEPT ![s] = NoJob]
  /\ UNCHANGED <<phase, jobVars, caller, heap, started, gens, workerVars>>

(* submit_partial, accepted: refused with PartialOutstandingError, with no  *)
(* effect, while the session's partial is running.                          *)
SubmitPartial(s, shape) ==
  /\ phase = "up"
  /\ sequence < MaxJobs
  /\ partials[s] \notin started
  /\ Enqueue(s, "partial", gens[s], shape)
  /\ partials' = [partials EXCEPT ![s] = NextSequence]
  /\ UNCHANGED gens

-----------------------------------------------------------------------------
(* The caller's side of a job: _await_job.                                  *)

\* The coroutine resumes with a result or an exception and returns.
Resume(j) ==
  /\ caller[j] = "awaiting" /\ ~Pending(j)
  /\ caller' = [caller EXCEPT ![j] = "returned"]
  /\ UNCHANGED <<phase, jobVars, future, heap, stale, started, queued,
                 partials, gens, workerVars>>

(* Its task is cancelled (disconnect, deadline, teardown).  A pending future *)
(* is cancelled at once; the handler of CancelledError runs in a later turn *)
(* of the loop, when it gets the lock.                                      *)
Cancel(j) ==
  /\ caller[j] = "awaiting"
  /\ Cardinality({i \in Jobs : future[i] = "cancelled"}) < MaxCancels
  /\ caller' = [caller EXCEPT ![j] = "cancelling"]
  /\ future' = Settle({j}, "cancelled")
  /\ UNCHANGED <<phase, jobVars, heap, stale, started, queued, partials, gens,
                 workerVars>>

\* The handler of CancelledError gives the slot of a queued job back.
\* (Mutant: it forgets the slot.)
AbandonedNone(j) == {}
Abandoned(j) == {j} \ (started \cup stale)

Unwind(j) ==
  LET abandoned == Abandoned(j)
      ps == [s \in Sessions |-> IF partials[s] \in abandoned THEN NoJob
                                                             ELSE partials[s]]
      rest == heap \ (stale \cup abandoned)
  IN /\ caller[j] = "cancelling"
     /\ caller' = [caller EXCEPT ![j] = "returned"]
     /\ stale' = stale \cup abandoned
     /\ queued' = queued - Cardinality(abandoned)
     /\ partials' = ps
     /\ gens' = IF Releases(j, rest, ps)
                THEN [gens EXCEPT ![SessionOf(j)] = 0] ELSE gens
     /\ NotifyAll
     /\ UNCHANGED <<phase, jobVars, future, heap, started, batch>>

(* The deadline of an upload repeats its cancellation at every turn of the  *)
(* loop (anyio.fail_after), and around its batch wait a worker holds the    *)
(* lock across turns: the handler of a final may then be cancelled while it *)
(* waits for the lock.  The caller is gone; the scan will find its job.     *)
Interrupted(j) ==
  /\ caller[j] = "cancelling" /\ ~IsPartial(j)
  /\ \E w \in Workers : pc[w] \in {"gather", "pick"}
  /\ caller' = [caller EXCEPT ![j] = "returned"]
  /\ UNCHANGED <<phase, jobVars, future, heap, stale, started, queued,
                 partials, gens, workerVars>>

-----------------------------------------------------------------------------
(* Workers: _worker and _next_batch.                                        *)

\* wait_for(heap or not running); with work, the batch wait begins.
CheckQueue(w) ==
  /\ pc[w] = "check"
  /\ \/ /\ phase # "up"
        /\ pc' = [pc EXCEPT ![w] = "exited"]
        /\ UNCHANGED waiters
     \/ phase = "up" /\ heap = {} /\ Sleep(w, "idle")
     \/ phase = "up" /\ heap # {} /\ Sleep(w, "gather")
  /\ UNCHANGED <<phase, jobVars, future, caller, heap, stale, started, queued,
                 partials, gens, batch>>

\* The batch wait of batch_wait_ms runs out before a notification.
BatchWaitElapses(w) ==
  /\ pc[w] = "gather"
  /\ pc' = [pc EXCEPT ![w] = "pick"]
  /\ \E i \in DOMAIN waiters : waiters[i] = w /\ waiters' = RemoveAt(waiters, i)
  /\ UNCHANGED <<phase, jobVars, future, caller, heap, stale, started, queued,
                 partials, gens, batch>>

\* What _pop_live and the scan after it discard, and what they may run.
Dead == {j \in heap : j \in stale \/ future[j] = "cancelled"}
Live == heap \ Dead

\* Those nothing has taken out of the depth yet.
Counted == Dead \ stale

TotalAudio(S) == MapThenSumSet(LAMBDA j : job[j].shape.audio, S)

Compatible(i, j) ==
  /\ IsPartial(i) = IsPartial(j)
  /\ job[i].shape.class = job[j].shape.class

\* Room for j next to the jobs selected before it.  (Mutant: off by one.)
FitsLoosely(j, earlier) == Cardinality(earlier) <= MaxBatch
Fits(j, earlier) ==
  /\ Cardinality(earlier) < MaxBatch
  /\ TotalAudio(earlier) + job[j].shape.audio <= MaxAudio

(* b is the batch _next_batch forms: the first live job of the heap, then   *)
(* greedily in heap order every compatible job that fits.                   *)
IsBatch(b) ==
  \E first \in Live :
    /\ \A j \in Live \ {first} : Before(first, j)
    /\ first \in b
    /\ \A j \in Live \ {first} :
         j \in b <=> /\ Compatible(first, j)
                     /\ Fits(j, {k \in b : Before(k, j)})

(* The scan pops every item.  A discarded job releases its generation while *)
(* only the items behind it are in _heap.                                   *)
ReleasedByScan ==
  {SessionOf(d) : d \in {e \in Dead :
     Releases(e, {k \in heap \ stale : Before(e, k)}, partials)}}

\* The live jobs put back on the heap.  (Mutant: none.)
RetainedNone(b) == {}
Retained(b)     == Live \ b

Scan ==
  /\ stale' = stale \cup Dead
  /\ gens' = [s \in Sessions |-> IF s \in ReleasedByScan THEN 0 ELSE gens[s]]
  /\ UNCHANGED <<phase, jobVars, future, caller, partials>>

PickBatch(w) ==
  /\ pc[w] = "pick"
  /\ \E b \in SUBSET Live :
       /\ IsBatch(b)
       /\ heap' = Retained(b)
       /\ started' = started \cup b
       /\ queued' = queued - Cardinality(Counted) - Cardinality(b)
       /\ batch' = [batch EXCEPT ![w] = b]
  /\ pc' = [pc EXCEPT ![w] = "run"]
  /\ Scan
  /\ UNCHANGED waiters

(* Nothing live is left: the loop re-evaluates wait_for without giving up   *)
(* the lock, so the worker goes straight to sleep, or leaves.               *)
PickNothing(w) ==
  /\ pc[w] = "pick"
  /\ Live = {}
  /\ heap' = {}
  /\ queued' = queued - Cardinality(Counted)
  /\ \/ phase = "up" /\ Sleep(w, "idle")
     \/ /\ phase # "up"
        /\ pc' = [pc EXCEPT ![w] = "exited"]
        /\ UNCHANGED waiters
  /\ Scan
  /\ UNCHANGED <<started, batch>>

\* _finish: is what the engine returned for j stale?
Spoiled(j) ==
  \/ j \in stale
  \/ IsPartial(j) /\ job[j].gen # gens[SessionOf(j)]

(* The engine call of w returns (good) or raises, and _finish settles every *)
(* job of the batch.  The loop over the batch is one step: of one session a *)
(* batch holds one partial or only finals (BatchesAreUniform), and of those *)
(* the first to release the counter leaves the others nothing to release.   *)
FinishBatch(w) ==
  LET b  == batch[w]
      ps == [s \in Sessions |-> IF partials[s] \in b THEN NoJob ELSE partials[s]]
  IN /\ pc[w] = "run"
     /\ \E outcome \in {"result", "error"} :
          future' = [j \in Jobs |->
                       IF j \notin b \/ ~Pending(j) THEN future[j]
                       ELSE IF Spoiled(j) THEN "stale" ELSE outcome]
     /\ partials' = ps
     /\ gens' = [s \in Sessions |->
                   IF \E j \in b : SessionOf(j) = s /\ Releases(j, heap \ stale, ps)
                   THEN 0 ELSE gens[s]]
     /\ pc' = [pc EXCEPT ![w] = "check"]
     /\ batch' = [batch EXCEPT ![w] = {}]
     /\ UNCHANGED <<phase, jobVars, caller, heap, stale, started, queued, waiters>>

-----------------------------------------------------------------------------
(* start and close.                                                         *)

Start ==
  /\ phase \in {"new", "down"}
  /\ phase' = "up"
  /\ pc' = [w \in Workers |-> "check"]
  /\ UNCHANGED <<jobVars, future, caller, heap, stale, started, queued,
                 partials, gens, batch, waiters>>

\* close, up to the gather of the workers.  (Mutant: futures are left pending.)
Undrained == {}
Drained   == heap \ stale

BeginClose ==
  /\ phase = "up"
  /\ phase' = "joining"
  /\ future' = Settle(Drained, "closed")
  /\ stale' = stale \cup heap
  /\ heap' = {}
  /\ queued' = 0
  /\ NotifyAll
  /\ UNCHANGED <<jobVars, caller, started, partials, gens, batch>>

\* close, when every worker has returned.  (Mutant: without waiting for them.)
WorkersIgnored == TRUE
WorkersExited == \A w \in Workers : pc[w] = "exited"

EndClose ==
  /\ phase = "joining"
  /\ WorkersExited
  /\ phase' = "down"
  /\ partials' = [s \in Sessions |-> NoJob]
  /\ gens' = [s \in Sessions |-> 0]
  /\ UNCHANGED <<jobVars, future, caller, heap, stale, started, queued,
                 workerVars>>

-----------------------------------------------------------------------------
Init ==
  /\ phase = "new"
  /\ sequence = 0
  /\ job = [j \in Jobs |-> NoJob]
  /\ future = [j \in Jobs |-> "pending"]
  /\ caller = [j \in Jobs |-> "awaiting"]
  /\ heap = {} /\ stale = {} /\ started = {}
  /\ queued = 0
  /\ partials = [s \in Sessions |-> NoJob]
  /\ gens = [s \in Sessions |-> 0]
  /\ pc = [w \in Workers |-> "exited"]
  /\ batch = [w \in Workers |-> {}]
  /\ waiters = <<>>

Submit ==
  \E s \in Sessions :
    \/ \E shape \in Shapes : SubmitFinal(s, shape) \/ SubmitPartial(s, shape)
    \/ SubmitFinalBusy(s)

Worker(w) ==
  \/ CheckQueue(w)
  \/ BatchWaitElapses(w)
  \/ PickBatch(w)
  \/ PickNothing(w)
  \/ FinishBatch(w)

Next ==
  \/ Submit
  \/ \E j \in Jobs : Resume(j) \/ Cancel(j) \/ Unwind(j) \/ Interrupted(j)
  \/ \E w \in Workers : Worker(w)
  \/ Start \/ BeginClose \/ EndClose

Spec == Init /\ [][Next]_vars

-----------------------------------------------------------------------------
(* Properties.                                                              *)

(* Every variable of the scheduler keeps its shape: queue entries, flags    *)
(* and worker batches only ever name jobs that were accepted.               *)
TypeOK ==
  /\ phase \in {"new", "up", "joining", "down"}
  /\ sequence \in 0..MaxJobs
  /\ job \in [Jobs -> JobFields]
  /\ future \in [Jobs -> Outcomes \cup {"pending"}]
  /\ caller \in [Jobs -> {"awaiting", "cancelling", "returned"}]
  /\ heap \subseteq Jobs /\ stale \subseteq Jobs /\ started \subseteq Jobs
  /\ queued \in Int
  /\ partials \in [Sessions -> Jobs \cup {NoJob}]
  /\ gens \in [Sessions -> Nat]
  /\ pc \in [Workers -> {"check", "idle", "gather", "pick", "run", "exited"}]
  /\ batch \in [Workers -> SUBSET Jobs]
  /\ waiters \in Seq(Workers)

Running(j) == \E w \in Workers : pc[w] = "run" /\ j \in batch[w]

(* No caller waits for a future nobody will settle: an unsettled job is     *)
(* queued and not discarded, or in the batch of exactly one engine call     *)
(* (_pop_live, _next_batch, _finish and close together lose no job).        *)
NoOrphan ==
  \A j \in Jobs : Pending(j) =>
    \/ j \in heap \ stale
    \/ Running(j)

(* Once accepted a job is in one place: in the queue or in one worker's     *)
(* batch, so the engine never transcribes a request twice.                  *)
ServedOnce ==
  /\ \A w \in Workers : batch[w] \subseteq started
  /\ heap \cap started = {}
  /\ \A v, w \in Workers : v # w => batch[v] \cap batch[w] = {}

(* "There is at most one live partial per session" (class docstring): two   *)
(* partials of a session are never both unsettled, even when one of them is *)
(* already running on a worker.                                             *)
OneLivePartial ==
  \A i, j \in Jobs :
    /\ Pending(i) /\ Pending(j)
    /\ IsPartial(i) /\ IsPartial(j) /\ SessionOf(i) = SessionOf(j)
    => i = j

(* A live partial is the newest thing its session has submitted, and the    *)
(* one that the next submission will find in _partials.                     *)
LivePartialIsNewest ==
  \A j \in Jobs : Pending(j) /\ IsPartial(j) =>
    /\ partials[SessionOf(j)] = j
    /\ \A k \in Jobs : SessionOf(k) = SessionOf(j) => k <= j

(* StalePartialError is for partials: no interleaving of superseding,       *)
(* cancelling, finishing and closing makes a final fail as stale, and a     *)
(* final with a live caller is never flagged stale (part of IInv).          *)
FinalsAreNeverStale ==
  \A j \in Jobs : ~IsPartial(j) =>
    /\ future[j] # "stale"
    /\ Pending(j) => j \notin stale

(* Capacity is never leaked: the depth compared with max_queue_size counts  *)
(* at most the jobs that really occupy the queue, whatever was superseded   *)
(* or cancelled meanwhile ("a leaked slot degrades into a service that      *)
(* refuses everything", tests/integration/test_scheduler_backpressure.py);  *)
(* as long as no caller of a partial is cancelled it is exact and within    *)
(* max_queue_size (with such a caller: see DrainedQueueReadsZero).          *)
DepthIsExact ==
  /\ queued <= Cardinality(heap \ stale)
  /\ (\A j \in Jobs : IsPartial(j) => future[j] # "cancelled") =>
       /\ queued = Cardinality(heap \ stale)
       /\ queued <= MaxQueue

(* "queue depth must be non-negative" (metrics.py, set_queue_depth) and the *)
(* drained queue reads zero (test_the_queue_is_empty_again_after_a_drain).  *)
DrainedQueueReadsZero == heap = {} => queued = 0

(* A live partial keeps its claim to be current: as long as it is queued, no *)
(* release of a counter touches that of its session, whoever is cancelled,   *)
(* finished or scanned meanwhile; while it runs the counter may be dropped,  *)
(* but never becomes that of a newer submission.                             *)
GenerationIsKept ==
  \A j \in Jobs : Pending(j) /\ IsPartial(j) =>
    /\ gens[SessionOf(j)] \in {job[j].gen, 0}
    /\ j \in heap => gens[SessionOf(j)] = job[j].gen

(* Why a future fails with StalePartialError.  "A newer partial or final     *)
(* superseded this partial" (its docstring) in this very step, be the final  *)
(* accepted or refused; or the counter of its session was dropped under a    *)
(* partial while it ran.                                                     *)
SupersededNow(j) ==
  \/ \E k \in Jobs' \ Jobs : job'[k].session = SessionOf(j)
  \/ SubmitFinalBusy(SessionOf(j))
CounterIsGone(j) == j \notin heap /\ gens[SessionOf(j)] # job[j].gen

\* The finals of j's session and generation whose end may drop the counter.
EndingFinals(j) ==
  {f \in Jobs : /\ ~IsPartial(f)
                /\ SessionOf(f) = SessionOf(j) /\ job[f].gen = job[j].gen
                /\ Running(f) \/ f \in Dead \/ caller[f] = "cancelling"}

(* A caller is told that its partial is stale only for one of these reasons, *)
(* and the counter of a partial that runs is dropped only by the end of a    *)
(* final of its own generation: one that another worker has run beside it,   *)
(* or one whose caller was cancelled (_release_generation looks for jobs of  *)
(* the session in the heap only).  Finals never fail as stale.               *)
StalenessHasACause ==
  [][\A j \in Jobs : Pending(j) =>
       /\ future'[j] = "stale" =>
            IsPartial(j) /\ (SupersededNow(j) \/ CounterIsGone(j))
       /\ /\ IsPartial(j) /\ future'[j] = "pending"
          /\ gens[SessionOf(j)] = job[j].gen /\ gens'[SessionOf(j)] # job[j].gen
          => EndingFinals(j) # {}]_vars

(* An engine batch is one kind and one class, and of a session it holds at   *)
(* most one partial: settling the batch does not depend on the order of its  *)
(* jobs.  (Finals of one session may meet in it, even of one generation.)    *)
BatchesAreUniform ==
  \A w \in Workers : \A i, j \in batch[w] :
    /\ job[i].kind = job[j].kind
    /\ job[i].shape.class = job[j].shape.class
    /\ SessionOf(i) = SessionOf(j) /\ IsPartial(i) => i = j

BatchesAreWithinSize == \A w \in Workers : Cardinality(batch[w]) <= MaxBatch

(* An engine batch is uniform, within the size limit and, unless it is a     *)
(* single long request, within the audio budget.                             *)
BatchAdmissible ==
  /\ BatchesAreUniform
  /\ BatchesAreWithinSize
  /\ \A w \in Workers :
       Cardinality(batch[w]) > 1 => TotalAudio(batch[w]) <= MaxAudio

(* Whenever a worker takes work, the job that has waited longest among the  *)
(* live finals (among the live partials when there is no final) is in the   *)
(* batch: batching compatible jobs together never lets the head of the      *)
(* queue be passed over, and no partial runs ahead of a queued final.       *)
OldestFinalFirst ==
  [][\A w \in Workers : batch[w] = {} /\ batch'[w] # {} =>
       LET waiting == {j \in heap : Pending(j)}
           finals  == {j \in waiting : ~IsPartial(j)}
       IN \E f \in batch'[w] :
            IF finals # {} THEN f \in finals /\ \A k \in finals : f <= k
                           ELSE \A k \in waiting : f <= k]_vars

(* No wakeup is lost: while a worker sleeps idle, there are at least as     *)
(* many awake workers on their way to the queue as there are jobs in it.    *)
WorkConserving ==
  (\E w \in Workers : pc[w] = "idle") /\ phase = "up" =>
    Cardinality(heap \ stale) <=
      Cardinality({w \in Workers : pc[w] \in {"check", "gather", "pick"}})

(* When close has returned the scheduler holds nothing: no job is queued,   *)
(* running or unsettled, and no session has a partial or a generation left. *)
ClosedIsClean ==
  phase = "down" =>
    /\ heap = {} /\ waiters = <<>>
    /\ \A w \in Workers : batch[w] = {}
    /\ \A j \in Jobs : ~Pending(j)
    /\ \A s \in Sessions : partials[s] = NoJob /\ gens[s] = 0

(* The inductive invariant behind the safety properties.                    *)

\* An entry of _partials is a partial of its session.
PartialEntries ==
  \A s \in Sessions : partials[s] # NoJob =>
    IsPartial(partials[s]) /\ SessionOf(partials[s]) = s

\* Whoever sets a stale flag settles the future in the same step.
StaleIsSettled == \A j \in stale : ~Pending(j)

\* A future is settled before its caller's cancellation is handled.
CancelledIsSettled == \A j \in Jobs : caller[j] = "cancelling" => ~Pending(j)

\* Jobs are in the hands of a worker only during its engine call.
IdleHasNoBatch == \A w \in Workers : pc[w] # "run" => batch[w] = {}

\* While the scheduler is not running nothing is queued and no worker sleeps.
NotRunningIsEmpty ==
  /\ phase # "up" => heap = {} /\ waiters = <<>>
  /\ phase \in {"new", "down"} => WorkersExited

(* The conjunction that every step preserves: the safety properties about   *)
(* settlement, and the facts about flags, entries and worker positions that *)
(* make each of them inductive.                                             *)
IInv ==
  /\ TypeOK
  /\ ServedOnce
  /\ NoOrphan
  /\ LivePartialIsNewest
  /\ FinalsAreNeverStale
  /\ PartialEntries
  /\ StaleIsSettled
  /\ CancelledIsSettled
  /\ IdleHasNoBatch
  /\ NotRunningIsEmpty
  /\ ClosedIsClean
(* The inductive invariant behind the depth, the wakeups and the order of    *)
(* service, on top of IInv.                                                  *)

\* A queued job that is not discarded is waited for, unless its caller has
\* been cancelled and nobody has noticed yet.
QueuedIsAwaited ==
  \A j \in heap \ stale :
    Pending(j) \/ (future[j] = "cancelled" /\ caller[j] # "awaiting")

\* A job leaves the queue into the hands of a worker, or discarded.
NoneUnaccounted == Jobs \subseteq heap \cup started \cup stale

\* Whoever discards a partial takes its entry away, but for the scan, which
\* leaves it to the handler of its caller's cancellation, and for close.
DiscardedEntries ==
  phase # "joining" =>
    \A s \in Sessions : partials[s] \in stale => future[partials[s]] = "cancelled"

\* The deque of the condition holds the sleeping workers, each once.
DequeHoldsSleepers ==
  /\ \A w \in Workers : pc[w] \in {"idle", "gather"} <=> w \in Asleep
  /\ \A i, k \in DOMAIN waiters : waiters[i] = waiters[k] => i = k

(* The workers whose help a sleeping worker w may count on: those awake, and *)
(* those in their batch wait that will be notified after w.  (One that would *)
(* be notified before w may take the notification w should have had.)        *)
After(w, v) ==
  \E i, k \in DOMAIN waiters : i < k /\ waiters[i] = w /\ waiters[k] = v
Helpers(w) ==
  {v \in Workers : pc[v] \in {"check", "pick"} \/ (pc[v] = "gather" /\ After(w, v))}

IdleIsCovered ==
  phase = "up" => \A w \in Workers : pc[w] = "idle" =>
    Cardinality(heap \ stale) <= Cardinality(Helpers(w))

QueueInv ==
  /\ QueuedIsAwaited
  /\ NoneUnaccounted
  /\ DiscardedEntries
  /\ DepthIsExact
  /\ DequeHoldsSleepers
  /\ IdleIsCovered
=============================================================================
