# Verification of the realtime ASR service

TLA+ modules for the IndicConformer realtime transcription service, the TLC configurations
that check them on small instances, and theorems about them with proofs that TLAPS checks.
Paths are relative to `src/`.

* Section 1 is the inventory of the system, section 2 the conventions of the models.
* Sections 3 to 9 go through the modules: what each models, its runs and bounds, its proofs.
* Section 10 lists the disagreements found between the code and what it says of itself,
  section 11 what is only model-checked, section 12 what is not modelled, section 13 the plan.

## 1. The system

One asyncio process (`app/main.py`). Audio arrives over two websocket transports and two
REST surfaces, voice activity detection (VAD) decides where speech ends, and one shared
scheduler feeds one blocking engine on worker threads.

| Component | State it keeps | Operations | Talks to |
| --- | --- | --- | --- |
| Inference scheduler (`app/engine/scheduler.py`) | heap of jobs, depth, a partial and a generation per session, worker tasks | `submit_final`, `submit_partial`, cancellation of a caller, `_next_batch`, `_finish`, `start`, `close` | called by all transports; calls the engine on threads |
| VAD runtime (`app/vad/runtime.py`) | bounded queue, worker tasks, a cancellation gate per job | `submit` (with deadline), worker loop, `start`, `close` | called by VAD streams; runs functions in the thread executor |
| VAD streams (`app/vad/silero.py`, `webrtc.py`, `energy.py`, `disabled.py`, `base.py`) | lease count; per stream: epoch, pending samples, recurrent state, in-flight and failed flags | `new_stream`, `score`, `reset`, `close`, provider `startup`/`close` | called by websocket sessions; call the runtime |
| Native session (`app/api/websocket/*`) | epoch, utterance buffer, endpoint state, cadence, partial task, send lock | frames, control messages, partial task, finalisation, teardown | VAD stream, scheduler, registry |
| Speech endpointing, cadence (`app/audio/endpoint.py`, `pcm.py`) | run lengths of speech and silence, frame counters, the delay of the next partial | one frame at a time | native session |
| OpenAI realtime session (`app/api/openai_realtime/*`, `app/openai_compat/realtime/*`) | input buffer and positions, items, turn tasks, send lock | session update, append, clear, commit, commits by turn detection, teardown | VAD stream, scheduler, registry |
| Connection registry (`app/api/realtime/registry.py`) | number of live connections | acquire, release | both websocket transports |
| Lifespan, readiness (`app/core/lifespan.py`, `readiness.py`, `app/api/health.py`) | stage, checks, detail | startup (VAD, engine, scheduler), shutdown in reverse, `/health/ready` | owns the provider, the engine and the scheduler |
| HTTP admission and REST (`app/api/http_admission.py`, `rest.py`, `openai.py`, `app/transcription.py`) | none beyond the request | admit, read the body, decode, submit a final with a deadline | scheduler |
| Stable prefix (`app/audio/stable_prefix.py`) | the last three hypotheses | add, reset | native session |
| TCP ingress (`scripts/tcp_ingress.py`) | two pumps per connection | accept, pump, half close, drain timeout | external upstream |
| Model publication (`scripts/download_model.py`, `download_vad_model.py`, `verify_model.py`, `_atomic_directory.py`) | staging directory, published directory, manifest and marker | download, verify, sync, publish | file system |
| VAD benchmark (`scripts/benchmark_vad.py`) | the bracket of its search, trials, scores against labels | score a recording, hold streams, search the sustainable concurrency | VAD provider and runtime |
| Engines, configuration, authentication, metrics, tracing, logging, the client benchmark, deployment files | | | |

What is hard here, and what makes each part correct:

* **Scheduler.** Five kinds of events (submissions, cancellations, workers, engine threads,
  close) touch the same heap, depth and per-session entries, and two of them - a cancelled
  caller and a running partial - act in two steps with anything in between. It is correct if
  every accepted call is settled exactly once, a session's outdated partial never yields a
  result, capacity does not leak, batches are admissible and fair, and `close` returns.
* **VAD runtime.** The event loop abandons work that a thread is about to start. Accepted
  work is not dropped, abandoned work does not start, late results change nothing, and after
  `close` no thread is inside a classifier.
* **VAD streams.** State is read before an await and written after it. The recurrent state
  must stand for exactly the audio since the last reset, a lost window must not go unnoticed,
  and leases must be exact.
* **Websocket sessions.** A receive loop and tasks share a socket and a lock; a deadline, a
  disconnect or a cancellation strikes anywhere. Events come in the order of the protocol,
  buffers and counters agree, and a connection that ends takes everything with it.
* **Service.** Startup fails halfway, a close raises, shutdown meets live requests, a deadline
  strikes a request that waits for a lock. Readiness is never announced falsely, everything that
  was started is closed in order, and everybody gets an answer.
* **Publication.** Failures, kills and losses of power between any two calls, and concurrent
  publishers. What is at the destination is absent or complete, and success means it is there.
* **Benchmark.** A failed trial leaves calls behind in the runtime that the next one uses. The
  reported number must be what the trials observed.
* **Ingress.** Two directions end at different times.

`PROJECT.json` lists the hazards with their lines and the properties aimed at them.

## 2. Conventions

* The program runs on one asyncio event loop (Python 3.11), so a step is **the code between
  two awaits**. Threads (the engine, classifiers) run between steps of the loop, and where
  they touch shared state they have steps of their own.
* One action per handler or per piece of a handler between awaits; the guard is the code's
  condition. A call that is refused without any effect is no step.
* Numbers that the code counts without a limit are bounded by constants called `Max...`; a
  comment says "the code has none" for each bound that is not in the code.
* An operator that comes right before the definition it varies, with "(Mutant: ...)" in its
  comment, is a plausible mistake in that definition. `PROJECT.json` pairs every property
  with a mistake that breaks it.
* Logging, metrics (except the depth of the queue), wording and numeric signal processing
  are left out. Text and audio are what the properties need of them: positions, epochs,
  generations.

| Module | Stands for |
| --- | --- |
| `Scheduler` | the inference scheduler |
| `SchedulerContract` | what a caller may rely on, without heap, workers and locks |
| `SchedulerRefinement` | the mapping between the two |
| `VADRuntime` | the VAD runtime, event loop and threads |
| `StreamCapacity` | the lease counter of a provider |
| `SileroStreams`, `WebRTCStreams` | streams, each composed with `VADRuntime` and `StreamCapacity` by EXTENDS |
| `SendLock` | the `asyncio.Lock` a connection sends under |
| `Endpoint`, `Cadence` | `EndpointDetector` and `AdaptivePartialCadence` |
| `NativeSession` | a native connection, composed with `SendLock`, `Endpoint`, `Cadence` |
| `TurnBuffer` | `RealtimeSessionState` |
| `OpenAISession` | an OpenAI connection, composed with `SendLock`, `TurnBuffer` |
| `Service` | lifespan, readiness and the upload surfaces, composed with `Scheduler` by EXTENDS |
| `PublishedDirectory` | what publication promises of the destination |
| `Publication` | the provisioning tools, on an external file system that forgets what was not synced |
| `VADBench` | `benchmark_provider` on energy streams, composed with `VADRuntime` by EXTENDS |
| `MC...` | instances for TLC: definitions of constants, symmetry |
| `SchedulerProofs` | theorems about the scheduler (where jobs are, the queue, the refinement), and on top of them about the service |
| `VADRuntimeProofs` | theorems about the runtime |
| `WebRTCProofs`, `ProviderProofs` | theorems about its users on top of it: WebRTC streams; Silero streams and, independently of them, the benchmark |
| `SendLockProofs` | lemmas about the line for the lock |
| `NativeSessionProofs`, `OpenAISessionProofs` | theorems about a session of either protocol, with those lemmas |
| `PublicationProofs` | theorems about publication |

## 3. The scheduler

### State and actions

`job`, `future` and `caller` are the fields of `_Job` and the coroutine in `_await_job`;
`heap`, `stale`, `started`, `queued`, `partials`, `gens` are `_heap`, the flags, `_queued_count`,
`_partials` and `_generations`; `pc`, `batch`, `waiters` are the workers and the waiter deque of
`_condition`. An entry missing from `_generations` is 0, which the code cannot tell apart.

| Action | Code |
| --- | --- |
| `SubmitFinal`, `SubmitFinalBusy`, `SubmitPartial` | the critical sections of `submit_final` and `submit_partial` with `_invalidate_partial` and `_enqueue` |
| `Resume`, `Cancel`, `Unwind`, `Interrupted` | `_await_job`: return; the task is cancelled (which cancels the future at once); the handler gets the lock, or is cancelled again while it waits for it and leaves the rest to the worker's scan |
| `CheckQueue`, `BatchWaitElapses` | the idle wait and the batch wait of `_next_batch`, which share one condition |
| `PickBatch`, `PickNothing` | `_pop_live`, the scan, `_release_generation`, and the rebuilt heap |
| `FinishBatch` | the engine call returns or raises; `_finish` for every job |
| `Start`, `BeginClose`, `EndClose` | `start`; `close` up to and after its gather |

`batch_wait_ms = 0` gives a subset of these behaviours. `FinishBatch` settles the batch in one
step; `BatchesAreUniform` (part of `BatchAdmissible`) is why the order does not matter: of a
session a batch holds at most one partial. (It may hold several finals of a session, even of one
generation, once cancellations have dropped the counter in between; no final looks at it.)
The lock is held across an await only by a worker between its wakeup and its scan, so that is when
the handler can be caught waiting (`anyio` cancels again on every turn of the loop). `start` while
`close` waits, cancellation of worker tasks and exceptions of the metrics are not modelled.

### Runs

| Run | Instance | Checks |
| --- | --- | --- |
| `scheduler_workers` (1.9 M states) | two sessions, two workers, a queue of two, three jobs, one caller - of a final or of a partial - may be cancelled, also under the lock | `NoOrphan`: a pending future is queued or in a running batch; `LivePartialIsNewest`; `GenerationIsKept`: a queued partial keeps its session's counter; `DepthIsExact`; `WorkConserving`: no wakeup is lost; `StalenessHasACause`: why a partial fails as stale; `ImplementsContract` |
| `scheduler_batching` (2.6 M) | two sessions, one worker, two classes and a request longer than the audio budget, a queue that refuses nothing | `BatchAdmissible`; `OldestFinalFirst` |
| `scheduler_depth_violated` | one session, a cancelled partial | finding 1 |

Three jobs are enough for the interesting cases: a partial, what supersedes it and what
supersedes that; two in a batch and one left behind; a full queue of two and one refused. With
two workers the third job can be submitted while both work. Capacity two makes full queues
reachable together with supersession, and the second session is what a final that supersedes a
running partial and is refused takes. A second cancelled caller (`MaxCancels`) exceeds the time
a run may take. `TypeOK`, `ServedOnce` and `ClosedIsClean` are proved, not run.

Liveness is asked where the caller is: `FinalsAreSettled` and `LifespanGoesOn` of `Service`
(section 7) say that accepted finals settle and that `close` returns.

`SchedulerContract` is what the class docstring promises: a call waits, runs and is settled
once; newer audio of a session settles its partial at once, even when the newer final is
refused; finals start first; after closing what waited is refused and what ran is settled.
`ImplementsContract` is checked for safety. A partial that runs may fail as stale although nothing
superseded it: its session's counter has been dropped, and may have started again, meanwhile. The
contract allows that, and `StalenessHasACause` says when it can happen. A future turns stale in the step
that brings newer audio of its session (a final supersedes also when it is refused), or because the
counter was dropped under a partial that runs; and that counter is dropped only by the end of a final of
the partial's own generation: one that was cancelled (finding 4), or one that another worker ran beside
it. With callers that disconnect, or with a second worker, the second case is real.

### Proofs (`SchedulerProofs`)

For all sessions, workers, shapes and limits that satisfy `SchedulerAssumption`: `TypeCorrect`,
`NothingIsLost` (`NoOrphan`), `NothingRunsTwice` (`ServedOnce`), `AtMostOneLivePartial`
(`LivePartialIsNewest` and the docstring's claim `OneLivePartial`), `FinalsStayFresh`,
`CloseLeavesNothing` (`ClosedIsClean`).

They rest on one inductive invariant, `IInv`. `NoOrphan` alone is not inductive: superseding and
closing set flags, so the invariant adds that whoever flags a job settles it (`StaleIsSettled`),
that a cancelled future is settled before its handler runs, that `_partials` names partials of
its session, that a worker has a batch only during its engine call, and that a scheduler that
is not running has nothing queued and nobody asleep. `NextInv` has a lemma per action; lemmas
shared by submissions (`EnqueueEffect`), by scans (`ScanInv`) and by wakeups (`WakeKeeps`)
carry the common parts.

The second half of the module adds a second inductive invariant, `QueueInv` (at the end of `Scheduler`):

* `CapacityIsNotLeaked` (`DepthIsExact`). Every step changes `queued` and the set of jobs that hold
  a slot together; for this one must know who is still to take a discarded entry away.
  `DiscardedEntries` says it: after the worker's scan only an entry whose caller was cancelled
  stays in `_partials`. That is where finding 1 begins, and why the depth is exact without it.
* `NoWakeupIsLost` (`WorkConserving`). `IdleIsCovered`: while a worker sleeps idle, the live
  jobs are no more than its `Helpers`, the workers that are awake and those in their batch wait
  that will be notified *after* it. A worker in its batch wait that stands before it may take the
  notification meant for it, but then it goes on to scan, and whatever it leaves it notifies for.
  `DequeHoldsSleepers` ties the order of the waiter deque to the workers. This is the proof that
  needs the set of workers to be finite (`worker_count` is an integer of the configuration).
* `HeadOfQueueIsServed` (`OldestFinalFirst`), an action property of the scan.
* `BatchesAreAdmissible` (`BatchAdmissible`): kind, class, size and the audio budget. The budget is a
  sum over a set, built by a fold; that the scan adds one job at a time to it is induction over
  data, done without the library's induction theorems: of the sets for which a claim about the sum
  fails take a smallest one (`SmallestOf`), and show that a smaller one fails too. `SumExists` finds
  in this way the function the fold is defined by, `SumsAgree` shows that its value does not depend on
  the set it is defined over, `SumAdds` that one more job adds its audio.
* `SchedulerImplementsContract` (`ImplementsContract`). Submissions, cancellations, `PickBatch`,
  `FinishBatch`, `Start` and `BeginClose` map to the step of the contract of the same meaning;
  waking up, scans that find nothing, handlers of cancelled callers and the end of `close` change
  nothing a caller can see. `IInv` and `QueuedIsAwaited` (an entry that is queued and not
  discarded still has its caller, or its caller's cancellation is on its way) give the guards.

The last part is about generations, the counters by which a partial knows that it is outdated:

* `QueuedPartialsKeepTheirGeneration` (`GenerationIsKept`), inductive on top of the two invariants, for
  any number of workers and any cancellations: `_release_generation` never takes the counter
  of a partial that is still queued, and a running partial may lose its counter but never meets a
  counter that has moved past it without having been settled by what moved it.
* `StalenessIsExplained` (`StalenessHasACause`), an action property of every step, with no assumption on
  workers, cancellations or the size of the queue. `StaleCause` goes through the steps that fail a future as
  stale, `DropCause` through those that drop a counter: the entry of a partial that stays unsettled is still in
  `_partials`, which keeps every other partial from releasing the counter, so what releases it is a final
  of the same generation (`ReleasedByFinal`), and each of the three places names the final that ends there.

## 4. Voice activity detection

### The runtime

`VADRuntime` has two kinds of actors. On the loop: `Accept`, `Answer`, `GiveUp` (`submit`: in,
out, deadline or cancellation), `Take`, `Resume` (`_worker`), `Start`, `BeginClose`, `PutStop`,
`EndClose`. On threads: `EnterGate` and `Return` (`_Job.run`). A deadline and a cancelled caller
have the same effect, and either may coincide with the arrival of the result. The executor is an
arbitrary delay before `EnterGate`.

The runtime is run as part of `webrtc_streams`, below: `AcceptedIsHeld`, `ClosedIsQuiet`,
`AbandonedNeverStarts`, and under fairness `RuntimeGoesOn`: every accepted job is decided and
`close` returns, although its sentinels queue up behind accepted work and block while the queue is
full. The fairness is that of ready callbacks, of an executor that gets to its work, and of
classifiers that return. Neither a submission nor a deadline is assumed to happen.

`VADRuntimeProofs` proves `TypeCorrect`, `NothingDropped`, `QuietAfterClose`, `AbandonedStaysOut`,
`LateIsIgnored` and `JobsRunOnce` for any number of workers and any capacity. The invariant's core is
`QueueShape`: the queue is jobs followed by sentinels, and while `close` is in progress there is
exactly one sentinel, put or unsent, for each worker alive; a worker leaves only after the
last job was taken. Without the count of sentinels, that the queue is empty afterwards does not follow.
`JobsRunOnce` (`OnePlace`) is a second invariant on top: a job is in one slot or with one worker,
and with none once it has a result or an error.

### Silero streams

`SileroStreams` adds streams: `ScoreHeld` (no window complete), `ScoreSubmit`, `ScoreRefused`,
`ScoreAnswered`, `ScoreAbandoned`, `Reset`, `CloseStream`, `NewStream`. A stream may be reset or
closed under a score call. Audio is counted in samples, 64 to a unit (a frame is 5, a window 8, as
320 and 512); a frame is not longer than a window, so a call submits at most one. The recurrent
state is the epoch and the number of samples it has absorbed.

Run `silero_streams`: two streams for one lease, one worker, a queue of one, three windows, two
resets. `StateFollowsAudio`, `NoWindowSkipped`, `LeasesAreExact`. A provider never restarts after `close`, so the run ends (no deadlock check).

`ProviderProofs` proves the three for any number of streams, frame and window lengths, on top of
the runtime's invariant: every step of the streams is a step of the runtime
(`StepsAreRuntimeSteps`), so `IInv` holds without a second proof. The strengthening says that
a stream waits for at most one window and that the snapshot it waits for, if it is of the current
epoch, holds the stream's own state.

### WebRTC and energy streams

`WebRTCStreams` differs where it matters: the job works on the stream's own handle, which it
reads on the thread after its gate (`ReadHandle`). Run `webrtc_streams` (182 k states): a stream
that is reset and one that is not, two workers behind a queue of one, two frames, so that the
sentinels of `close` meet a full queue and a deadline meets a job at each of its places.
`HearsEveryFrame`, and the properties of the runtime above. A second property of the same module
fails: finding 2. Energy streams have no handle; they appear in `VADBench` (section 9).

`WebRTCProofs` proves `NoFrameGoesMissing` (`HearsEveryFrame`) and `LeasesMatchOpenStreams` for any
number of streams, workers, jobs and resets. `HearsEveryFrame` speaks of streams between two
calls; `HeardSoFar` says what such an `Unbroken` stream has heard during one: all but the last
frame while the job waits in the queue, for its thread or in the function, and all of them once the
result is on its way. That no other thread can add to it is `NothingLost` with `OnePlace`: every
earlier job of an unbroken stream has a result, and a job with a result is in nobody's hands. An error
leaves what was heard open, which is right: its answer fails the stream. Resets are excluded for
good reason, finding 2.

## 5. Native sessions

`NativeSession` is one connection: the receive loop with its position `pc`, one partial task
(`task`, `tasks`), the final it waits for, the lock's line, and what was sent (`wire`).
`VoiceFrame` and `PlainFrame` are `_handle_audio_frame` with and without VAD; `Finalize`,
`FinalSettles`, `FinalReturns` and part of `ServeSent` are `_finalize`; `JobSettles`,
`PartialResumes`, `TaskSent` and `TaskEnds` are `_emit_partial`; `Reject`, `Deadline`, `Cancel`, `Disconnect`,
`Closed` and `Release` are the ends. The scheduler is its contract seen by one session: it
settles calls when it likes, and a final makes the pending partial stale.

* `asyncio.Lock` is first come, first served (`SendLock`), and cancellation takes a waiter out.
* `wait_for` wraps `receive` in a task, so the first step of a new partial task runs before the
  loop reads on: it is part of the step that creates the task.
* When a final and a partial are settled in the same turn of the loop, callbacks run in the
  order they became ready: the guard `Ready` of `FinalReturns`.
* `Reject` stands for every end that the server chooses: protocol violations, idle timeout, VAD
  refusals and failures. The branch for an utterance that is too long is dead while
  `StartFrames < MaxFrames`, and a partial is never outstanding twice. (With equality an
  utterance could start in a full buffer, and its next frame would end the session.)

Run `native_session` (85 k states): two utterances of up to five frames, three partials.
`UtterancesInOrder`, `BufferMatchesEndpoint`, `NothingOutlivesSession`, `PartialsOfOpenUtterance`;
`UtterancesAreSeparate`: a new utterance begins with no task, text or audio of the one before;
`SessionGoesOn`: a final is answered or the session ends, and the session limit ends it. Two
utterances are what it takes for something of one to reach the next; five frames let an
utterance start, be cut by its maximum and end by silence.

Fairness: finals settle (`FinalsAreSettled` of `Service`), VAD decides (`RuntimeGoesOn`),
ready tasks run, and a send ends, because the server's keepalive finds a peer that is gone. A
partial call may wait for ever.

### Proofs (`SendLockProofs`, `NativeSessionProofs`)

For any limits, frame counts and number of utterances: `BufferNeverOverflows`
(`BufferMatchesEndpoint`), `SessionLeavesNothing` (`NothingOutlivesSession`), `UtterancesDoNotMix`
(`UtterancesAreSeparate`), `ClientReadsInOrder` (`UtterancesInOrder`) and the action property
`PartialsAreCurrent` (`PartialsOfOpenUtterance`), all from one inductive invariant, `SessionInv`.

* `BufferInv` and `HoldInv`: the detector's counters, and what is held between which steps.
* `LineInv`: the line for the lock holds the receive loop when it has something to send, and
  exactly the tasks that have; nobody twice. `SendLockProofs` says what joining, leaving and
  being cancelled do to such a line, whoever stands in it.
* `TasksInv` is the heart. `_finalize` forgets the partial task instead of awaiting it. This is
  harmless because (a) submitting the final settles the pending partial, so its task is no longer
  inside the scheduler when the final returns (the loop runs what is ready in order), and
  (b) what the task has to send it queued for before the receive loop queued for the final. The lock
  is first come, first served, so when the final is out the task is over. The invariant says this
  of each place of the loop: all tasks are over while nothing of the open utterance has been said
  (`Silent`), a task that is not over belongs to an earlier epoch once the final is submitted, and the
  receive loop is last in the line while it answers.
* `TextsInv`: therefore no late partial touches the texts of the next utterance.
* `WireInv`: what may still be said has not been overtaken. A task that waits for the lock has the
  current revision, and no final of the open utterance is out.

## 6. OpenAI realtime sessions

`TurnBuffer` is `RealtimeSessionState`: positions in bytes, trimming, whole and partial commits.
`OpenAISession` is one connection: `Receive` and `FrameScored` are the append handler and the loop of
`_vad`; `Stop`, `StoppedSent`, `Commit`, `SlotFrees` and `Snapshot` are the way from the end of
speech to a committed turn, with an await at each arrow; `TurnReturns`, `TurnSent` and
`TurnUnwinds` are the task of a turn (`_infer`); `Update` is `session.update`, with the VAD stream
that `_run_session` stores only after `session.updated` is sent.

* Conversion on a thread and the scheduler call of a turn are one wait with one outcome.
* `told` records, per item, what was sent once a task has the lock of a connected socket. An
  event that is lost with its peer counts as sent.
* `held` is the set `tasks`, from which tasks that are over are collected only while waiting for
  a place. `heard` and `cut` are history: where the stream has listened, and what was taken before.
* A commit by turn detection cannot be refused (its size is a positive number of whole frames), so
  the branch for it in `_vad` is dead (lemma `DetectedIsWhole`).
* A stream that cannot be reset ends the session: `Update` fails with the new configuration in
  force, `Clear` with the buffer empty, and `Snapshot` with the turn taken from the buffer and
  dropped, so that its item is announced and never committed. The stream then keeps its old audio
  (`heard`), which is why the agreement of stream and detector is asked only of a session that
  listens. Internal errors other than these are not modelled.

Run `openai_session` (98 k states): frames of two bytes, two start and one ends a turn, a prefix
of one frame, appends of five and eight bytes - so positions are odd and no multiple of a frame -
fourteen bytes in all, three turns, one transcribed at a time as in the test of backpressure.

* `BufferIsConsistent`: buffer, detector and stream agree on where they are.
* `ItemEventsInOrder`: "delta precedes completed for that item", and the rest of an item's life.
* `TurnsHoldTheirSpeech`: a turn begins exactly where `speech_started` says, unless that audio
  was taken before, holds its speech, ends no earlier than `speech_stopped` says, and overlaps no
  other turn.
* `TurnsAreBounded`, `NothingOutlivesSession`, `NobodyWaitsForever`.

Larger instances (two turns at a time) exceed the time a run may take; the second place would add
interleavings of two tasks that share only the lock. Fairness is as for native sessions.
`openai_lease_violated` is finding 3.

### Proofs (`SendLockProofs`, `OpenAISessionProofs`)

For any frame, prefix and append sizes, any `max_pending_turns` and any number of turns:
`PendingTurnsAreBounded` (`TurnsAreBounded`), `OpenAISessionLeavesNothing`
(`NothingOutlivesSession`), `BufferAndStreamAgree` (`BufferIsConsistent`), `EventsOfItemsInOrder`
(`ItemEventsInOrder`) and `TurnsAreTheSpeechAnnounced` (`TurnsHoldTheirSpeech`). All follow from one
inductive invariant, `SessionInv` (at the end of `OpenAISession`). TLC has checked it on the run's
instance; the theorem is `OpenAISessionInvariant`. It is proved in four layers; every step of
`Next` is shown to keep each layer, with the ones below as hypotheses:

* The line and the tasks. `LineInv`: the receive loop is in the line when its phase is a send, a
  turn when it has an event to send, nobody twice. `TasksInv`: a turn is in `tasks` from its start
  until it has been collected, so the bound on `tasks` bounds the turns that run; and while a
  turn is being acknowledged there is a place for it, because tasks only leave meanwhile.
* The stream and the buffer. `HoldInv` is the lease. `BufferInv` says of every phase how far the
  stream and the scan are apart (`InStep`), and that detection is never left behind audio that
  it could read. Before speech the scanned part is exactly the prefix and the speech run, unless
  a commit or a clear took what came before; this is what trimming maintains, and it is
  why a turn begins where `speech_started` says. Frames are even and so is the prefix, therefore
  what detection commits is whole samples.
* The items. `ItemsInv`: an item has one owner - it is pending, of one turn, or cleared - and what
  the owner may still say comes after what has been said. `ReplyInv` is the same for the event
  that the receive loop waits to send: a turn that overtakes it in the line speaks of another item.
* The speech. `SpeechInv`: what was announced of the open item, or will be once the receive loop
  has the lock, fits the buffer *before* it is committed: the buffer begins at the announced start, and
  detection has read to the announced stop when it is detection that commits.

The order of the layers is the order in which the code may be understood: nothing about items
needs to be known to see that the buffer is right.

## 7. The service

`Service` puts the scheduler into its surroundings: one lifespan, requests of the two upload
surfaces, each of which submits one final under its own session identifier, and realtime
connections, of which only the calls matter here.

| Action | Code |
| --- | --- |
| `BeginStartup`, `StartEngine`, `Serve` | the stages of `lifespan` up to its awaits; starting the scheduler suspends nowhere, so it is one step with the announcement of readiness |
| `StartupRejected`, `ProviderFails`, `EngineMissing`, `EngineFails` | a stage raises and the finally block closes what is there |
| `StopServing`, `CloseScheduler`, `ShutDownEngine`, `CloseProvider` | the finally block after serving; the last two may raise |
| `TurnedAway`, `Arrive`, `BodyTooLarge` | `HTTPAdmissionMiddleware` |
| `FormRejected`, `NotReady`, `Admit`, `UploadTooLarge` | the form, readiness, the upload, of `transcribe` and `create_transcription` |
| `DecodePCM`; `BeginDecode`, `DecodeAudio` | REST decodes on the loop, the OpenAI surface on a thread |
| `Submits`, `Refused`, `Transcribed` | `run_transcription` |
| `TimesOutEarly`, `Deadline`, `TimedOut` | `anyio.fail_after` strikes in the line for the lock or under the call; the handler cleans up or is interrupted |
| `Speak`, `Hear` | the calls of a connection |

What the parsers and the decoder accept is a choice, and so is what a request is told: the model
knows that it was answered, not with which status. A failed startup is recorded as `failed` and
overwritten with `stopping` in the same turn of the loop, so `failed` is no state of the model.

Run `service` (122 k states): an upload on either surface and a connection with two calls, the one
worker of the service, a queue of one (so that a request is refused and superseded partials meet a
full queue), `torch.cuda.empty_cache()` may raise.

* `ReadyMeansServable`: a ready answer of `/health/ready`, or an upload that is admitted, means
  that provider, model and scheduler are up; no request falls through to the engine itself.
* `TeardownInOrder`: no engine call without the model, the provider closed last, nothing left
  open at the end, whichever stage failed.
* `AnsweredHoldsNoSlot`: after its answer a request has nothing pending and no slot, at most an entry
  that a worker already on its way to the scan discards.
* `FinalsAreSettled`: an admitted request is answered and every accepted final is settled although no
  deadline ever passes, and also when the service stops. `LifespanGoesOn`: startup and shutdown end.

Fairness: startups, reads, decoding, engine calls and closes return, and the loop runs ready tasks.
Nobody is obliged to send a body, to start or stop the service, and no deadline need pass. One
upload is enough because uploads interact only through the queue, where the connection competes
with it; two exceed the time a run may take.

### Proofs (the last part of `SchedulerProofs`)

For any number of uploads, connections and workers: `ServiceRunsScheduler` (`ServiceSpec => Spec`),
`AnnouncedIsServable` (`ReadyMeansServable`), `TeardownIsOrderly` (`TeardownInOrder`) and
`AnsweredUploadsAreGone` (`AnsweredHoldsNoSlot`).

Every step of the service is a step of the scheduler or leaves it alone (`SchedulerStep`), so
`IInv` and `QueueInv` hold of the scheduler inside it without a second proof. `ServiceInv` relates
the two: `LifeMatches` and `ModelMatches` say what is up at each await of the lifespan,
`AnnouncedWhileServing` when the tracker may say ready, `RequestsFollowJobs` that a request past its
readiness check has seen a scheduler that was started (so it never falls back to the engine)
and has exactly one job, whose caller is where the request is. `AnsweredHoldsNoSlot` is inductive
together with that: an interrupted cancellation leaves its entry to a worker that holds the lock.

## 8. Publication

`Publication` is both provisioning tools (`kind`), with as many runs at once as one likes. A step is one
call that others can see or that matters after a loss of power. The payload is a set of parts, each
`absent`, `good` or `bad`; `flushed` and `entered` tell whose content and whose directory entry
would survive. `LosePower` lets everything else survive, be damaged or be lost. `Raise` and `Kill` may strike
at any call. External, and assumed: `rename` is atomic and fails on a directory that is not empty.

`PublishedDirectory` is the promise: the destination is absent or, at once, the complete work of one
run and stays that; success is only reported of a complete destination; a run that renamed reports
success only when a loss of power can no longer take its work back.

Run `publication` (129 k states): three runs, two losses of power, symmetry in the runs.
`ImplementsPublication` (the refinement, for both tools) and `LeavesNoStaging`: a run that ends by
itself leaves no staging directory, unless removing it (`CleanUp`, `shutil.rmtree`) is what failed. A
run whose removal raises reports that error, also when it had found another run's good directory and
would have reported success; the refinement therefore counts a success only when the run is over. Three runs are a winner, a loser and one that comes after
a crash; with two losses of power a reader of what the first one left can be hit by the second.

What the promise leaves out, because the code does: a run that finds a destination, or loses
the race, reports success without syncing the parent directory. Between the rename of another run and its
`fsync` a loss of power still takes the directory away. That the parent directory itself is durable
is assumed.

### Proofs (`PublicationProofs`)

For any number of runs and of losses of power: `PublicationIsAtomic` (`Spec => ImplementsPublication`)
and `NoStagingIsLeft`. That a loss of power cannot damage the destination is not inductive by
itself: the invariant follows a run through its steps and says which parts are flushed
(`Flushed`), verified and entered (`Prepared`) at each place, so that the rename only ever shows a
directory of which everything is durable, and that nobody writes there afterwards (`Shown`). Then a
loss of power has no choice left (`NothingDamaged`), every content is undamaged
(`ContentIsDest`), and each step maps to one of the promise or to none (`StepImplements`).

## 9. The VAD benchmark

`VADBench` is `benchmark_provider` with energy streams on the same `VADRuntime`: the
recording (`BeginRecording`, `NextFrame`, `LastFrame`, `RejectRecording`, `GiveUpRecording`), the streams
held for the memory measurement, the binary search (`BeginSearch`, `Record`, `Search`) and its trials
(`BeginGather`, `BeginScore`, `NextRound`, `TrialEnds`, `TrialFails`), and the final `close` (`Leave`).
One recording stands for the loop over the manifest's variants, which share nothing but the provider.

Run `vad_benchmark` (169 k states): two workers, a queue of two, a search up to three streams with two
frames each, a recording of four frames with every labelling and every outcome of the scores. Three streams
are one more than the queue takes, so that trials fail by refusal as well as by deadline and error.

* `SearchIsExact`: the bracket, the trials and the answer agree; a trial passes only with
  results of its own calls, whatever an earlier trial left in the runtime.
* `SegmentsAgreeWithFrames`: the metrics of segments, defined on runs, are what they should be on frames.
* `EndsClean`: the benchmark ends with every lease given back and a quiet runtime. Fairness: ready
  coroutines run, threads return, and a call is answered or meets its deadline.

### Proofs (the last part of `ProviderProofs`)

`SearchReportsWhatItSaw` (`SearchIsExact`) and `BenchGivesLeasesBack`, for any bound of the search,
any numbers of frames, workers and held streams, and any capacity of the queue. Every step is one of
the runtime or leaves it alone, so the runtime's `IInv` comes for free. `BenchInv` (at the end of
`VADBench`) adds what the search rests on: the bracket is one and nothing is known before the first trial
(`SearchTypes`, `NothingTried`); a trial holds exactly the streams of its concurrency open (`TrialIsOpen`);
and while no call of the awaited gather has raised, each stream that has begun has a call of its own in it, and
those that were answered had a result (`GatherIsAwaited`). The calls that a failed trial leaves behind are
jobs of the runtime outside that set, so whatever becomes of them says nothing of the next trial.

`MetricsComeFromFrames` (`SegmentsAgreeWithFrames`), for recordings of any length. The invariant is small
(`FramesHaveLabels`: no more frames are scored than there are labels); the rest is that
`MetricsAgree` holds for any two sequences of flags of one length (`MetricsAlwaysAgree`):

* A run is a maximal interval of set frames (`IsRun`); two that share a frame are one (`OneRun`), and every set
  frame has one around it (`RunAround`).
* The one pass of `true_runs` has at each flag found the runs that end before it, in order,
  and knows where the open one began (`PassInv`); so it returns every run, each once (`TrueRunsFound`). The pass
  is a recursive function, and the induction over it is the smallest flag at which the claim would fail
  (`PassHolds`).
* A predicted run overlaps a labelled one exactly if they share a predicted frame (`OverlapIsHit`). Runs are ordered,
  so the first and the last that overlap are those around the first and the last such frame
  (`DelaysOfSegment`), which gives the number of detected segments and the delays.
* A false activation is named by its first frame, a bijection (`FalseActivationsCounted`); the
  four counts split the frames (`FramesCounted`).

## 10. Findings

1. **The drained queue reads -1** (`scheduler.py:238`, run `scheduler_depth_violated`). A
   partial whose caller is cancelled is taken out of the depth by the worker's scan, stays in
   `_partials`, and is taken out again by the next submission of its session. The depth is then
   too low by one until the scheduler closes. `DepthIsExact` shows that this is the only way: without cancelled
   partials the depth is exact, and it is never too high.
2. **Two threads use one WebRTC handle** (`webrtc.py:213`, run `webrtc_sequential_violated`).
   A job that passed its gate just before its deadline reads the handle after the stream was
   failed and reset, and shares it with the next frame.
3. **A lease is lost when `session.updated` cannot be sent** (`connection.py:446`, run
   `openai_lease_violated`). The stream exists before the send and is stored after it; a peer
   that leaves, or the session limit, in between loses the lease for good.
4. **A partial fails as stale although nothing superseded it** (`scheduler.py:380`). `_release_generation`
   looks for jobs of the session in the heap only. When a final is cancelled while it is queued, its handler
   can run after the worker has discarded the final and begun the session's partial; it drops the counter,
   and the partial's result is thrown away with `StalePartialError`, of which line 36 says "A newer partial
   or final superseded this partial". This is the case `CounterIsGone` of `StalenessHasACause`: without it
   TLC refutes the property on `scheduler_workers` in nine states, with one final, its cancellation and
   one partial. It has no run of its own.

## 11. What is only model-checked

Every invariant and action property of the passing runs is stated by a theorem. For the rest the runs show
the small instances above, no more:

* Liveness (`SessionGoesOn`, `NobodyWaitsForever`, `RuntimeGoesOn`, `FinalsAreSettled`, `LifespanGoesOn`,
  `EndsClean`): fairness and ENABLED are outside the proof system's reach.
* What the violation runs check is false: nothing to prove.

## 12. What is not modelled

* Engine inference and loading: a call that returns or raises. Startup, shutdown and the
  verification of the snapshot are in `Service` and `Publication`.
* Numeric code (resampling, model inference, thresholds): a score is a nondeterministic choice.
* Parsing and validation: a message is accepted, answered with an error, or ends the session.
* The text of transcripts, and with it the stable prefix: a pure function compared character by
  character. `NativeSession` keeps which hypotheses belong to the open utterance.
* The counter of the connection registry, one integer under one lock; that a connection takes and gives back
  its place is in `NativeSession`.
* A second cancellation of a connection during its teardown: only a server that is shutting
  down does this, and what would leak dies with it.
* Generations that leak: if the last queued final of a session is cancelled while an earlier one
  runs, its counter is never dropped until `close`. Nothing promises otherwise; it costs memory.
* The TCP ingress: a separate process of two pumps per connection, whose outcome depends on how
  asyncio's streams behave at a half close (a hazard with a note).
* Metrics, tracing, logging, static configuration, `scripts/benchmark.py` (a client that measures a
  running service), deployment.

## 13. Plan

| Order | Module | Content |
| --- | --- | --- |
| done | `Scheduler` ... `OpenAISession` | sections 3 to 6 |
| done | `Service`, `Publication` with `PublicationProofs`, `VADBench` | sections 7 to 9 |
| done | `SchedulerProofs`, `ProviderProofs`, `WebRTCProofs`, `NativeSessionProofs`, `OpenAISessionProofs` | sections 3 to 7, 9 |
