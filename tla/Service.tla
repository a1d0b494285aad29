------------------------------ MODULE Service ------------------------------
(***************************************************************************)
(* The service around the scheduler: the lifespan that starts and stops    *)
(* the VAD provider, the engine and the scheduler (core/lifespan.py), the  *)
(* readiness it publishes (core/readiness.py, api/health.py), and the two  *)
(* upload surfaces (api/rest.py, api/openai.py) behind the admission of    *)
(* api/http_admission.py, each request of which submits one final.         *)
(*                                                                         *)
(* A request is named by the session identifier it gives to submit_final,  *)
(* its own request id; the other sessions are realtime connections, of     *)
(* which only the calls to the scheduler matter here.  A step is the code  *)
(* between two awaits, of the lifespan, of a request's task, of a          *)
(* connection or of the scheduler.                                         *)
(***************************************************************************)
EXTENDS Scheduler

CONSTANTS
  Requests,    \* uploads; the other sessions are realtime connections
  MaxCalls,    \* bound on the calls of the connections (the code has none)
  CacheRaises  \* may torch.cuda.empty_cache() raise in engine.shutdown()?

ASSUME ServiceAssumption ==
  /\ Requests \subseteq Sessions
  /\ MaxJobs >= MaxCalls + Cardinality(Requests)
  /\ MaxCancels >= Cardinality(Requests)  \* nothing but a deadline cancels here
  /\ CacheRaises \in BOOLEAN

VARIABLES
  life,      \* where the lifespan coroutine is
  tracker,   \* the ReadinessTracker: its stage and its two checks
  provider,  \* the VAD provider: "none", "built", "up" or "closed"
  engine,    \* engine.readiness.state; "none" while there is no engine
  model,     \* does the engine hold the model?
  raised,    \* has a close or shutdown raised?
  surface,   \* request -> "rest" or "openai", the route it is sent to
  req        \* request -> where its task is

lifeVars    == <<life, tracker, provider, engine, model, raised>>
requestVars == <<surface, req>>
serviceVars == <<vars, lifeVars, requestVars>>

-----------------------------------------------------------------------------
(* Readiness.                                                               *)

Report(stage, status) == [stage |-> stage, engine |-> status, scheduler |-> status]

\* The update that opens the shutdown.  (Mutant: only the stage is updated.)
StoppingStage == [tracker EXCEPT !.stage = "stopping"]
Stopping      == Report("stopping", "stopping")
Stopped       == Report("stopped", "stopped")

\* ReadinessSnapshot.ready, which the upload surfaces read.
SnapshotReady == tracker.engine = "ready" /\ tracker.scheduler = "ready"

\* What /health/ready answers: the engine and the scheduler are asked as well.
HealthReady ==
  /\ tracker.engine = "ready" /\ engine \in {"none", "ready"}
  /\ tracker.scheduler = "ready" /\ phase \in {"new", "up"}

-----------------------------------------------------------------------------
(* The lifespan.  A failure of the startup is recorded and overwritten by   *)
(* the finally block in the same step, so "failed" is never observable.     *)

\* The key is read and the provider built, up to the await of its startup.
BeginStartup ==
  /\ life = "new"
  /\ life' = "vad" /\ provider' = "built"
  /\ tracker' = [tracker EXCEPT !.stage = "vad_starting"]
  /\ UNCHANGED <<vars, engine, model, raised, requestVars>>

\* read_api_key or build_vad_provider raises: nothing has been made and the
\* finally block awaits nothing.
StartupRejected ==
  /\ life = "new"
  /\ life' = "over" /\ tracker' = Stopped
  /\ UNCHANGED <<vars, provider, engine, model, raised, requestVars>>

\* provider.startup returns and the engine is built, up to the await of
\* engine.startup.
StartEngine ==
  /\ life = "vad"
  /\ life' = "engine" /\ provider' = "up" /\ engine' = "starting"
  /\ tracker' = [stage |-> "engine:verifying_artifacts", engine |-> "starting",
                 scheduler |-> "pending"]
  /\ UNCHANGED <<vars, model, raised, requestVars>>

\* Only the provider is closed when provider.startup raises,
ProviderFails ==
  /\ life = "vad"
  /\ life' = "closing_vad" /\ tracker' = Stopping
  /\ UNCHANGED <<vars, provider, engine, model, raised, requestVars>>

\* or when there are no artifacts or no module to build the engine from.
EngineMissing ==
  /\ life = "vad"
  /\ life' = "closing_vad" /\ tracker' = Stopping /\ provider' = "up"
  /\ UNCHANGED <<vars, engine, model, raised, requestVars>>

\* engine.startup returns; scheduler.start suspends nowhere, so building and
\* starting the scheduler and announcing readiness are one step.
Serve ==
  /\ life = "engine"
  /\ life' = "serving" /\ engine' = "ready" /\ model' = TRUE
  /\ Start
  /\ tracker' = Report("ready", "ready")
  /\ UNCHANGED <<provider, raised, requestVars>>

\* _load_sync raises: engine.shutdown follows at once, and has no model to drop.
EngineFails ==
  /\ life = "engine"
  /\ life' = "closing_vad" /\ engine' = "stopped" /\ tracker' = Stopping
  /\ UNCHANGED <<vars, provider, model, raised, requestVars>>

\* The server asks the application to stop.
StopServing ==
  /\ life = "serving"
  /\ life' = "stopping" /\ tracker' = Stopping
  /\ UNCHANGED <<vars, provider, engine, model, raised, requestVars>>

\* scheduler.close gets the lock.
CloseScheduler ==
  /\ life = "stopping"
  /\ life' = "joining"
  /\ BeginClose
  /\ UNCHANGED <<tracker, provider, engine, model, raised, requestVars>>

\* Where the lifespan goes after a shutdown that raised.
\* (Mutant: the calls follow each other without try and finally.)
AfterRaiseGivesUp == "over"
AfterRaise        == "closing_vad"

\* scheduler.close returns.  engine.shutdown suspends nowhere: it drops the
\* model, then may raise before it reports STOPPED.
ShutDownEngine ==
  /\ life = "joining"
  /\ EndClose
  /\ model' = FALSE
  /\ \/ life' = "closing_vad" /\ engine' = "stopped" /\ UNCHANGED raised
     \/ CacheRaises /\ life' = AfterRaise /\ raised' = TRUE /\ UNCHANGED engine
  /\ UNCHANGED <<tracker, provider, requestVars>>

\* provider.close returns or raises.  The last update is skipped when anything
\* raised on the way.
CloseProvider ==
  /\ life = "closing_vad"
  /\ life' = "over" /\ provider' = "closed"
  /\ raised' \in {raised, TRUE}
  /\ tracker' = IF raised' THEN tracker ELSE Stopped
  /\ UNCHANGED <<vars, engine, model, requestVars>>

-----------------------------------------------------------------------------
(* A request.                                                               *)

JobOf(r) == CHOOSE j \in Jobs : SessionOf(j) = r

Goto(r, where) ==
  /\ req' = [req EXCEPT ![r] = where]
  /\ UNCHANGED surface

\* A transcript, or any error: no response leaves the request anything to do.
Answer(r) == Goto(r, "answered")

\* HTTPAdmissionMiddleware, before the body: the credentials do not match or
\* the declared length is over the limit,
TurnedAway(r) ==
  /\ req[r] = "new"
  /\ Answer(r)
  /\ UNCHANGED <<vars, lifeVars>>

\* or the application goes on to receive the body.
Arrive(r) ==
  /\ req[r] = "new"
  /\ Goto(r, "body")
  /\ UNCHANGED <<vars, lifeVars>>

\* The body grows past the limit: limited_receive raises through the parser.
BodyTooLarge(r) ==
  /\ req[r] = "body"
  /\ Answer(r)
  /\ UNCHANGED <<vars, lifeVars>>

\* The form does not validate, or has a parameter the surface does not allow.
FormRejected(r) ==
  /\ req[r] = "body"
  /\ Answer(r)
  /\ UNCHANGED <<vars, lifeVars>>

\* After the form, readiness is looked at, once, before the upload is read.
\* (Mutant: it is not looked at.)
AdmittedAlways == TRUE
Admitted       == SnapshotReady

NotReady(r) ==
  /\ req[r] = "body" /\ ~Admitted
  /\ Answer(r)
  /\ UNCHANGED <<vars, lifeVars>>

Admit(r) ==
  /\ req[r] = "body" /\ Admitted
  /\ Goto(r, "upload")
  /\ UNCHANGED <<vars, lifeVars>>

\* The upload has been read; one larger than max_upload_bytes is refused.
UploadTooLarge(r) ==
  /\ req[r] = "upload"
  /\ Answer(r)
  /\ UNCHANGED <<vars, lifeVars>>

\* REST decodes it on the event loop and goes on to the scheduler's lock.
DecodePCM(r) ==
  /\ req[r] = "upload" /\ surface[r] = "rest"
  /\ Answer(r) \/ Goto(r, "lock")
  /\ UNCHANGED <<vars, lifeVars>>

\* The OpenAI surface hands it to a thread,
BeginDecode(r) ==
  /\ req[r] = "upload" /\ surface[r] = "openai"
  /\ Goto(r, "decode")
  /\ UNCHANGED <<vars, lifeVars>>

\* which refuses what it cannot decode or what is too long.
DecodeAudio(r) ==
  /\ req[r] = "decode"
  /\ Answer(r) \/ Goto(r, "lock")
  /\ UNCHANGED <<vars, lifeVars>>

\* run_transcription: without a scheduler it would call the engine directly.
Submits(r) ==
  /\ req[r] = "lock"
  /\ phase = "up" /\ queued < MaxQueue
  /\ \E shape \in Shapes : SubmitFinal(r, shape)
  /\ Goto(r, "awaiting")
  /\ UNCHANGED lifeVars

Refused(r) ==
  /\ req[r] = "lock"
  /\ phase # "up" \/ queued >= MaxQueue
  /\ IF phase = "new" THEN Goto(r, "direct") ELSE Answer(r)
  /\ UNCHANGED <<vars, lifeVars>>

\* The deadline passes while the request waits for the lock (see Interrupted).
TimesOutEarly(r) ==
  /\ req[r] = "lock"
  /\ \E w \in Workers : pc[w] \in {"gather", "pick"}
  /\ Answer(r)
  /\ UNCHANGED <<vars, lifeVars>>

\* submit_final returns or raises.
Transcribed(r) ==
  /\ req[r] = "awaiting"
  /\ Resume(JobOf(r))
  /\ Answer(r)
  /\ UNCHANGED lifeVars

\* The deadline passes: anyio cancels the task while what it awaits is pending.
Deadline(r) ==
  /\ req[r] = "awaiting" /\ Pending(JobOf(r))
  /\ Cancel(JobOf(r))
  /\ Goto(r, "leaving")
  /\ UNCHANGED lifeVars

TimedOut(r) ==
  /\ req[r] = "leaving"
  /\ Unwind(JobOf(r)) \/ Interrupted(JobOf(r))
  /\ Answer(r)
  /\ UNCHANGED lifeVars

-----------------------------------------------------------------------------
(* A realtime connection: the calls it makes, and what becomes of them.     *)

Connections == Sessions \ Requests

\* It submits; a newer call of its own supersedes its partial.
Speak(s) ==
  /\ Cardinality({j \in Jobs : SessionOf(j) \in Connections}) < MaxCalls
  /\ \/ \E shape \in Shapes : SubmitFinal(s, shape) \/ SubmitPartial(s, shape)
     \/ SubmitFinalBusy(s)
  /\ UNCHANGED <<lifeVars, requestVars>>

\* A call of it returns.  (That its task may be cancelled instead is left to
\* Scheduler and to the modules of the sessions.)
Hear(j) ==
  /\ SessionOf(j) \in Connections
  /\ Resume(j)
  /\ UNCHANGED <<lifeVars, requestVars>>

-----------------------------------------------------------------------------
ServiceInit ==
  /\ Init
  /\ life = "new"
  /\ tracker = Report("created", "pending")
  /\ provider = "none" /\ engine = "none"
  /\ model = FALSE /\ raised = FALSE
  /\ surface \in [Requests -> {"rest", "openai"}]
  /\ req = [r \in Requests |-> "new"]

\* What the lifespan does by itself once it has begun, until it serves and
\* after it is asked to stop.
Lifespan ==
  \/ StartEngine \/ ProviderFails \/ EngineMissing \/ Serve \/ EngineFails
  \/ CloseScheduler \/ ShutDownEngine \/ CloseProvider

\* What the client decides, until its body is there.
Receive(r) ==
  \/ TurnedAway(r) \/ Arrive(r)
  \/ BodyTooLarge(r) \/ FormRejected(r) \/ NotReady(r) \/ Admit(r)

\* What a request does once its body is there.
Handle(r) ==
  \/ UploadTooLarge(r) \/ DecodePCM(r) \/ BeginDecode(r) \/ DecodeAudio(r)
  \/ Submits(r) \/ Refused(r)
  \/ Transcribed(r) \/ TimedOut(r)

Work(w) == Worker(w) /\ UNCHANGED <<lifeVars, requestVars>>

ServiceNext ==
  \/ BeginStartup \/ StartupRejected \/ StopServing \/ Lifespan
  \/ \E r \in Requests : Receive(r) \/ Handle(r) \/ TimesOutEarly(r) \/ Deadline(r)
  \/ \E s \in Connections : Speak(s)
  \/ \E j \in Jobs : Hear(j)
  \/ \E w \in Workers : Work(w)

(* Reads, decoding, engine calls, startups and closes return, and the loop  *)
(* runs every ready task.  Nobody is obliged to send a request or its body, *)
(* to start or to stop the service, and no deadline need ever pass.         *)
ServiceSpec ==
  /\ ServiceInit /\ [][ServiceNext]_serviceVars
  /\ WF_serviceVars(Lifespan)
  /\ \A r \in Requests : WF_serviceVars(Handle(r))
  /\ \A j \in 1..MaxJobs : WF_serviceVars(j \in Jobs /\ Hear(j))
  /\ \A w \in Workers : WF_serviceVars(Work(w))

-----------------------------------------------------------------------------
(* Properties.                                                              *)

(* Readiness is never announced, to a probe or to the upload routes, unless *)
(* everything a request needs is up: provider started, model loaded and     *)
(* scheduler accepting; so no admitted request falls back to the engine     *)
(* itself, and the announcement is withdrawn before anything is closed.     *)
ReadyMeansServable ==
  /\ HealthReady \/ SnapshotReady =>
       provider = "up" /\ model /\ engine = "ready" /\ phase = "up"
  /\ \A r \in Requests : req[r] # "direct"

(* Whatever fails on the way up or down, nothing is released under          *)
(* somebody who uses it (no engine call runs without the model, the         *)
(* provider is closed last), and when the lifespan is over nothing that it  *)
(* made is left open.                                                       *)
TeardownInOrder ==
  /\ (\E w \in Workers : pc[w] = "run") => model
  /\ provider = "closed" => ~model /\ WorkersExited
  /\ life = "over" =>
       /\ provider \in {"none", "closed"} /\ ~model
       /\ phase \in {"new", "down"} /\ WorkersExited
       /\ \A j \in Jobs : ~Pending(j)

(* An answered request, timed out or not, leaves nothing pending behind and *)
(* occupies no slot of the queue: its job is discarded, out of the queue,   *)
(* or about to be found by a worker that is already on its way to the scan. *)
AnsweredHoldsNoSlot ==
  \A j \in Jobs : SessionOf(j) \in Requests /\ req[SessionOf(j)] = "answered" =>
    /\ ~Pending(j)
    /\ j \in heap \ stale => \E w \in Workers : pc[w] \in {"gather", "pick"}

(* A request whose upload was admitted is answered, and every final the     *)
(* scheduler accepted, of an upload or of a connection, is settled, although *)
(* no deadline ever passes, and also when the service stops under it.       *)
(* (Partials are not promised this: newer finals may keep overtaking them.) *)
FinalsAreSettled ==
  /\ \A r \in Requests : (req[r] = "upload") ~> (req[r] = "answered")
  /\ \A j \in 1..MaxJobs :
       (j \in Jobs /\ ~IsPartial(j) /\ Pending(j)) ~> (j \in Jobs /\ ~Pending(j))

(* A lifespan that has begun comes to serve or to an end, and one that was  *)
(* asked to stop ends: no close waits for somebody who waits for it.        *)
LifespanGoesOn ==
  (life \notin {"new", "serving", "over"}) ~> (life \in {"serving", "over"})

-----------------------------------------------------------------------------
(* The inductive invariant of the service, on top of the scheduler's.        *)

Stages   == {"created", "vad_starting", "engine:verifying_artifacts", "ready",
             "stopping", "stopped"}
Statuses == {"pending", "starting", "ready", "stopping", "stopped"}

ServiceTypeOK ==
  /\ life \in {"new", "vad", "engine", "serving", "stopping", "joining",
               "closing_vad", "over"}
  /\ tracker \in [stage : Stages, engine : Statuses, scheduler : Statuses]
  /\ model \in BOOLEAN
  /\ req \in [Requests -> {"new", "body", "upload", "decode", "lock", "awaiting",
                          "leaving", "direct", "answered"}]

\* What is up at each await of the lifespan.
Holding == {"serving", "stopping", "joining"}

LifeMatches ==
  /\ life \in {"new", "vad", "engine"} => phase = "new"
  /\ life \in {"serving", "stopping"} => phase = "up"
  /\ life = "joining" => phase = "joining"
  /\ life \in {"closing_vad", "over"} => phase \in {"new", "down"}
  /\ life \in Holding => engine = "ready"
  /\ life \in Holding \cup {"engine"} => provider = "up"
  /\ life = "new" => provider = "none"
  /\ provider = "closed" => life = "over"
  /\ life = "over" => provider \in {"none", "closed"}

\* The model is loaded from the end of engine.startup to engine.shutdown.
ModelMatches == model = (life \in Holding)

\* Readiness is announced while the lifespan serves, and at no other time.
AnnouncedWhileServing == tracker.engine = "ready" => life = "serving"

(* A request past its readiness check has seen a scheduler, which never       *)
(* becomes new again; it has one job, from its submission on, and follows it. *)
RequestsFollowJobs ==
  /\ \A r \in Requests :
       /\ req[r] # "direct"
       /\ req[r] \in {"upload", "decode", "lock", "awaiting", "leaving"} => phase # "new"
       /\ req[r] \in {"awaiting", "leaving"} => \E j \in Jobs : SessionOf(j) = r
  /\ \A j \in Jobs : SessionOf(j) \in Requests =>
       /\ req[SessionOf(j)] \in {"awaiting", "leaving", "answered"}
       /\ req[SessionOf(j)] = "awaiting" => caller[j] = "awaiting"
       /\ req[SessionOf(j)] = "leaving" => caller[j] = "cancelling"
       /\ \A k \in Jobs : SessionOf(k) = SessionOf(j) => k = j

ServiceInv ==
  /\ ServiceTypeOK
  /\ LifeMatches
  /\ ModelMatches
  /\ AnnouncedWhileServing
  /\ RequestsFollowJobs
  /\ AnsweredHoldsNoSlot
=============================================================================
