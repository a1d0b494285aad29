--------------------------- MODULE NativeSession ---------------------------
(***************************************************************************)
(* One connection of the native realtime protocol                          *)
(* (src/app/api/websocket/connection.py): the receive loop (Serve), its    *)
(* partial task, and the lock both send under.                              *)
(*                                                                         *)
(* A step is the code between two awaits.  The first step of a new partial *)
(* task belongs to the frame that created it: the receive loop waits in     *)
(* wait_for, which lets every ready task run first.  Receiving a frame and *)
(* scoring it are one wait, since nothing of the session changes between   *)
(* them.  The scheduler is the one SchedulerContract describes, seen by     *)
(* one session: it settles calls when it likes, and a final settles the    *)
(* session's pending partial as stale, even when the final is refused.      *)
(***************************************************************************)
EXTENDS SendLock, Endpoint, Cadence

CONSTANTS
  FrameMs,  \* duration of a frame: 20
  MaxEpoch, \* bound on the utterances of a session (the code has none)
  MaxTasks  \* bound on its partials (the code has none)

ASSUME SessionAssumption == FrameMs \in Nat \ {0} /\ {MaxEpoch, MaxTasks} \subseteq Nat

VARIABLES
  pc,       \* what the receive loop waits for
  expired,  \* has max_session_seconds passed?
  slot,     \* is a place of the connection registry held?
  lease,    \* is a VAD stream held?
  vad,      \* did the client ask for voice activity detection?
  epoch,    \* session.epoch: utterances finalised so far
  frames,   \* frames in session.buffer
  cadence,  \* session.cadence
  texts,    \* utterances whose text is in stable_prefix or last_partial
  revision, \* session.revision
  task,     \* session.partial_task, None or a number
  tasks,    \* the partial tasks created so far
  final,    \* the final the receive loop waits for in the scheduler
  wire      \* transcription events sent, in order

utteranceVars == <<epoch, frames, endpointVars>>
partialVars   == <<cadence, texts, revision, task, tasks>>
holdVars      == <<slot, lease>>
sendVars      == <<lockVars, wire>>
vars == <<pc, expired, vad, final, holdVars, utteranceVars, partialVars, sendVars>>

None  == 0
Tasks == 1..Len(tasks)

-----------------------------------------------------------------------------
(* Sending.                                                                 *)

Connected == pc \notin {"closing", "gather"}

Message(kind, utterance, rev) == <<[kind |-> kind, utt |-> utterance, rev |-> rev]>>
NoMessage == <<>>

\* The line shrinks to `rest`, or `who` queues up behind it to send a message.
Rest(rest) == Shrink(rest) /\ UNCHANGED wire
Join(rest, who, message) ==
  /\ Queue(rest, who)
  /\ wire' = IF Free(rest) /\ Connected THEN wire \o message ELSE wire

Enter(who, message) == Join(line, who, message)

-----------------------------------------------------------------------------
(* The partial task.                                                        *)

\* A partial task moves on.
Moved(t, to) == [tasks EXCEPT ![t].at = to]

\* No partial task is unfinished.  (Mutant: nobody asks.)
PartialDoneIgnored == TRUE
PartialDone        == task # None => tasks[task].at = "done"

\* Is the partial's utterance still open?  (Mutant: nobody asks.)
CurrentIgnored(t) == TRUE
Current(t)        == tasks[t].utt = epoch

\* (Mutant: partials of an utterance share one revision.)
SameRevision == revision
NextRevision == revision + 1

Wanted(speaking, audio) == speaking /\ PartialDone /\ Due(cadence, audio)

(* A partial of the buffered audio is submitted, while the lock's line      *)
(* becomes `rest`.  Refused at once, it slows the cadence and queues up to   *)
(* tell the client.                                                         *)
SubmitPartial(audio, rest) ==
  LET t   == Len(tasks) + 1
      new == [utt |-> epoch, audio |-> audio, at |-> "scheduler",
              job |-> "pending", rev |-> 0]
  IN /\ t <= MaxTasks
     /\ task' = t
     /\ \/ /\ tasks' = Append(tasks, new)
           /\ cadence' = Marked(cadence, audio)
           /\ Rest(rest)
        \/ /\ tasks' = Append(tasks, [new EXCEPT !.at = "complaint", !.job = "refused"])
           /\ cadence' = Observed(Marked(cadence, audio), FALSE, audio)
           /\ Join(rest, t, NoMessage)
     /\ UNCHANGED <<texts, revision>>

MaybePartial(speaking, audio, rest) ==
  \/ Wanted(speaking, audio) /\ SubmitPartial(audio, rest)
  \/ ~Wanted(speaking, audio) /\ Rest(rest) /\ UNCHANGED partialVars

\* The scheduler settles a partial's call.
JobSettles(t) ==
  /\ tasks[t].job = "pending" /\ tasks[t].at = "scheduler"
  /\ \E outcome \in {"result", "error"} : tasks' = [tasks EXCEPT ![t].job = outcome]
  /\ UNCHANGED <<pc, expired, vad, final, holdVars, utteranceVars, cadence,
                 texts, revision, task, sendVars>>

(* submit_partial returns: a result of the open utterance is taken over and *)
(* sent, an error slows the cadence and is reported, the rest is dropped.   *)
PartialResumes(t) ==
  /\ tasks[t].at = "scheduler"
  /\ \/ /\ tasks[t].job = "result"
        /\ Current(t)
        /\ \E changed \in BOOLEAN :
             cadence' = Observed(cadence, changed, tasks[t].audio)
        /\ texts' = texts \cup {tasks[t].utt}
        /\ revision' = NextRevision
        /\ tasks' = [tasks EXCEPT ![t].at = "event", ![t].rev = revision']
        /\ Enter(t, Message("partial", tasks[t].utt, revision'))
     \/ /\ tasks[t].job = "error"
        /\ cadence' = Observed(cadence, FALSE, tasks[t].audio)
        /\ tasks' = Moved(t, "complaint")
        /\ Enter(t, NoMessage)
        /\ UNCHANGED <<texts, revision>>
     \/ /\ tasks[t].job \in {"stale", "result"}
        /\ tasks[t].job = "result" => ~Current(t)
        /\ tasks' = Moved(t, "done")
        /\ UNCHANGED <<cadence, texts, revision, sendVars>>
  /\ UNCHANGED <<pc, expired, vad, final, holdVars, utteranceVars, task>>

\* Delivered, or lost because the peer is gone: the task ends.
TaskSent(t) ==
  /\ Sends(t) /\ tasks[t].at \in {"event", "complaint"}
  /\ Rest(LeaveLine)
  /\ tasks' = Moved(t, "done")
  /\ UNCHANGED <<pc, expired, vad, final, holdVars, utteranceVars, cadence,
                 texts, revision, task>>

\* The cancelled task unwinds, out of the scheduler or out of the line.
TaskEnds(t) ==
  /\ tasks[t].at = "cancelled"
  /\ Rest(Without(t))
  /\ tasks' = Moved(t, "done")
  /\ UNCHANGED <<pc, expired, vad, final, holdVars, utteranceVars, cadence,
                 texts, revision, task>>

\* The lock passes to the next in line.  A partial looks at its epoch again.
Obtain ==
  /\ line # <<>> /\ ~sending
  /\ LET who == Head(line)
         old == who # Serve /\ tasks[who].at = "event" /\ ~Current(who)
         message ==
           IF who # Serve
           THEN IF tasks[who].at = "event"
                THEN Message("partial", tasks[who].utt, tasks[who].rev) ELSE NoMessage
           ELSE CASE pc = "started" -> Message("started", epoch, 0)
                  [] pc = "answer"  -> Message("final", epoch - 1, 0)
                  [] OTHER          -> NoMessage
     IN /\ who # Serve => tasks[who].at # "cancelled"
        /\ sending' = ~old
        /\ line' = IF old THEN Tail(line) ELSE line
        /\ tasks' = IF old THEN Moved(who, "done") ELSE tasks
        /\ wire' = IF old \/ ~Connected THEN wire ELSE wire \o message
  /\ UNCHANGED <<pc, expired, vad, final, holdVars, utteranceVars, cadence,
                 texts, revision, task>>

-----------------------------------------------------------------------------
(* The end of a connection.                                                 *)

\* The error that ends the session is sent, then the socket is closed.
Fail ==
  /\ pc' = "failing"
  /\ Enter(Serve, NoMessage)

\* finally: cancel the partial task, close the VAD stream, then gather.
\* (Mutant: the partial task is forgotten.)
CancelledNone  == tasks
CancelledTasks == IF PartialDone THEN tasks ELSE Moved(task, "cancelled")

Teardown ==
  /\ pc' = "gather"
  /\ lease' = FALSE
  /\ tasks' = CancelledTasks
  /\ UNCHANGED <<expired, slot, vad, utteranceVars, cadence, texts, revision, task>>

\* gather returned.  (Mutant: the task is only cancelled.)
NotGathered == TRUE
Gathered    == PartialDone

\* The partial task is over: the place in the registry is free again.
Release ==
  /\ pc = "gather" /\ Gathered
  /\ pc' = "done" /\ slot' = FALSE
  /\ UNCHANGED <<expired, lease, vad, final, utteranceVars, partialVars, sendVars>>

\* The close frame is out.
Closed ==
  /\ pc = "closing"
  /\ Teardown
  /\ UNCHANGED <<final, sendVars>>

\* The peer has gone, while Serve waits for it or sends to it.
Disconnect ==
  \/ pc \in {"connected", "receive"} /\ Teardown /\ UNCHANGED <<final, sendVars>>
  \/ /\ pc \in {"ready", "started", "empty", "failing"} /\ Sends(Serve)
     /\ Rest(LeaveLine) /\ Teardown /\ UNCHANGED final

(* A protocol violation, the idle timeout, a refused or failing VAD stream. *)
Reject ==
  /\ pc \in {"connected", "receive"}
  /\ Fail
  /\ UNCHANGED <<expired, vad, final, holdVars, utteranceVars, partialVars>>

Waits == {"connected", "ready", "receive", "started", "empty", "final",
          "answer", "failing"}

(* asyncio.timeout_at strikes at whatever Serve waits for.                  *)
Deadline ==
  /\ pc \in Waits /\ ~expired
  /\ expired' = TRUE
  /\ pc' = "failing"
  /\ Join(Without(Serve), Serve, NoMessage)
  /\ final' = "none"
  /\ UNCHANGED <<vad, holdVars, utteranceVars, partialVars>>

\* The server cancels the connection.
Cancel ==
  /\ pc \in Waits \cup {"closing"}
  /\ Rest(Without(Serve))
  /\ Teardown
  /\ final' = "none"

-----------------------------------------------------------------------------
(* The receive loop.                                                        *)

Connect ==
  /\ pc = "new"
  /\ \/ pc' = "connected" /\ slot' = TRUE
     \/ pc' = "done" /\ UNCHANGED slot
  /\ UNCHANGED <<expired, lease, vad, final, utteranceVars, partialVars, sendVars>>

\* session.start, with or without a VAD stream.
Start ==
  /\ pc = "connected"
  /\ \E detects \in BOOLEAN : vad' = detects /\ lease' = detects
  /\ pc' = "ready"
  /\ Enter(Serve, NoMessage)
  /\ UNCHANGED <<expired, slot, final, utteranceVars, partialVars>>

(* _finalize: the epoch moves on, the buffer becomes the request and is     *)
(* emptied, and the final is accepted or refused (the session's pending     *)
(* partial is stale in both cases), or the scheduler or the VAD stream is   *)
(* unusable.                                                                *)
Superseded == [t \in Tasks |-> IF tasks[t].job = "pending"
                               THEN [tasks[t] EXCEPT !.job = "stale"] ELSE tasks[t]]

Finalize ==
  /\ epoch < MaxEpoch
  /\ epoch' = epoch + 1
  /\ frames' = 0
  /\ EndpointReset
  /\ \/ pc' = "final" /\ final' = "pending" /\ tasks' = Superseded /\ UNCHANGED sendVars
     \/ Fail /\ tasks' = Superseded /\ UNCHANGED final
     \/ Fail /\ UNCHANGED <<tasks, final>>
  /\ UNCHANGED <<expired, vad, holdVars, cadence, texts, revision, task>>

\* Does the buffer keep a frame?  (Mutant: silence is never kept.)
KeepsSpeech(isSpeech) == isSpeech
Keeps(isSpeech)       == active \/ isSpeech

\* A frame of a session with voice activity detection, once it is scored.
VoiceFrame(isSpeech) ==
  /\ pc = "receive" /\ vad
  /\ LET kept == IF Keeps(isSpeech) THEN frames + 1 ELSE 0 IN
     \/ /\ Process(isSpeech, "none")
        /\ frames' = kept
        /\ MaybePartial(active', kept * FrameMs, line)
        /\ UNCHANGED <<pc, expired, vad, final, holdVars, epoch>>
     \/ /\ Process(isSpeech, "started")
        /\ frames' = kept
        /\ pc' = "started"
        /\ Enter(Serve, Message("started", epoch, 0))
        /\ UNCHANGED <<expired, vad, final, holdVars, epoch, partialVars>>
     \/ /\ Process(isSpeech, "ended") \/ Process(isSpeech, "limit")
        /\ Finalize

\* A frame of a session without: the buffer limit ends the utterance.
PlainFrame ==
  /\ pc = "receive" /\ ~vad
  /\ \/ frames + 1 >= MaxFrames /\ Finalize
     \/ /\ frames + 1 < MaxFrames
        /\ frames' = frames + 1
        /\ MaybePartial(TRUE, frames' * FrameMs, line)
        /\ UNCHANGED <<pc, expired, vad, final, holdVars, epoch, endpointVars>>

\* input.commit; without audio it is answered with an error.
Commit ==
  /\ pc = "receive"
  /\ \/ frames > 0 /\ Finalize
     \/ /\ frames = 0
        /\ pc' = "empty"
        /\ Enter(Serve, NoMessage)
        /\ UNCHANGED <<expired, vad, final, holdVars, utteranceVars, partialVars>>

\* The scheduler settles the final.
FinalSettles ==
  /\ pc = "final" /\ final = "pending"
  /\ final' \in {"result", "error"}
  /\ UNCHANGED <<pc, expired, vad, holdVars, utteranceVars, partialVars, sendVars>>

(* The event loop runs tasks in the order in which they became ready, and   *)
(* the partial task became ready at the latest when the final was submitted. *)
Ready(t) == tasks[t].at = "scheduler" /\ tasks[t].job # "pending"

FinalReturns ==
  /\ pc = "final" /\ final # "pending"
  /\ \A t \in Tasks : ~Ready(t)
  /\ \/ /\ final = "result" /\ pc' = "answer"
        /\ Enter(Serve, Message("final", epoch - 1, 0))
     \/ final = "error" /\ Fail
  /\ final' = "none"
  /\ UNCHANGED <<expired, vad, holdVars, utteranceVars, partialVars>>

\* What is left of the utterance's texts after its final.
\* (Mutant: all of it; stable_prefix and last_partial are not reset.)
KeptTexts   == texts
ForgotTexts == {}

(* A send of Serve ends.  After speech.started the frame may still ask for  *)
(* a partial; after a final (even one the peer no longer reads) everything  *)
(* about the utterance's partials is reset.                                 *)
ServeSent ==
  /\ Sends(Serve)
  /\ \/ /\ pc \in {"ready", "empty"} /\ pc' = "receive"
        /\ Rest(LeaveLine) /\ UNCHANGED partialVars
     \/ /\ pc = "started" /\ pc' = "receive"
        /\ MaybePartial(active, frames * FrameMs, LeaveLine)
     \/ /\ pc = "answer" /\ pc' = "receive"
        /\ cadence' = FreshCadence
        /\ texts' = ForgotTexts
        /\ task' = None
        /\ Rest(LeaveLine) /\ UNCHANGED <<revision, tasks>>
     \/ /\ pc = "failing" /\ pc' = "closing"
        /\ Rest(LeaveLine) /\ UNCHANGED partialVars
  /\ UNCHANGED <<expired, vad, final, holdVars, utteranceVars>>

-----------------------------------------------------------------------------
SessionInit ==
  /\ pc = "new" /\ expired = FALSE
  /\ slot = FALSE /\ lease = FALSE /\ vad = FALSE
  /\ epoch = 0 /\ frames = 0 /\ EndpointInit
  /\ cadence = FreshCadence
  /\ texts = {} /\ revision = 0
  /\ task = None /\ tasks = <<>>
  /\ final = "none"
  /\ LockInit /\ wire = <<>>

\* What the client and the environment do when they like.
Outside ==
  \/ Connect \/ Start \/ Reject \/ Disconnect \/ Commit \/ PlainFrame
  \/ \E isSpeech \in BOOLEAN : VoiceFrame(isSpeech)
  \/ Deadline \/ Cancel

PartialTask(t) == PartialResumes(t) \/ TaskSent(t) \/ TaskEnds(t)

Next ==
  \/ Outside
  \/ FinalReturns \/ ServeSent \/ Closed \/ Release
  \/ Obtain
  \/ FinalSettles
  \/ \E t \in Tasks : JobSettles(t) \/ PartialTask(t)

Spec == SessionInit /\ [][Next]_vars

(* The scheduler settles every final (FinalsAreSettled of Service); ready   *)
(* tasks run; a send or a close ends, if only because the server's keepalive *)
(* finds the peer gone.  A partial's call may wait forever.                  *)
FairSpec ==
  /\ Spec
  /\ WF_vars(FinalReturns) /\ WF_vars(ServeSent)
  /\ WF_vars(Closed) /\ WF_vars(Release)
  /\ WF_vars(Obtain) /\ WF_vars(FinalSettles)
  /\ \A t \in 1..MaxTasks : WF_vars(t \in Tasks /\ PartialTask(t))

-----------------------------------------------------------------------------
(* Properties.                                                              *)

(* What a client reads of each utterance: speech.started at most once, then *)
(* partials of increasing revision, then at most one final; then the next   *)
(* utterance.  Two tasks send, in an order that depends on the lock, the     *)
(* scheduler and the peer.                                                  *)
UtterancesInOrder ==
  \A i, j \in 1..Len(wire) : i < j =>
    /\ wire[i].utt <= wire[j].utt
    /\ wire[i].kind = "final" => wire[i].utt < wire[j].utt
    /\ wire[j].kind = "started" => wire[i].utt < wire[j].utt
    /\ wire[i].kind = "partial" /\ wire[j].kind = "partial" =>
         wire[i].rev < wire[j].rev

(* A partial is put on the wire only while its utterance is open: not once  *)
(* the endpoint has been found, although the engine computed it before.     *)
PartialsOfOpenUtterance ==
  [][Len(wire') > Len(wire) /\ wire'[Len(wire')].kind = "partial" =>
       wire'[Len(wire')].utt = epoch]_vars

(* Nothing of an utterance reaches into the next.  _finalize forgets the    *)
(* partial task (partial_task = None) without cancelling or awaiting it: it *)
(* is over by then, so a session never has two, and teardown, which only    *)
(* knows partial_task, leaves none behind.  While the session listens, its  *)
(* texts, and the cadence before the first partial, belong to the open      *)
(* utterance: no late partial has touched them since the last final.        *)
UtterancesAreSeparate ==
  /\ \A t \in Tasks : tasks[t].at # "done" => t = task
  /\ pc \in {"receive", "started", "empty"} =>
       /\ texts \subseteq {epoch}
       /\ task = None => texts = {} /\ cadence = FreshCadence

(* The buffer holds what the endpoint detector has counted, from the first  *)
(* frame of speech on: nothing of an utterance is cut off or left over, and *)
(* the buffer's own limit (UTTERANCE_TOO_LONG) is never reached.            *)
BufferMatchesEndpoint ==
  /\ vad => frames = IF active THEN uttered ELSE speechRun
  /\ frames < MaxFrames

(* A connection that is over has given back its place in the registry and   *)
(* its VAD stream, nobody is left in the line for the lock, and no partial  *)
(* task outlives it; before that, it holds its place.                       *)
NothingOutlivesSession ==
  /\ pc \notin {"new", "done"} => slot
  /\ pc = "done" => /\ ~slot /\ ~lease /\ line = <<>>
                    /\ \A t \in Tasks : tasks[t].at = "done"

(* An utterance that was accepted as a final is answered or the session     *)
(* ends; and after its time limit the session ends, whatever its partial    *)
(* task and its final are doing.                                            *)
SessionGoesOn ==
  /\ (pc = "final") ~> (pc \in {"receive", "done"})
  /\ expired ~> (pc = "done")
-----------------------------------------------------------------------------
(* What every reachable state has in common, and why the properties hold.   *)

Phases == Waits \cup {"new", "closing", "gather", "done"}

\* The phases in which Serve is in the line for the lock.
Speaking == {"ready", "started", "empty", "answer", "failing"}

TaskRecords == [utt : Nat, audio : Nat, rev : Nat,
                at  : {"scheduler", "event", "complaint", "cancelled", "done"},
                job : {"pending", "result", "error", "stale", "refused"}]
Messages == [kind : {"started", "partial", "final"}, utt : Int, rev : Nat]

SessionTypeOK ==
  /\ pc \in Phases
  /\ slot \in BOOLEAN /\ lease \in BOOLEAN /\ vad \in BOOLEAN
  /\ epoch \in Nat /\ frames \in Nat /\ revision \in Nat
  /\ active \in BOOLEAN /\ sending \in BOOLEAN
  /\ speechRun \in Nat /\ silentRun \in Nat /\ uttered \in Nat
  /\ tasks \in Seq(TaskRecords) /\ task \in 0..Len(tasks)
  /\ wire \in Seq(Messages) /\ line \in Seq(Nat)

\* The buffer is empty until the session starts, and never full before a frame.
BufferInv ==
  /\ BufferMatchesEndpoint
  /\ speechRun < StartFrames
  /\ active => vad /\ uttered < MaxFrames
  /\ pc \in {"new", "connected"} => frames = 0 /\ speechRun = 0 /\ ~vad
  /\ pc = "started" => active

\* Place and stream are held from the start to the teardown of the session.
HoldInv ==
  /\ slot <=> pc \notin {"new", "done"}
  /\ lease => pc \notin {"new", "connected", "gather", "done"}

\* In the line are Serve, when it has something to send, and the tasks that have.
LineInv ==
  /\ IsInjective(line)
  /\ sending => line # <<>>
  /\ Serve \in ToSet(line) <=> pc \in Speaking
  /\ ToSet(line) \subseteq {Serve} \cup Tasks
  /\ \A t \in Tasks :
       IF t \in ToSet(line)
       THEN tasks[t].at \in {"event", "complaint", "cancelled"}
       ELSE tasks[t].at \notin {"event", "complaint"}

AllDone == \A t \in Tasks : tasks[t].at = "done"

\* Nothing of the open utterance has been announced yet.
Silent == vad /\ ~active /\ pc \in {"ready", "receive", "empty"}

(* The partial task, the only one that may be unfinished, has left the      *)
(* scheduler when the final returns, and stands before it in the line.      *)
TasksInv ==
  /\ \A t \in Tasks : /\ tasks[t].at # "done" => t = task
                      /\ tasks[t].utt <= epoch
                      /\ tasks[t].at = "cancelled" => pc = "gather"
  /\ pc \in {"new", "connected"} => tasks = <<>>
  /\ Silent \/ pc \in {"started", "done"} => AllDone
  /\ pc = "final" => \A t \in Tasks : tasks[t].at = "scheduler" => tasks[t].job # "pending"
  /\ pc = "answer" => /\ \A t \in Tasks : tasks[t].at # "scheduler"
                      /\ line[Len(line)] = Serve
  /\ pc \in {"final", "answer"} =>
       \A t \in Tasks : tasks[t].at # "done" => tasks[t].utt < epoch

\* Until the session listens no more, its texts are of the open utterance.
TextsInv ==
  pc \in {"new", "connected", "ready", "receive", "started", "empty"} =>
    /\ texts \subseteq {epoch}
    /\ task = None => texts = {} /\ cadence = FreshCadence

\* What may still be said of the open utterance has not been overtaken.
WireInv ==
  /\ UtterancesInOrder
  /\ pc \in {"new", "connected"} => wire = <<>>
  /\ \A i \in 1..Len(wire) :
       /\ wire[i].utt <= epoch
       /\ wire[i].kind = "final" => wire[i].utt < epoch
       /\ wire[i].kind = "partial" => wire[i].rev <= revision
       /\ Silent \/ pc \in {"final", "answer"} => wire[i].utt < epoch
       /\ pc = "started" /\ ~Sends(Serve) => wire[i].utt < epoch
       /\ pc = "final" \/ (pc = "answer" /\ ~Sends(Serve)) =>
            (wire[i].kind = "final" => wire[i].utt < epoch - 1)
  /\ \A t \in Tasks : tasks[t].at = "event" /\ ~Sends(t) =>
       /\ tasks[t].rev = revision
       /\ \A i \in 1..Len(wire) : wire[i].kind = "partial" => wire[i].rev < revision

SessionInv ==
  /\ SessionTypeOK /\ BufferInv /\ HoldInv
  /\ LineInv /\ TasksInv /\ TextsInv /\ WireInv
=============================================================================
