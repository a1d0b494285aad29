--------------------------- MODULE OpenAISession ---------------------------
(***************************************************************************)
(* One connection of the OpenAI realtime protocol                          *)
(* (src/app/api/openai_realtime/connection.py): the receive loop (Serve),   *)
(* the tasks that transcribe its committed turns (_infer), and the lock     *)
(* they send under.                                                        *)
(*                                                                         *)
(* A step is the code between two awaits.  The conversion of a turn's audio *)
(* on a thread and its call of the scheduler are one wait with one outcome. *)
(***************************************************************************)
EXTENDS SendLock, FiniteSetsExt, TurnBuffer

CONSTANTS
  MaxPending, \* max_pending_turns
  Sizes,      \* bytes an input_audio_buffer.append may carry
  MaxTurns,   \* bound on the turns of a session (the code has none)
  MaxStops    \* bound on the speech_stopped of an item (the code has none)

ASSUME SessionAssumption ==
  /\ MaxPending \in Nat \ {0} /\ {MaxTurns, MaxStops} \subseteq Nat
  /\ Sizes \subseteq Nat \ {0}

VARIABLES
  pc,       \* what the receive loop waits for
  expired,  \* has max_session_seconds passed?
  slot,     \* is a place of the connection registry held?
  lease,    \* is the lease of a VAD stream held?
  stream,   \* does _run_session's vad_stream name an open stream?
  language, \* has the session a language (state.configured)?
  detects,  \* turn_detection: server_vad, or null?
  buf,      \* the session's audio
  heard,    \* where the audio the VAD stream has scored since its last reset ends
  cut,      \* where a commit or a clear last took the audio before
  auto,     \* is the commit in progress one of turn detection?
  reply,    \* the event Serve is sending, if any
  told,     \* what the client was told of each item, in order of their ids
  turns,    \* committed turns, in order
  held      \* the turns whose tasks are in `tasks`

audioVars  == <<buf, heard, cut, auto>>
configVars == <<language, detects>>
holdVars   == <<slot, lease, stream>>
turnVars   == <<turns, held>>
sendVars   == <<lockVars, told>>
vars == <<pc, expired, configVars, audioVars, holdVars, turnVars, reply, sendVars>>

Turns   == 1..Len(turns)
Nothing == -1

-----------------------------------------------------------------------------
(* Sending.                                                                 *)

Connected == pc \notin {"closing", "gather"}

\* Of events that are not about an item only the sending counts.
Event(kind, item, at) == [kind |-> kind, item |-> item, at |-> at]
OtherEvent == Event("other", None, 0)

\* The id of the next item, and what was told once an item is known.
NewItem == Len(told) + 1
Known(item) == IF item > Len(told) THEN Append(told, <<>>) ELSE told
Told(event) ==
  IF event.item = None \/ ~Connected THEN told
  ELSE [Known(event.item) EXCEPT ![event.item] =
          Append(@, [kind |-> event.kind, at |-> event.at])]

\* The line shrinks to `rest`, or `who` queues up behind it to send an event,
\* which counts as told once `who` has the lock.
Rest(rest) == Shrink(rest) /\ UNCHANGED told
Join(rest, who, event) ==
  /\ Queue(rest, who)
  /\ told' = IF Free(rest) THEN Told(event) ELSE Known(event.item)

Enter(who, event) == Join(line, who, event)

\* Serve's sends.
SayBehind(rest, event) == reply' = event /\ Join(rest, Serve, event)
Say(event) == SayBehind(line, event)

TurnEvent(t, kind) == Event(kind, turns[t].item, 0)

\* The lock passes to the next in line, unless that one has been cancelled.
Obtain ==
  /\ line # <<>> /\ ~sending
  /\ LET who == Head(line)
         event == IF who = Serve THEN reply ELSE TurnEvent(who, turns[who].at)
     IN /\ who # Serve => turns[who].at # "cancelled"
        /\ told' = Told(event)
  /\ sending' = TRUE
  /\ UNCHANGED <<line, pc, expired, configVars, audioVars, holdVars, turnVars, reply>>

-----------------------------------------------------------------------------
(* The task of a turn (_infer).                                             *)

At(t, place) == [turns EXCEPT ![t].at = place]

(* The scheduler answers, with a text or an error (the queue full, engine   *)
(* failed, scheduler closed); an error is only reported to a peer that is    *)
(* still connected.                                                         *)
TurnReturns(t) ==
  /\ turns[t].at = "work"
  /\ \/ turns' = At(t, "delta") /\ Enter(t, TurnEvent(t, "delta"))
     \/ Connected /\ turns' = At(t, "failed") /\ Enter(t, TurnEvent(t, "failed"))
     \/ ~Connected /\ turns' = At(t, "done") /\ UNCHANGED sendVars
  /\ UNCHANGED <<pc, expired, configVars, audioVars, holdVars, held, reply>>

(* An event is delivered, or lost with the peer.  The delta is followed by  *)
(* the completed event, for which the task queues up again.                 *)
TurnSent(t) ==
  /\ Sends(t)
  /\ \/ /\ turns[t].at = "delta"
        /\ turns' = At(t, "completed")
        /\ Join(LeaveLine, t, TurnEvent(t, "completed"))
     \/ /\ turns[t].at \in {"completed", "failed"}
        /\ turns' = At(t, "done")
        /\ Rest(LeaveLine)
  /\ UNCHANGED <<pc, expired, configVars, audioVars, holdVars, held, reply>>

\* The cancelled task unwinds, out of the scheduler or out of the line.
TurnUnwinds(t) ==
  /\ turns[t].at = "cancelled"
  /\ turns' = At(t, "done")
  /\ Rest(Without(t))
  /\ UNCHANGED <<pc, expired, configVars, audioVars, holdVars, held, reply>>

-----------------------------------------------------------------------------
(* The end of a connection.                                                 *)

\* The error that ends the session is sent, then the socket is closed.
Fail == pc' = "failing" /\ Say(OtherEvent)

\* finally: cancel every task in `tasks`, then gather them.
\* (Mutant: the tasks are left to themselves.)
CancelsNone == {}
Cancels     == held

Teardown ==
  /\ pc' = "gather"
  /\ turns' = [t \in Turns |-> IF t \in Cancels /\ turns[t].at # "done"
                               THEN [turns[t] EXCEPT !.at = "cancelled"] ELSE turns[t]]
  /\ reply' = OtherEvent
  /\ UNCHANGED <<expired, configVars, audioVars, holdVars, held>>

(* gather returned: the VAD stream vad_stream names is closed, and the      *)
(* place in the registry is free again.                                     *)
Release ==
  /\ pc = "gather" /\ \A t \in Cancels : turns[t].at = "done"
  /\ pc' = "done"
  /\ slot' = FALSE /\ stream' = FALSE
  /\ lease' = (lease /\ ~stream)
  /\ UNCHANGED <<expired, configVars, audioVars, turnVars, reply, sendVars>>

\* The close frame is out.
Closed == pc = "closing" /\ Teardown /\ UNCHANGED sendVars

\* What Serve awaits while it sends, and all it awaits.
SendsAt == {"created", "reply", "updated", "started", "stopped", "committed", "failing"}
Waits   == SendsAt \cup {"receive", "score", "slot"}

\* The peer has gone, while Serve waits for it or sends to it.
Disconnect ==
  \/ pc = "receive" /\ Teardown /\ UNCHANGED sendVars
  \/ pc \in SendsAt /\ Sends(Serve) /\ Teardown /\ Rest(LeaveLine)

\* The idle timeout, or a stream that fails to score: an error, then the end.
Reject ==
  /\ pc \in {"receive", "score"}
  /\ Fail
  /\ UNCHANGED <<expired, configVars, audioVars, holdVars, turnVars>>

(* asyncio.timeout_at strikes at whatever Serve waits for.                  *)
Deadline ==
  /\ pc \in Waits /\ ~expired
  /\ expired' = TRUE
  /\ pc' = "failing"
  /\ SayBehind(Without(Serve), OtherEvent)
  /\ UNCHANGED <<configVars, audioVars, holdVars, turnVars>>

\* The server cancels the connection.
Cancel == pc \in Waits \cup {"closing"} /\ Teardown /\ Rest(Without(Serve))

-----------------------------------------------------------------------------
(* Configuration.                                                           *)

Connect ==
  /\ pc = "new"
  /\ \/ pc' = "created" /\ slot' = TRUE /\ Say(OtherEvent)
     \/ pc' = "done" /\ UNCHANGED <<slot, reply, sendVars>>
  /\ UNCHANGED <<expired, configVars, audioVars, lease, stream, turnVars>>

\* An event that changes nothing and is answered with an error.
Complain ==
  /\ pc = "receive"
  /\ pc' = "reply" /\ Say(OtherEvent)
  /\ UNCHANGED <<expired, configVars, audioVars, holdVars, turnVars>>

\* The VAD stream starts afresh, if there is one.  (Mutant: it carries on.)
\* A reset that raises leaves it as it was and ends the session.
NotReset  == heard
AfterReset == Nothing

(* session.update, between turns only: the stream is closed, created or     *)
(* reset as the new configuration asks; creating and resetting may fail.    *)
(* _run_session learns of a new stream when session.updated has been sent.  *)
Update ==
  /\ pc = "receive" /\ buf.len = 0
  /\ language' = TRUE
  /\ buf' = VadReset(buf)
  /\ detects' \in BOOLEAN
  /\ \/ /\ pc' = "updated" /\ heard' = AfterReset
        /\ lease' = detects'
        /\ stream' = (stream /\ detects')
     \/ /\ pc' = "failing" /\ detects'
        /\ UNCHANGED <<heard, lease, stream>>
  /\ Say(OtherEvent)
  /\ UNCHANGED <<expired, cut, auto, slot, turnVars>>

-----------------------------------------------------------------------------
(* Audio.                                                                   *)

\* _vad's loop: the next complete frame of b is scored, or there is none.
Detect(b) ==
  \/ /\ detects /\ FrameReady(b)
     /\ buf' = Scanned(b) /\ pc' = "score"
  \/ /\ detects => ~FrameReady(b)
     /\ buf' = b /\ pc' = "receive"

Receive(size) ==
  /\ pc = "receive" /\ language /\ HasRoom(buf, size)
  /\ Detect(Appended(buf, size))
  /\ UNCHANGED <<expired, configVars, heard, cut, auto, holdVars, turnVars,
                 reply, sendVars>>

\* input_audio_buffer.clear.
Clear ==
  /\ pc = "receive"
  /\ buf' = Cleared(buf) /\ cut' = buf.total
  /\ \/ /\ heard' = AfterReset
        /\ pc' = "reply"
        /\ Say(IF buf.pending = None THEN OtherEvent ELSE Event("cleared", buf.pending, 0))
     \/ stream /\ Fail /\ UNCHANGED heard
  /\ UNCHANGED <<expired, configVars, auto, holdVars, turnVars>>

(* _commit, once there is a place among the pending turns: the audio leaves *)
(* the buffer as a turn, the stream starts afresh, and the turn is           *)
(* acknowledged.  Without whole samples to commit the client gets an error. *)
(* A stream that cannot be reset ends the session, and the turn is dropped.  *)
Snapshot(rest) ==
  LET size == IF auto' THEN buf.scan ELSE buf.len
      item == IF buf.pending # None THEN buf.pending ELSE NewItem
  IN \/ /\ Whole(buf, size) /\ Len(turns) < MaxTurns
        /\ turns' = Append(turns, [item |-> item, after |-> cut, from |-> buf.start,
                                   to |-> buf.start + size, at |-> "snapshot"])
        /\ buf' = Remainder(buf, size) /\ cut' = buf.start + size
        /\ heard' = AfterReset
        /\ pc' = "committed"
        /\ SayBehind(rest, Event("committed", item, 0))
     \/ /\ Whole(buf, size) /\ stream
        /\ buf' = Remainder(buf, size) /\ cut' = buf.start + size
        /\ pc' = "failing"
        /\ SayBehind(rest, OtherEvent)
        /\ UNCHANGED <<turns, heard>>
     \/ /\ ~Whole(buf, size)
        /\ pc' = "reply"
        /\ SayBehind(rest, OtherEvent)
        /\ UNCHANGED <<turns, buf, heard, cut>>

\* May a task be added to `tasks`?  (Mutant: one more than the limit.)
HasPlaceLoosely == Cardinality(held) <= MaxPending
HasPlace        == Cardinality(held) < MaxPending

Commit(rest) ==
  /\ \/ HasPlace /\ Snapshot(rest)
     \/ /\ ~HasPlace
        /\ pc' = "slot" /\ Rest(rest) /\ reply' = OtherEvent
        /\ UNCHANGED <<turns, buf, heard, cut>>
  /\ UNCHANGED <<expired, configVars, holdVars, held>>

\* A task that is over makes room.
SlotFrees ==
  /\ pc = "slot"
  /\ LET over == {t \in held : turns[t].at = "done"} IN
     over # {} /\ held' = held \ over
  /\ UNCHANGED <<expired, configVars, auto, holdVars>>
  /\ Snapshot(line)

\* Speech ends: the client is told, then the turn is committed.
Stop(b, end, byDetection) ==
  /\ buf' = b /\ auto' = byDetection
  /\ pc' = "stopped"
  /\ Say(Event("stopped", b.pending, end))
  /\ UNCHANGED <<expired, configVars, cut, holdVars, turnVars>>

StoppedSent ==
  /\ pc = "stopped" /\ Sends(Serve)
  /\ UNCHANGED auto
  /\ Commit(LeaveLine)

Stops(item) == Len(SelectSeq(told[item], LAMBDA e : e.kind = "stopped"))

\* input_audio_buffer.commit; while speech is active it ends the speech first.
ManualCommit ==
  /\ pc = "receive"
  /\ \/ /\ buf.active /\ Stops(buf.pending) < MaxStops
        /\ Stop(buf, buf.total, FALSE) /\ UNCHANGED heard
     \/ ~buf.active /\ auto' = FALSE /\ Commit(line)

(* The stream has scored a frame, after which speech starts, goes on or     *)
(* ends.                                                                    *)
Judged(isSpeech) ==
  IF buf.active THEN [buf EXCEPT !.silence = IF isSpeech THEN 0 ELSE @ + 1]
                ELSE [buf EXCEPT !.speech  = IF isSpeech THEN @ + 1 ELSE 0]

SpeechStarts(b) ==
  /\ buf' = [b EXCEPT !.active = TRUE, !.pending = NewItem]
  /\ pc' = "started"
  /\ Say(Event("started", NewItem, AnnouncedStart(b)))
  /\ UNCHANGED <<expired, configVars, cut, auto, holdVars, turnVars>>

GoesOn(b) ==
  /\ Detect(b)
  /\ UNCHANGED <<expired, configVars, cut, auto, holdVars, turnVars, reply, sendVars>>

FrameScored(isSpeech) ==
  /\ pc = "score"
  /\ heard' = FrameEnd(buf)
  /\ LET b == Judged(isSpeech) IN
     \/ ~b.active /\ b.speech < StartFrames  /\ GoesOn(Trimmed(b))
     \/ ~b.active /\ b.speech >= StartFrames /\ SpeechStarts(b)
     \/ b.active  /\ b.silence < StopFrames  /\ GoesOn(b)
     \/ b.active  /\ b.silence >= StopFrames /\ Stop(b, FrameEnd(b), TRUE)

(* A send of Serve ends.                                                    *)
ServeSent ==
  /\ Sends(Serve) /\ Rest(LeaveLine)
  /\ \/ /\ pc \in {"created", "reply"} /\ pc' = "receive"
        /\ UNCHANGED <<buf, stream, turnVars>>
     \/ /\ pc = "updated" /\ pc' = "receive"
        /\ stream' = detects
        /\ UNCHANGED <<buf, turnVars>>
     \/ /\ pc = "started" /\ Detect(buf)
        /\ UNCHANGED <<stream, turnVars>>
     \/ /\ pc = "committed"
        /\ turns' = At(Len(turns), "work") /\ held' = held \cup {Len(turns)}
        /\ \/ auto /\ Detect(buf)
           \/ ~auto /\ pc' = "receive" /\ UNCHANGED buf
        /\ UNCHANGED stream
     \/ /\ pc = "failing" /\ pc' = "closing"
        /\ UNCHANGED <<buf, stream, turnVars>>
  /\ auto' = FALSE /\ reply' = OtherEvent
  /\ UNCHANGED <<expired, configVars, heard, cut, slot, lease>>

-----------------------------------------------------------------------------
SessionInit ==
  /\ pc = "new" /\ expired = FALSE
  /\ slot = FALSE /\ lease = FALSE /\ stream = FALSE
  /\ language = FALSE /\ detects = TRUE
  /\ buf = EmptyBuffer /\ heard = Nothing /\ cut = 0 /\ auto = FALSE
  /\ reply = OtherEvent /\ told = <<>>
  /\ turns = <<>> /\ held = {}
  /\ LockInit

\* What the client and the environment do when they like.
Outside ==
  \/ Connect \/ Complain \/ Update \/ Clear \/ ManualCommit
  \/ \E size \in Sizes : Receive(size)
  \/ Reject \/ Disconnect \/ Deadline \/ Cancel

Scored  == \E isSpeech \in BOOLEAN : FrameScored(isSpeech)
Turn(t) == TurnReturns(t) \/ TurnSent(t) \/ TurnUnwinds(t)

Next ==
  \/ Outside
  \/ Scored \/ StoppedSent \/ ServeSent \/ SlotFrees \/ Closed \/ Release
  \/ Obtain
  \/ \E t \in Turns : Turn(t)

Spec == SessionInit /\ [][Next]_vars

(* The VAD runtime decides every frame, the scheduler settles every final    *)
(* (RuntimeGoesOn, FinalsAreSettled); ready tasks run; a send ends, if only  *)
(* because the server's keepalive finds the peer gone.                      *)
FairSpec ==
  /\ Spec
  /\ WF_vars(Scored \/ (pc = "score" /\ Reject))
  /\ WF_vars(StoppedSent) /\ WF_vars(ServeSent) /\ WF_vars(SlotFrees)
  /\ WF_vars(Closed) /\ WF_vars(Release) /\ WF_vars(Obtain)
  /\ \A t \in 1..MaxTurns : WF_vars(t \in Turns /\ Turn(t))

-----------------------------------------------------------------------------
(* Properties.                                                              *)

Listening == {"receive", "score", "slot", "reply", "started", "stopped", "committed"}

(* The buffer, the detector and the stream agree: what was received is what *)
(* left the buffer and what is in it; detection never reads past the audio; *)
(* the stream has heard the audio up to exactly where detection has read,   *)
(* without a gap, and starts afresh exactly when detection does; an item is *)
(* announced exactly while speech is active.  Trimming, commits of part of  *)
(* the buffer, clear and update each move several of these.                 *)
BufferIsConsistent ==
  /\ buf.start + buf.len = buf.total /\ buf.scan <= buf.len
  /\ buf.active <=> buf.pending # None
  /\ pc \in Listening \ {"score"} =>
       IF heard = Nothing THEN buf.scan = 0 /\ buf.speech = 0 /\ ~buf.active
                          ELSE heard = FrameEnd(buf)
  /\ pc = "score" => heard \in {Nothing, FrameEnd(buf) - FrameBytes}

Ranks == [started |-> 1, stopped |-> 2, committed |-> 3, cleared |-> 3,
          delta |-> 4, completed |-> 5, failed |-> 5]

(* The events of an item come in the order of the protocol ("delta precedes *)
(* completed", ARCHITECTURE.md), each at most once except speech_stopped,    *)
(* which a commit refused for an odd byte repeats; an item that was cleared  *)
(* is never transcribed, and one that failed has no text.                    *)
ItemEventsInOrder ==
  \A item \in 1..Len(told) : \A i, j \in 1..Len(told[item]) :
    LET first == told[item][i].kind  then == told[item][j].kind IN
    i < j =>
      \/ first = "stopped" /\ then = "stopped"
      \/ /\ Ranks[first] < Ranks[then]
         /\ first # "cleared"
         /\ first = "delta" => then # "failed"

(* A turn that was announced is the speech and its prefix: it begins where  *)
(* speech_started says, unless a commit or a clear took that audio before,   *)
(* holds the frames that started it, and ends where speech_stopped says or   *)
(* later; and no audio is in two turns.  ("Keep only bounded prefix plus     *)
(* speech-start debounce audio before a turn", trim_pre_speech.)             *)
TurnsHoldTheirSpeech ==
  /\ \A t \in Turns : \A e \in Range(told[turns[t].item]) :
       /\ e.kind = "started" =>
            /\ turns[t].from = Max({e.at, turns[t].after})
            /\ turns[t].from + StartFrames * FrameBytes <= turns[t].to
       /\ e.kind = "stopped" => e.at <= turns[t].to
  /\ \A t, u \in Turns : t < u => turns[t].to <= turns[u].from

(* "Backpressure the receive loop before conversion/inference task          *)
(* creation": at most MaxPending turns are being transcribed, whatever      *)
(* finishes while the next one waits for the lock.                          *)
TurnsAreBounded ==
  Cardinality({t \in Turns : turns[t].at \notin {"snapshot", "done"}}) <= MaxPending

(* A connection that is over has given back its place in the registry, and  *)
(* no task of it is left; while it listens, turn detection is on exactly    *)
(* when it has a stream, and the lease is that stream's.                     *)
NothingOutlivesSession ==
  /\ pc \notin {"new", "done"} => slot
  /\ pc = "done" => /\ ~slot /\ ~stream /\ line = <<>>
                    /\ \A t \in Turns : turns[t].at \in {"snapshot", "done"}
  /\ pc \in Listening => (lease <=> stream) /\ (language => (stream <=> detects))

(* "Connections own isolated streams and release each lease"                *)
(* (test_openai_realtime_vad.py): a connection that is over holds none.      *)
LeaseIsReleased == pc = "done" => ~lease

Answered(t) ==
  /\ t \in Turns
  /\ \E e \in Range(told[turns[t].item]) : e.kind \in {"completed", "failed"}

(* A turn whose task was started is answered, or the session ends; a commit *)
(* that waits for a place gets one, or the session ends; and after its time *)
(* limit the session ends.                                                  *)
NobodyWaitsForever ==
  /\ \A t \in 1..MaxTurns : (t \in held) ~> (pc = "done" \/ Answered(t))
  /\ (pc = "slot") ~> (pc # "slot")
  /\ expired ~> (pc = "done")

-----------------------------------------------------------------------------
(* What every reachable state has in common, and why the properties hold.   *)

Phases == Waits \cup {"new", "closing", "gather", "done"}
Places == {"snapshot", "work", "delta", "completed", "failed", "cancelled", "done"}

Buffers     == [start : Nat, len : Nat, total : Nat, scan : Nat, speech : Nat,
                silence : Nat, active : BOOLEAN, pending : Nat]
TurnRecords == [item : Nat, after : Nat, from : Nat, to : Nat, at : Places]
ItemEvents  == [kind : DOMAIN Ranks, at : Nat]

\* Serve has something to send in a phase of SendsAt, a turn in one of these.
Speaks == {"delta", "completed", "failed"}

LineInv ==
  /\ line \in Seq(Nat) /\ sending \in BOOLEAN
  /\ IsInjective(line)
  /\ sending => line # <<>>
  /\ Serve \in ToSet(line) <=> pc \in SendsAt
  /\ ToSet(line) \subseteq {Serve} \cup Turns
  /\ \A t \in Turns : IF t \in ToSet(line) THEN turns[t].at \in Speaks \cup {"cancelled"}
                                           ELSE turns[t].at \notin Speaks

(* A turn's task is in `tasks` from its start until it has been collected,  *)
(* and there is a place for the turn that is being acknowledged.            *)
TasksInv ==
  /\ turns \in Seq(TurnRecords) /\ pc \in Phases
  /\ held \subseteq Turns /\ Cardinality(held) <= MaxPending
  /\ \A t \in Turns :
       /\ IF t \in held THEN turns[t].at # "snapshot" ELSE turns[t].at \in {"snapshot", "done"}
       /\ turns[t].at = "cancelled" => pc = "gather"
       /\ pc = "gather" => turns[t].at \in {"snapshot", "cancelled", "done"}
       /\ pc \in {"new", "done"} => turns[t].at \in {"snapshot", "done"}
  /\ pc = "committed" =>
       /\ Len(turns) \in Turns /\ turns[Len(turns)].at = "snapshot"
       /\ Cardinality(held) < MaxPending

HoldInv ==
  /\ {slot, lease, stream, language, detects} \subseteq BOOLEAN
  /\ slot <=> pc \notin {"new", "done"}
  /\ pc = "done" => ~stream
  /\ pc \in {"new", "created"} => ~lease /\ ~stream /\ ~language
  /\ pc = "updated" => (lease <=> detects)
  /\ pc \in Listening => (lease <=> stream) /\ (language => (stream <=> detects))

\* While it goes on, Serve keeps buffer, detector and stream in step.
Open == (Waits \ {"failing"}) \cup {"new"}

Fits(b) ==
  /\ b \in Buffers
  /\ b.start + b.len = b.total /\ b.scan <= b.len /\ b.scan % 2 = 0
  /\ b.active <=> b.pending # None
  /\ b.active <=> b.speech >= StartFrames

(* Of the buffer b the stream, which has heard up to h, has judged n bytes:  *)
(* the speech run and, before speech, a prefix, which is shorter only if     *)
(* what came before it was taken at c.                                      *)
InStep(b, n, h, c) ==
  /\ n \in Nat /\ b.speech * FrameBytes <= n
  /\ IF h = Nothing THEN n = 0 /\ ~b.active ELSE h = b.start + n
  /\ ~b.active => /\ n <= Retained(b)
                  /\ b.start = c \/ n = Retained(b)

\* Detection has read all it can.
AllRead ==
  \/ pc \in {"new", "created", "updated", "receive", "reply"}
  \/ pc \in {"stopped", "slot", "committed"} /\ ~auto

BufferInv ==
  /\ Fits(buf)
  /\ heard \in Nat \cup {Nothing} /\ cut \in Nat /\ cut <= buf.start /\ auto \in BOOLEAN
  /\ pc \in Open =>
       InStep(buf, IF pc = "score" THEN buf.scan - FrameBytes ELSE buf.scan, heard, cut)
  /\ pc \in {"new", "created", "updated"} => buf.len = 0
  /\ (pc \in Open /\ buf.active) \/ pc = "score" => detects
  /\ detects /\ AllRead => ~FrameReady(buf)
  /\ pc = "started" \/ pc = "stopped" \/ (pc = "slot" /\ auto) => buf.active
  /\ pc = "committed" => ~buf.active

\* What the client was told of an item, nothing if it is not known yet.
Events(item) == IF item \in 1..Len(told) THEN told[item] ELSE <<>>
Kinds(item)  == {e.kind : e \in Range(Events(item))}

Unsaid    == {"started", "stopped"}
Committed == Unsaid \cup {"committed"}

(* No item has two owners: it is pending, or of one turn, or was cleared;   *)
(* and what its owner may still say of it comes after what was said.        *)
ItemsInv ==
  /\ told \in Seq(Seq(ItemEvents))
  /\ ItemEventsInOrder
  /\ buf.pending \in 0..Len(told)
  /\ \A t \in Turns : /\ turns[t].item \in 1..Len(told) /\ turns[t].item # buf.pending
                      /\ \A u \in Turns : turns[u].item = turns[t].item => u = t
  /\ buf.pending # None => Kinds(buf.pending) \subseteq Unsaid
  /\ \A t \in Turns :
       /\ turns[t].at \in {"snapshot", "work"} => Kinds(turns[t].item) \subseteq Committed
       /\ turns[t].at \in {"delta", "failed"} /\ ~Sends(t) =>
            Kinds(turns[t].item) \subseteq Committed
       /\ turns[t].at = "delta" \/ (turns[t].at = "completed" /\ ~Sends(t)) =>
            Kinds(turns[t].item) \subseteq Committed \cup {"delta"}

(* The event Serve is sending, and what was told of its item before.        *)
ReplyInv ==
  /\ pc \in {"created", "updated", "failing"} => reply = OtherEvent
  /\ pc = "started" =>
       /\ reply = Event("started", buf.pending, reply.at) /\ reply.at \in Nat
       /\ ~Sends(Serve) => Kinds(buf.pending) = {}
  /\ pc = "stopped" => reply = Event("stopped", buf.pending, reply.at) /\ reply.at \in Nat
  /\ pc = "committed" =>
       /\ reply = Event("committed", turns[Len(turns)].item, 0)
       /\ ~Sends(Serve) => Kinds(reply.item) \subseteq Unsaid
  /\ pc = "reply" =>
       \/ reply = OtherEvent
       \/ /\ reply = Event("cleared", reply.item, 0) /\ reply.item \in 1..Len(told)
          /\ reply.item # buf.pending /\ \A t \in Turns : turns[t].item # reply.item
          /\ ~Sends(Serve) => Kinds(reply.item) \subseteq Unsaid

\* What was said of the open item, or will be once Serve has the lock.
Announced ==
  Range(Events(buf.pending)) \cup
    (IF pc \in {"started", "stopped"} THEN {[kind |-> reply.kind, at |-> reply.at]} ELSE {})

(* Turns are apart, and what was said of the open item fits the buffer: it  *)
(* begins where speech_started says, or where audio was taken last, and     *)
(* detection has read to where speech_stopped says before it ends the turn. *)
SpeechInv ==
  /\ TurnsHoldTheirSpeech
  /\ \A t \in Turns : turns[t].to <= cut
  /\ pc \in Open /\ buf.active => \A e \in Announced :
       /\ e.kind = "started" => buf.start = Max({e.at, cut})
       /\ e.kind = "stopped" =>
            /\ e.at <= buf.total
            /\ pc \in {"score", "started"} \/ (pc \in {"stopped", "slot"} /\ auto) =>
                 e.at <= FrameEnd(buf)

SessionInv ==
  /\ LineInv /\ TasksInv /\ HoldInv /\ BufferInv
  /\ ItemsInv /\ ReplyInv /\ SpeechInv
=============================================================================
