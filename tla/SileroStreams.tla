--------------------------- MODULE SileroStreams ---------------------------
(***************************************************************************)
(* The streams of the Silero provider (src/app/vad/silero.py) on top of    *)
(* the VAD runtime.  A stream cuts 20 ms frames into model windows, keeps   *)
(* the recurrent state of the model between windows, and may be reset or   *)
(* closed while a window is being scored on a thread.                      *)
(*                                                                         *)
(* Audio is counted in samples (64 real samples to one here): a stream has *)
(* been fed `fed` samples since its last reset and has discarded the first *)
(* `used` of them, which the recurrent state is supposed to stand for.     *)
(***************************************************************************)
EXTENDS VADRuntime, StreamCapacity

CONSTANTS
  Frame,   \* samples in a 20 ms frame: 320
  Window,  \* samples in a model window: 512
  MaxEpoch \* bound on the resets of a stream (the code has none)

(* A frame is not longer than a window, so that the loop of score submits   *)
(* at most one window per frame.                                            *)
ASSUME SileroAssumption ==
  /\ Frame \in Nat \ {0} /\ Window \in Nat \ {0} /\ Frame <= Window
  /\ MaxEpoch \in Nat

VARIABLES
  life,     \* stream -> "none", "open", "closed"
  failed,   \* streams whose _failed is set
  scoring,  \* streams whose _scoring is set
  epoch,    \* stream -> _epoch
  fed,      \* stream -> samples appended since the reset
  used,     \* stream -> samples discarded since the reset
  state,    \* stream -> what _state and _context have absorbed
  snapshot  \* job -> the epoch score captured and the state it copied

streamVars == <<life, failed, scoring, epoch, fed, used, state, snapshot, active>>
allVars    == <<vars, streamVars>>

\* Recurrent state that has absorbed the first n samples of epoch e.
Absorbed(e, n) == [epoch |-> e, upto |-> n]

Buffered(c) == fed[c] - used[c]

-----------------------------------------------------------------------------
\* new_stream: a lease and fresh state, while the provider runs.
NewStream(c) ==
  /\ life[c] = "none" /\ phase = "up"
  /\ Acquire
  /\ life' = [life EXCEPT ![c] = "open"]
  /\ UNCHANGED <<vars, failed, scoring, epoch, fed, used, state, snapshot>>

\* score refuses a closed, failed or busy stream before it touches anything.
\* (Mutant: overlapping calls are let in.)
MayOverlap(c) == life[c] = "open" /\ c \notin failed
MayScore(c)   == life[c] = "open" /\ c \notin failed /\ c \notin scoring

\* No complete window yet: the held score is returned without an await.
ScoreHeld(c) ==
  /\ MayScore(c)
  /\ Buffered(c) + Frame < Window
  /\ fed' = [fed EXCEPT ![c] = @ + Frame]
  /\ UNCHANGED <<vars, life, failed, scoring, epoch, used, state, snapshot, active>>

\* A window is complete: score copies it and the state, submits, and waits.
ScoreSubmit(c) ==
  /\ MayScore(c)
  /\ Buffered(c) + Frame >= Window
  /\ Accept(c)
  /\ fed' = [fed EXCEPT ![c] = @ + Frame]
  /\ scoring' = scoring \cup {c}
  /\ snapshot' = Extend(snapshot, [epoch |-> epoch[c], state |-> state[c]])
  /\ UNCHANGED <<life, failed, epoch, used, state, active>>

\* The runtime is full or closed: the window stays, the stream has failed.
ScoreRefused(c) ==
  /\ MayScore(c)
  /\ Buffered(c) + Frame >= Window
  /\ ~Accepts \/ ~HasRoom
  /\ fed' = [fed EXCEPT ![c] = @ + Frame]
  /\ failed' = failed \cup {c}
  /\ UNCHANGED <<vars, life, scoring, epoch, used, state, snapshot, active>>

\* Is the epoch that score captured still the stream's?  (Mutant: not asked.)
EpochIgnored(j) == TRUE
SameEpoch(j)    == snapshot[j].epoch = epoch[client[j]]

(* submit answers.  A result of the current epoch is taken over; after a    *)
(* reset or a close it is dropped with an error, as an engine error is.     *)
ScoreAnswered(j) ==
  LET c     == client[j]
      valid == future[j] = "result" /\ SameEpoch(j)
  IN /\ Answer(j)
     /\ scoring' = scoring \ {c}
     /\ \/ /\ valid
           /\ used' = [used EXCEPT ![c] = @ + Window]
           /\ state' = [state EXCEPT ![c] =
                          Absorbed(snapshot[j].state.epoch,
                                   snapshot[j].state.upto + Window)]
           /\ UNCHANGED failed
        \/ /\ ~valid
           /\ failed' = failed \cup {c}
           /\ UNCHANGED <<used, state>>
     /\ UNCHANGED <<life, epoch, fed, snapshot, active>>

\* The deadline passes or the caller is cancelled: the stream has failed.
\* (Mutant: it carries on as if the frame had been scored.)
FailedUnless(c) == failed
FailedWith(c)   == failed \cup {c}

ScoreAbandoned(j) ==
  /\ GiveUp(j)
  /\ scoring' = scoring \ {client[j]}
  /\ failed' = FailedWith(client[j])
  /\ UNCHANGED <<life, epoch, fed, used, state, snapshot, active>>

\* reset, at any time: also under a score call, which then fails by its epoch.
Reset(c) ==
  /\ life[c] = "open"
  /\ epoch[c] < MaxEpoch
  /\ epoch' = [epoch EXCEPT ![c] = @ + 1]
  /\ failed' = failed \ {c}
  /\ fed' = [fed EXCEPT ![c] = 0]
  /\ used' = [used EXCEPT ![c] = 0]
  /\ state' = [state EXCEPT ![c] = Absorbed(epoch'[c], 0)]
  /\ UNCHANGED <<vars, life, scoring, snapshot, active>>

\* Does close take effect?  (Mutant: every call does, not only the first.)
ClosesAgain(c) == life[c] # "none"
Closes(c)      == life[c] = "open"

\* close, at any time: the lease goes back, the epoch moves on, the FIFO is
\* dropped; the recurrent state is left as it is.
CloseStream(c) ==
  /\ Closes(c)
  /\ life' = [life EXCEPT ![c] = "closed"]
  /\ epoch' = [epoch EXCEPT ![c] = @ + 1]
  /\ fed' = [fed EXCEPT ![c] = 0]
  /\ used' = [used EXCEPT ![c] = 0]
  /\ Release
  /\ UNCHANGED <<vars, failed, scoring, state, snapshot>>

-----------------------------------------------------------------------------
StreamInit ==
  /\ Init
  /\ active = 0
  /\ life = [c \in Clients |-> "none"]
  /\ failed = {} /\ scoring = {}
  /\ epoch = [c \in Clients |-> 0]
  /\ fed = [c \in Clients |-> 0]
  /\ used = [c \in Clients |-> 0]
  /\ state = [c \in Clients |-> Absorbed(0, 0)]
  /\ snapshot = [j \in Jobs |-> Stop]

\* startup and close of the provider; a closed provider never starts again.
Provider == (phase = "new" /\ Start) \/ Close

StreamNext ==
  \/ \E c \in Clients :
       NewStream(c) \/ ScoreHeld(c) \/ ScoreSubmit(c) \/ ScoreRefused(c)
       \/ Reset(c) \/ CloseStream(c)
  \/ \E j \in Jobs : ScoreAnswered(j) \/ ScoreAbandoned(j)
  \/ Provider /\ UNCHANGED streamVars
  \/ (\E w \in Workers : Worker(w)) /\ UNCHANGED streamVars

StreamSpec == StreamInit /\ [][StreamNext]_allVars

-----------------------------------------------------------------------------
(* Properties.                                                              *)

Open == {c \in Clients : life[c] = "open"}

(* Every variable, the runtime's included, keeps its shape; the FIFO never  *)
(* holds a second window.                                                   *)
StreamTypeOK ==
  /\ TypeOK
  /\ life \in [Clients -> {"none", "open", "closed"}]
  /\ failed \subseteq Clients /\ scoring \subseteq Clients
  /\ epoch \in [Clients -> 0..(MaxEpoch + 1)]
  /\ active \in 0..Limit
  /\ \A c \in Clients : Buffered(c) \in 0..(Window + Frame - 1)

(* The recurrent state of an open stream has absorbed exactly the samples   *)
(* that were discarded in this epoch, each once: no window is scored twice, *)
(* skipped, or taken from the audio before a reset, whatever answers late   *)
(* (ARCHITECTURE.md: no dropping, reordering or duplicating of samples).    *)
StateFollowsAudio ==
  \A c \in Open : state[c] = Absorbed(epoch[c], used[c])

(* A stream that accepts its next frame has scored every complete window:   *)
(* a window lost to a deadline, a full queue or a cancellation never goes   *)
(* unnoticed, the stream is failed until it is reset.                       *)
NoWindowSkipped ==
  \A c \in Open : c \notin failed /\ c \notin scoring => Buffered(c) < Window

(* Leases are exact: as many as there are open streams, so that no order of *)
(* resets, failures and closes loses one or hands out too many.             *)
LeasesAreExact == active = Cardinality(Open) /\ active <= Limit

(* The inductive invariant behind them, on top of the runtime's.            *)

Absorptions == [epoch : Nat, upto : Nat]

StreamTypes ==
  /\ life \in [Clients -> {"none", "open", "closed"}]
  /\ failed \subseteq Clients /\ scoring \subseteq Clients
  /\ epoch \in [Clients -> Nat]
  /\ fed \in [Clients -> Nat] /\ used \in [Clients -> Nat]
  /\ state \in [Clients -> Absorptions]
  /\ snapshot \in [Jobs -> [epoch : Nat, state : Absorptions]]

\* A stream waits for at most one window, and says so by _scoring.
OneScoreAtATime ==
  \A j \in Jobs : caller[j] = "awaiting" =>
    /\ client[j] \in scoring
    /\ \A k \in Jobs : caller[k] = "awaiting" /\ client[k] = client[j] => k = j

\* A snapshot of the current epoch that is still awaited is the stream's state.
SnapshotsAreCurrent ==
  \A j \in Jobs :
    /\ snapshot[j].epoch <= epoch[client[j]]
    /\ caller[j] = "awaiting" /\ SameEpoch(j) => snapshot[j].state = state[client[j]]

\* While a window is being scored at most one more frame than a window waits.
BufferIsBounded ==
  \A c \in Open : c \in scoring => Buffered(c) < Window + Frame

\* A stream that does not exist yet will start fresh.
FreshUntilOpened ==
  \A c \in Clients : life[c] = "none" =>
    c \notin scoring /\ state[c] = Absorbed(epoch[c], used[c]) /\ Buffered(c) = 0

SInv ==
  /\ IInv
  /\ StreamTypes
  /\ FreshUntilOpened
  /\ StateFollowsAudio
  /\ NoWindowSkipped
  /\ OneScoreAtATime
  /\ SnapshotsAreCurrent
  /\ BufferIsBounded
  /\ IsFiniteSet(Open) /\ LeasesAreExact
=============================================================================
