--------------------------- MODULE WebRTCStreams ---------------------------
(***************************************************************************)
(* The streams of the WebRTC provider (src/app/vad/webrtc.py) on top of the *)
(* VAD runtime.  Unlike Silero, whose jobs work on copies, _classify runs   *)
(* on the stream's own classifier handle and resampler: it reads them from *)
(* the stream when it starts (ReadHandle), which is a step after the gate  *)
(* of the job, and feeds them the frame.  The energy streams follow the     *)
(* same protocol of leases, failures and resets, without a handle.          *)
(***************************************************************************)
EXTENDS VADRuntime, StreamCapacity

CONSTANTS
  Resettable, \* the streams whose owner resets them
  MaxResets   \* bound on the resets of a stream (the code has none)

ASSUME WebRTCAssumption == Resettable \subseteq Clients /\ MaxResets \in Nat

VARIABLES
  life,     \* stream -> "none", "open", "closed"
  failed,   \* streams whose _failed is set
  inFlight, \* streams whose _in_flight is set
  handle,   \* stream -> which _handle (and _resampler) it has: its resets
  sent,     \* stream -> frames passed to submit since the reset
  heard,    \* stream -> the frames its handle was fed, in order
  frame,    \* job -> the frame it classifies: [reset, index]
  reading   \* worker -> the handle its thread has read; NoHandle before

streamVars == <<life, failed, inFlight, handle, sent, heard, frame, reading, active>>
allVars    == <<vars, streamVars>>

NoHandle == -1

-----------------------------------------------------------------------------
NewStream(c) ==
  /\ life[c] = "none" /\ phase = "up"
  /\ Acquire
  /\ life' = [life EXCEPT ![c] = "open"]
  /\ UNCHANGED <<vars, failed, inFlight, handle, sent, heard, frame, reading>>

\* score refuses a closed, failed or busy stream.
MayScore(c) ==
  life[c] = "open" /\ c \notin failed /\ c \notin inFlight

Score(c) ==
  /\ MayScore(c)
  /\ Accept(c)
  /\ inFlight' = inFlight \cup {c}
  /\ sent' = [sent EXCEPT ![c] = @ + 1]
  /\ frame' = Extend(frame, [reset |-> handle[c], index |-> sent[c] + 1])
  /\ UNCHANGED <<life, failed, handle, heard, reading, active>>

\* A full queue fails the stream; a closed runtime (VADClosedError) does not.
ScoreRefused(c) ==
  /\ MayScore(c)
  /\ Accepts /\ ~HasRoom
  /\ failed' = failed \cup {c}
  /\ UNCHANGED <<vars, life, inFlight, handle, sent, heard, frame, reading, active>>

ScoreAnswered(j) ==
  /\ Answer(j)
  /\ inFlight' = inFlight \ {client[j]}
  /\ failed' = IF future[j] = "result" THEN failed ELSE failed \cup {client[j]}
  /\ UNCHANGED <<life, handle, sent, heard, frame, reading, active>>

\* (Mutant: a stream carries on as if the lost frame had been scored.)
FailedUnless(c) == failed
FailedWith(c)   == failed \cup {c}

ScoreAbandoned(j) ==
  /\ GiveUp(j)
  /\ inFlight' = inFlight \ {client[j]}
  /\ failed' = FailedWith(client[j])
  /\ UNCHANGED <<life, handle, sent, heard, frame, reading, active>>

\* reset: refused during a score call; else a new handle and resampler, or,
\* when they cannot be made, a failed stream.
Reset(c) ==
  /\ c \in Resettable
  /\ life[c] = "open" /\ c \notin inFlight
  /\ handle[c] < MaxResets
  /\ \/ /\ handle' = [handle EXCEPT ![c] = @ + 1]
        /\ sent' = [sent EXCEPT ![c] = 0]
        /\ heard' = [heard EXCEPT ![c] = <<>>]
        /\ failed' = failed \ {c}
     \/ /\ failed' = failed \cup {c}
        /\ UNCHANGED <<handle, sent, heard>>
  /\ UNCHANGED <<vars, life, inFlight, frame, reading, active>>

\* Does close take effect?  (Mutant: every call does, not only the first.)
ClosesAgain(c) == life[c] # "none"
Closes(c)      == life[c] = "open"

CloseStream(c) ==
  /\ Closes(c)
  /\ life' = [life EXCEPT ![c] = "closed"]
  /\ Release
  /\ UNCHANGED <<vars, failed, inFlight, handle, sent, heard, frame, reading>>

-----------------------------------------------------------------------------
(* _classify, on the thread of worker w.                                    *)

ReadHandle(w) ==
  /\ at[w] = "function" /\ reading[w] = NoHandle
  /\ reading' = [reading EXCEPT ![w] = handle[client[hand[w]]]]
  /\ UNCHANGED <<vars, life, failed, inFlight, handle, sent, heard, frame, active>>

\* The handle the thread has read is fed the frame; an error may come first.
Classify(w) ==
  LET j == hand[w]
      c == client[j]
      fedHandle == [heard EXCEPT ![c] = IF reading[w] = handle[c]
                                       THEN Append(@, frame[j]) ELSE @]
  IN /\ reading[w] # NoHandle
     /\ \/ Return(w, "result") /\ heard' = fedHandle
        \/ Return(w, "error") /\ heard' \in {heard, fedHandle}
     /\ reading' = [reading EXCEPT ![w] = NoHandle]
     /\ UNCHANGED <<life, failed, inFlight, handle, sent, frame, active>>

-----------------------------------------------------------------------------
StreamInit ==
  /\ Init
  /\ active = 0
  /\ life = [c \in Clients |-> "none"]
  /\ failed = {} /\ inFlight = {}
  /\ handle = [c \in Clients |-> 0]
  /\ sent = [c \in Clients |-> 0]
  /\ heard = [c \in Clients |-> <<>>]
  /\ frame = [j \in Jobs |-> Stop]
  /\ reading = [w \in Workers |-> NoHandle]

\* startup and close of the provider; a closed provider never starts again.
Provider == (phase = "new" /\ Start) \/ Close

\* The steps of a worker that touch no stream.
Dispatch(w) == Take(w) \/ EnterGate(w) \/ Resume(w)

StreamNext ==
  \/ \E c \in Clients :
       NewStream(c) \/ Score(c) \/ ScoreRefused(c) \/ Reset(c) \/ CloseStream(c)
  \/ \E j \in Jobs : ScoreAnswered(j) \/ ScoreAbandoned(j)
  \/ \E w \in Workers : ReadHandle(w) \/ Classify(w)
  \/ Provider /\ UNCHANGED streamVars
  \/ (\E w \in Workers : Dispatch(w)) /\ UNCHANGED streamVars

StreamSpec == StreamInit /\ [][StreamNext]_allVars

(* Ready callbacks run, executor threads become free and a classifier       *)
(* returns: workers and close go on.  Nobody has to create a stream, score, *)
(* give up, start or begin to close.                                        *)
FairStreamSpec ==
  /\ StreamSpec
  /\ \A w \in Workers :
       WF_allVars(\/ Dispatch(w) /\ UNCHANGED streamVars
                  \/ ReadHandle(w) \/ Classify(w))
  /\ WF_allVars((PutStop \/ EndClose) /\ UNCHANGED streamVars)

-----------------------------------------------------------------------------
(* Properties.                                                              *)

Open == {c \in Clients : life[c] = "open"}

(* "Sequential WebRTC classifier state" (docstring of _WebRTCVADStream): no *)
(* two threads work on the same handle and resampler at the same time.      *)
SequentialUse ==
  \A v, w \in Workers :
    /\ v # w /\ reading[v] # NoHandle /\ reading[w] # NoHandle
    /\ client[hand[v]] = client[hand[w]]
    => reading[v] # reading[w]

(* A stream that was not reset and accepts its next frame has heard every   *)
(* frame so far, in order and once: a frame lost to a deadline, a full      *)
(* queue or a cancellation never goes unnoticed.  (After a reset a late     *)
(* thread may add a frame from before it: see SequentialUse.)               *)
HearsEveryFrame ==
  \A c \in Open : c \notin failed /\ c \notin inFlight /\ handle[c] = 0 =>
    heard[c] = [i \in 1..sent[c] |-> [reset |-> 0, index |-> i]]

(* Leases are exact: as many as there are open streams.                     *)
LeasesAreExact == active = Cardinality(Open) /\ active <= Limit

-----------------------------------------------------------------------------
(* The inductive invariant behind HearsEveryFrame.                          *)

StreamTypes ==
  /\ life \in [Clients -> {"none", "open", "closed"}]
  /\ failed \subseteq Clients /\ inFlight \subseteq Clients
  /\ handle \in [Clients -> Nat]
  /\ sent \in [Clients -> Nat]
  /\ heard \in [Clients -> Seq([reset : Nat, index : Nat])]
  /\ frame \in [Jobs -> [reset : Nat, index : Nat]]
  /\ reading \in [Workers -> Nat \cup {NoHandle}]

\* The streams HearsEveryFrame speaks of: never failed, never reset.
Unbroken == {c \in Clients : c \notin failed /\ handle[c] = 0}

\* The first n frames of a stream, in order.
FirstFrames(n) == [i \in 1..n |-> [reset |-> 0, index |-> i]]

(* A stream in flight has one submission that waits, nobody else has any,   *)
(* and a waiting submission was not cancelled.                              *)
OneScoreAtATime ==
  /\ \A j \in Jobs : caller[j] = "awaiting" =>
       client[j] \in inFlight /\ future[j] # "cancelled"
  /\ \A j, k \in Jobs :
       caller[j] = "awaiting" /\ caller[k] = "awaiting" /\ client[j] = client[k] => j = k
  /\ \A c \in inFlight : \E j \in Jobs : client[j] = c /\ caller[j] = "awaiting"

(* An unbroken stream has had a result for every frame it does not wait for:*)
(* no thread still works for it on a frame of the past.                     *)
NothingLost ==
  \A j \in Jobs : client[j] \in Unbroken /\ caller[j] # "awaiting" => future[j] = "result"

\* A thread is past ReadHandle only inside the function, with a handle of its stream.
ReadsOwnHandle ==
  \A w \in Workers : reading[w] # NoHandle =>
    at[w] = "function" /\ reading[w] <= handle[client[hand[w]]]

(* What an unbroken stream has heard: all it sent, but the last frame while *)
(* that one waits in the queue, for its thread, or for the end of _classify.*)
HeardSoFar ==
  /\ \A c \in Unbroken \ inFlight : heard[c] = FirstFrames(sent[c])
  /\ \A j \in Jobs : client[j] \in Unbroken /\ caller[j] = "awaiting" =>
       LET c == client[j] IN
       /\ sent[c] > 0 /\ frame[j] = [reset |-> 0, index |-> sent[c]]
       /\ (\E i \in 1..Len(queue) : queue[i] = j) => heard[c] = FirstFrames(sent[c] - 1)
       /\ \A w \in Workers : hand[w] = j =>
            /\ at[w] \in {"executor", "function"} => heard[c] = FirstFrames(sent[c] - 1)
            /\ at[w] = "returned" /\ outcome[w] = "result" => heard[c] = FirstFrames(sent[c])
       /\ future[j] = "result" => heard[c] = FirstFrames(sent[c])

(* The conjunction that every step preserves.                               *)
SInv ==
  /\ IInv /\ OnePlace
  /\ StreamTypes
  /\ IsFiniteSet(Open) /\ LeasesAreExact
  /\ OneScoreAtATime
  /\ NothingLost
  /\ ReadsOwnHandle
  /\ HeardSoFar
=============================================================================
