--------------------------- MODULE ProviderProofs ---------------------------
(***************************************************************************)
(* Theorems about two users of VADRuntime: SileroStreams, for every number *)
(* of streams, workers and leases and every frame and window length; and   *)
(* VADBench, for every bound of its search.  Neither part uses the other.  *)
(***************************************************************************)
EXTENDS SileroStreams, VADBench, VADRuntimeProofs, WellFoundedInduction

(* A step of the streams is a step of the runtime or leaves it alone.       *)
LEMMA StepsAreRuntimeSteps == StreamNext => [Next]_vars
BY DEF StreamNext, Next, NewStream, ScoreHeld, ScoreSubmit, ScoreRefused, Reset,
       CloseStream, ScoreAnswered, ScoreAbandoned, Provider

LEMMA RuntimeInv == IInv /\ StreamNext => IInv'
BY StepsAreRuntimeSteps, NextInv

LEMMA StreamInitInv == StreamInit => SInv
<1> SUFFICES ASSUME StreamInit
             PROVE  SInv
  OBVIOUS
<1>1. IInv
  BY InitInv DEF StreamInit
<1>2. Jobs = {} /\ Open = {}
  BY DEF StreamInit, Init, Jobs, Open
<1>3. StreamTypes
  BY <1>2 DEF StreamInit, StreamTypes, Absorptions, Absorbed
<1>4. IsFiniteSet(Open) /\ LeasesAreExact
  BY <1>2, FS_EmptySet, CapacityAssumption DEF StreamInit, LeasesAreExact
<1> QED
  BY <1>1, <1>2, <1>3, <1>4
  DEF SInv, StateFollowsAudio, NoWindowSkipped, OneScoreAtATime,
      SnapshotsAreCurrent, BufferIsBounded, FreshUntilOpened, Buffered, StreamInit,
      Absorbed

-----------------------------------------------------------------------------
(* The steps of a stream.                                                   *)

(* The parts of SInv that speak of calls survive a step that leaves the     *)
(* calls and the audio of every stream alone.                               *)
LEMMA CallsKept ==
  ASSUME SInv,
         UNCHANGED <<count, client, caller, scoring, epoch, state, snapshot>>
  PROVE  OneScoreAtATime' /\ SnapshotsAreCurrent'
BY DEF SInv, OneScoreAtATime, SnapshotsAreCurrent, SameEpoch, Jobs

LEMMA NewStreamInv == ASSUME SInv, NEW c \in Clients, NewStream(c) PROVE SInv'
<1>1. IInv'
  BY RuntimeInv DEF SInv, StreamNext
<1>2. Jobs' = Jobs /\ Open' = Open \cup {c} /\ c \notin Open
  BY DEF NewStream, vars, Jobs, Open, SInv, StreamTypes
<1>3. IsFiniteSet(Open') /\ Cardinality(Open') = Cardinality(Open) + 1
  BY <1>2, FS_AddElement DEF SInv
<1>4. LeasesAreExact'
  BY <1>2, <1>3, CapacityAssumption, FS_CardinalityType
  DEF SInv, LeasesAreExact, NewStream, Acquire, FreeLease
<1>5. StreamTypes'
  BY <1>2 DEF SInv, StreamTypes, NewStream
<1>6. OneScoreAtATime' /\ SnapshotsAreCurrent'
  BY CallsKept DEF NewStream, vars
<1>7. StateFollowsAudio'
  BY <1>2 DEF SInv, StateFollowsAudio, FreshUntilOpened, NewStream
<1>8. NoWindowSkipped' /\ BufferIsBounded' /\ FreshUntilOpened'
  BY <1>2, SileroAssumption
  DEF SInv, NoWindowSkipped, BufferIsBounded, FreshUntilOpened, NewStream, Buffered,
      StreamTypes
<1> QED BY <1>1, <1>3, <1>4, <1>5, <1>6, <1>7, <1>8 DEF SInv

(* Steps that neither open nor close a stream keep the leases.              *)
LEMMA LeasesKept ==
  ASSUME SInv, UNCHANGED <<life, active>>
  PROVE  Open' = Open /\ IsFiniteSet(Open') /\ LeasesAreExact'
BY DEF SInv, LeasesAreExact, Open

LEMMA ScoreHeldInv == ASSUME SInv, NEW c \in Clients, ScoreHeld(c) PROVE SInv'
<1>1. IInv'
  BY RuntimeInv DEF SInv, StreamNext
<1>2. Jobs' = Jobs /\ Open' = Open /\ IsFiniteSet(Open') /\ LeasesAreExact'
  BY LeasesKept DEF ScoreHeld, vars, Jobs
<1>3. OneScoreAtATime' /\ SnapshotsAreCurrent'
  BY CallsKept DEF ScoreHeld, vars
<1>4. StreamTypes'
  BY <1>2, SileroAssumption DEF SInv, StreamTypes, ScoreHeld
<1>5. StateFollowsAudio'
  BY <1>2 DEF SInv, StateFollowsAudio, ScoreHeld
<1>6. \A d \in Clients : Buffered(d)' = IF d = c THEN Buffered(c) + Frame ELSE Buffered(d)
  BY SileroAssumption DEF SInv, StreamTypes, ScoreHeld, Buffered
<1>7. NoWindowSkipped' /\ BufferIsBounded' /\ FreshUntilOpened'
  BY <1>2, <1>6
  DEF SInv, NoWindowSkipped, BufferIsBounded, FreshUntilOpened, ScoreHeld, MayScore, Open
<1> QED BY <1>1, <1>2, <1>3, <1>4, <1>5, <1>7 DEF SInv

LEMMA ScoreSubmitInv == ASSUME SInv, NEW c \in Clients, ScoreSubmit(c) PROVE SInv'
<1> DEFINE n == count + 1
<1>1. IInv'
  BY RuntimeInv DEF SInv, StreamNext
<1>2. Open' = Open /\ IsFiniteSet(Open') /\ LeasesAreExact'
  BY LeasesKept DEF ScoreSubmit
<1>3. count \in Nat /\ Jobs' = Jobs \cup {n} /\ n \notin Jobs
  BY RuntimeAssumption DEF SInv, IInv, TypeOK, ScoreSubmit, Accept, Jobs
<1>4. /\ \A j \in Jobs : client'[j] = client[j] /\ caller'[j] = caller[j]
                         /\ snapshot'[j] = snapshot[j]
      /\ client'[n] = c
      /\ snapshot'[n] = [epoch |-> epoch[c], state |-> state[c]]
      /\ snapshot' \in [Jobs' -> [epoch : Nat, state : Absorptions]]
  <2>1. snapshot' = Extend(snapshot, [epoch |-> epoch[c], state |-> state[c]])
    BY DEF ScoreSubmit
  <2>2. [epoch |-> epoch[c], state |-> state[c]] \in [epoch : Nat, state : Absorptions]
    BY DEF SInv, StreamTypes
  <2>3. 1..(count + 1) = Jobs'
    BY DEF ScoreSubmit, Accept, Jobs
  <2>4. \A j \in Jobs : snapshot[j] \in [epoch : Nat, state : Absorptions]
    BY DEF SInv, StreamTypes
  <2>5. snapshot' \in [Jobs' -> [epoch : Nat, state : Absorptions]]
    BY <1>3, <2>1, <2>2, <2>3, <2>4 DEF Extend
  <2>6. /\ \A j \in Jobs : client'[j] = client[j] /\ caller'[j] = caller[j]
                           /\ snapshot'[j] = snapshot[j]
        /\ client'[n] = c
        /\ snapshot'[n] = [epoch |-> epoch[c], state |-> state[c]]
    BY <1>3, <2>1, <2>3 DEF ScoreSubmit, Accept, Extend
  <2> QED BY <2>5, <2>6
<1>5. StreamTypes'
  BY <1>4, SileroAssumption DEF SInv, StreamTypes, ScoreSubmit
<1>6. \A j \in Jobs : caller[j] = "awaiting" => client[j] # c
  BY DEF SInv, OneScoreAtATime, ScoreSubmit, MayScore
<1>7. OneScoreAtATime'
  BY <1>3, <1>4, <1>6 DEF SInv, OneScoreAtATime, ScoreSubmit
<1>8. SnapshotsAreCurrent'
  <2> SUFFICES ASSUME NEW j \in Jobs'
               PROVE  /\ snapshot'[j].epoch <= epoch'[client'[j]]
                      /\ caller'[j] = "awaiting" /\ snapshot'[j].epoch = epoch'[client'[j]]
                         => snapshot'[j].state = state'[client'[j]]
    BY DEF SnapshotsAreCurrent, SameEpoch
  <2>1. CASE j = n
    BY <1>4, <2>1 DEF ScoreSubmit, SInv, StreamTypes
  <2>2. CASE j \in Jobs
    BY <1>4, <2>2 DEF ScoreSubmit, SInv, SnapshotsAreCurrent, SameEpoch
  <2> QED BY <1>3, <2>1, <2>2
<1>9. StateFollowsAudio'
  BY <1>2 DEF SInv, StateFollowsAudio, ScoreSubmit
<1>10. \A d \in Clients : Buffered(d)' = IF d = c THEN Buffered(c) + Frame ELSE Buffered(d)
  BY SileroAssumption DEF SInv, StreamTypes, ScoreSubmit, Buffered
<1>11. c \in Open /\ Buffered(c) < Window /\ Buffered(c) \in Int
  BY DEF SInv, StreamTypes, NoWindowSkipped, ScoreSubmit, MayScore, Open, Buffered
<1>12. NoWindowSkipped' /\ BufferIsBounded' /\ FreshUntilOpened'
  BY <1>2, <1>10, <1>11, SileroAssumption
  DEF SInv, NoWindowSkipped, BufferIsBounded, FreshUntilOpened, ScoreSubmit, Open
<1> QED BY <1>1, <1>2, <1>5, <1>7, <1>8, <1>9, <1>12 DEF SInv

LEMMA ScoreRefusedInv == ASSUME SInv, NEW c \in Clients, ScoreRefused(c) PROVE SInv'
<1>1. IInv'
  BY RuntimeInv DEF SInv, StreamNext
<1>2. Jobs' = Jobs /\ Open' = Open /\ IsFiniteSet(Open') /\ LeasesAreExact'
  BY LeasesKept DEF ScoreRefused, vars, Jobs
<1>3. OneScoreAtATime' /\ SnapshotsAreCurrent'
  BY CallsKept DEF ScoreRefused, vars
<1>4. StreamTypes'
  BY <1>2, SileroAssumption DEF SInv, StreamTypes, ScoreRefused
<1>5. StateFollowsAudio'
  BY <1>2 DEF SInv, StateFollowsAudio, ScoreRefused
<1>6. \A d \in Clients \ {c} : Buffered(d)' = Buffered(d)
  BY DEF SInv, StreamTypes, ScoreRefused, Buffered
<1>7. NoWindowSkipped' /\ BufferIsBounded' /\ FreshUntilOpened'
  BY <1>2, <1>6
  DEF SInv, NoWindowSkipped, BufferIsBounded, FreshUntilOpened, ScoreRefused,
      MayScore, Open
<1> QED BY <1>1, <1>2, <1>3, <1>4, <1>5, <1>7 DEF SInv

(* When a submission ends, its stream has no other one.                     *)
LEMMA CallEnds ==
  ASSUME SInv, NEW j \in Jobs, caller[j] = "awaiting", NEW end,
         end # "awaiting",
         caller' = [caller EXCEPT ![j] = end],
         scoring' = scoring \ {client[j]},
         UNCHANGED <<count, client, epoch, snapshot>>
  PROVE  /\ OneScoreAtATime'
         /\ (\A c \in Clients \ {client[j]} : state'[c] = state[c]) => SnapshotsAreCurrent'
<1>1. Jobs' = Jobs
  BY DEF Jobs
<1>2. \A k \in Jobs : caller'[k] = "awaiting" =>
        caller[k] = "awaiting" /\ client[k] # client[j]
  BY DEF SInv, OneScoreAtATime, IInv, TypeOK
<1>3. OneScoreAtATime'
  BY <1>1, <1>2 DEF SInv, OneScoreAtATime
<1>4. \A k \in Jobs : client[k] \in Clients
  BY DEF SInv, IInv, TypeOK
<1>5. ASSUME \A c \in Clients \ {client[j]} : state'[c] = state[c]
      PROVE  SnapshotsAreCurrent'
  BY <1>1, <1>2, <1>4, <1>5 DEF SInv, SnapshotsAreCurrent, SameEpoch
<1> QED BY <1>3, <1>5

LEMMA ScoreAnsweredInv == ASSUME SInv, NEW j \in Jobs, ScoreAnswered(j) PROVE SInv'
<1> DEFINE c == client[j]
<1>1. IInv'
  BY RuntimeInv DEF SInv, StreamNext
<1>2. Jobs' = Jobs /\ Open' = Open /\ IsFiniteSet(Open') /\ LeasesAreExact'
  BY LeasesKept DEF ScoreAnswered, Answer, Jobs
<1>3. c \in Clients
  BY DEF SInv, IInv, TypeOK
<1>4. OneScoreAtATime' /\ SnapshotsAreCurrent'
  <2>1. \A d \in Clients \ {c} : state'[d] = state[d]
    BY DEF ScoreAnswered, SInv, StreamTypes
  <2> QED BY <2>1, CallEnds DEF ScoreAnswered, Answer
<1>5. CASE future[j] = "result" /\ SameEpoch(j)
  <2>1. /\ used' = [used EXCEPT ![c] = @ + Window]
        /\ state' = [state EXCEPT ![c] = Absorbed(snapshot[j].state.epoch,
                                                  snapshot[j].state.upto + Window)]
        /\ failed' = failed
    BY <1>5 DEF ScoreAnswered
  <2>2. snapshot[j].state = state[c]
    BY <1>5 DEF SInv, SnapshotsAreCurrent, ScoreAnswered, Answer
  <2>3. StreamTypes'
    <3>1. state[c] \in Absorptions /\ used[c] + Window \in Nat
      BY <1>3, SileroAssumption DEF SInv, StreamTypes
    <3>2. Absorbed(snapshot[j].state.epoch, snapshot[j].state.upto + Window) \in Absorptions
      BY <2>2, <3>1, SileroAssumption DEF Absorptions, Absorbed
    <3>3. state' \in [Clients -> Absorptions]
      BY <1>3, <2>1, <3>2 DEF SInv, StreamTypes
    <3>5. used' \in [Clients -> Nat]
      BY <1>3, <2>1, <3>1 DEF SInv, StreamTypes
    <3>4. /\ life' = life /\ failed' = failed /\ scoring' \subseteq scoring
          /\ epoch' = epoch /\ fed' = fed /\ snapshot' = snapshot
      BY <2>1 DEF ScoreAnswered
    <3> QED BY <1>2, <3>3, <3>4, <3>5 DEF SInv, StreamTypes
  <2>4. StateFollowsAudio'
    <3> SUFFICES ASSUME NEW d \in Open
                 PROVE  state'[d] = Absorbed(epoch'[d], used'[d])
      BY <1>2 DEF StateFollowsAudio
    <3>1. d \in Clients /\ epoch' = epoch /\ state[d] = Absorbed(epoch[d], used[d])
      BY DEF Open, ScoreAnswered, SInv, StateFollowsAudio
    <3>2. CASE d = c
      <4>1. /\ snapshot[j].state.epoch = epoch[c]
            /\ snapshot[j].state.upto = used[c]
        BY <2>2, <3>1, <3>2 DEF Absorbed
      <4> QED BY <2>1, <3>1, <3>2, <4>1 DEF SInv, StreamTypes
    <3>3. CASE d # c
      BY <2>1, <3>1, <3>3 DEF SInv, StreamTypes
    <3> QED BY <3>2, <3>3
  <2>5. \A d \in Clients : Buffered(d)' = IF d = c THEN Buffered(c) - Window
                                                   ELSE Buffered(d)
    BY <1>3, <2>1, SileroAssumption DEF SInv, StreamTypes, ScoreAnswered, Buffered
  <2>6. c \in scoring
    BY DEF SInv, OneScoreAtATime, ScoreAnswered, Answer
  <2>7. c \in Open => Buffered(c) - Window < Window
    BY <2>6, SileroAssumption DEF SInv, BufferIsBounded, StreamTypes, Buffered, Open
  <2>8. NoWindowSkipped' /\ BufferIsBounded'
    BY <1>2, <1>3, <2>1, <2>5, <2>7
    DEF SInv, NoWindowSkipped, BufferIsBounded, ScoreAnswered, Open
  <2>9. FreshUntilOpened'
    BY <1>3, <2>1, <2>5, <2>6 DEF SInv, FreshUntilOpened, ScoreAnswered, StreamTypes
  <2> QED BY <1>1, <1>2, <1>4, <2>3, <2>4, <2>8, <2>9 DEF SInv
<1>6. CASE ~(future[j] = "result" /\ SameEpoch(j))
  <2>1. failed' = failed \cup {c} /\ used' = used /\ state' = state
    BY <1>6 DEF ScoreAnswered
  <2>2. StreamTypes'
    BY <1>2, <1>3, <2>1 DEF SInv, StreamTypes, ScoreAnswered
  <2>3. StateFollowsAudio' /\ FreshUntilOpened'
    BY <1>2, <2>1
    DEF SInv, StateFollowsAudio, FreshUntilOpened, ScoreAnswered, Buffered
  <2>4. NoWindowSkipped' /\ BufferIsBounded'
    BY <1>2, <2>1
    DEF SInv, NoWindowSkipped, BufferIsBounded, ScoreAnswered, Buffered
  <2> QED BY <1>1, <1>2, <1>4, <2>2, <2>3, <2>4 DEF SInv
<1> QED BY <1>5, <1>6

LEMMA ScoreAbandonedInv == ASSUME SInv, NEW j \in Jobs, ScoreAbandoned(j) PROVE SInv'
<1>1. IInv'
  BY RuntimeInv DEF SInv, StreamNext
<1>2. Jobs' = Jobs /\ Open' = Open /\ IsFiniteSet(Open') /\ LeasesAreExact'
  BY LeasesKept DEF ScoreAbandoned, GiveUp, Jobs
<1>3. OneScoreAtATime' /\ SnapshotsAreCurrent'
  BY CallEnds DEF ScoreAbandoned, GiveUp
<1>4. StreamTypes'
  BY <1>2 DEF SInv, IInv, TypeOK, StreamTypes, ScoreAbandoned, FailedWith
<1>5. StateFollowsAudio' /\ FreshUntilOpened'
  BY <1>2 DEF SInv, StateFollowsAudio, FreshUntilOpened, ScoreAbandoned, Buffered
<1>6. NoWindowSkipped' /\ BufferIsBounded'
  BY <1>2
  DEF SInv, NoWindowSkipped, BufferIsBounded, ScoreAbandoned, FailedWith, Buffered
<1> QED BY <1>1, <1>2, <1>3, <1>4, <1>5, <1>6 DEF SInv

(* When the epoch of a stream moves on, every snapshot of it is outdated.   *)
LEMMA EpochMoves ==
  ASSUME SInv, NEW c \in Clients, epoch' = [epoch EXCEPT ![c] = @ + 1],
         \A d \in Clients \ {c} : state'[d] = state[d],
         UNCHANGED <<count, client, caller, scoring, snapshot>>
  PROVE  OneScoreAtATime' /\ SnapshotsAreCurrent'
<1>1. Jobs' = Jobs /\ \A j \in Jobs : client[j] \in Clients
  BY DEF Jobs, SInv, IInv, TypeOK
<1>2. OneScoreAtATime'
  BY <1>1 DEF SInv, OneScoreAtATime
<1>3. \A j \in Jobs : snapshot[j].epoch \in Nat
  BY DEF SInv, StreamTypes
<1>4. SnapshotsAreCurrent'
  BY <1>1, <1>3 DEF SInv, SnapshotsAreCurrent, SameEpoch, StreamTypes
<1> QED BY <1>2, <1>4

LEMMA ResetInv == ASSUME SInv, NEW c \in Clients, Reset(c) PROVE SInv'
<1>1. IInv'
  BY RuntimeInv DEF SInv, StreamNext
<1>2. Jobs' = Jobs /\ Open' = Open /\ IsFiniteSet(Open') /\ LeasesAreExact'
  BY LeasesKept DEF Reset, vars, Jobs
<1>3. OneScoreAtATime' /\ SnapshotsAreCurrent'
  <2>1. \A d \in Clients \ {c} : state'[d] = state[d]
    BY DEF Reset, SInv, StreamTypes
  <2> QED BY <2>1, EpochMoves DEF Reset, vars
<1>4. epoch'[c] \in Nat
  BY DEF Reset, SInv, StreamTypes
<1>5. StreamTypes'
  BY <1>2, <1>4 DEF SInv, StreamTypes, Reset, Absorptions, Absorbed
<1>6. StateFollowsAudio'
  BY <1>2 DEF SInv, StreamTypes, StateFollowsAudio, Reset, Absorbed, Open
<1>7. \A d \in Clients : Buffered(d)' = IF d = c THEN 0 ELSE Buffered(d)
  BY DEF SInv, StreamTypes, Reset, Buffered
<1>8. NoWindowSkipped' /\ BufferIsBounded' /\ FreshUntilOpened'
  BY <1>2, <1>7, SileroAssumption
  DEF SInv, StreamTypes, NoWindowSkipped, BufferIsBounded, FreshUntilOpened, Reset, Open
<1> QED BY <1>1, <1>2, <1>3, <1>5, <1>6, <1>8 DEF SInv

LEMMA CloseStreamInv == ASSUME SInv, NEW c \in Clients, CloseStream(c) PROVE SInv'
<1>1. IInv'
  BY RuntimeInv DEF SInv, StreamNext
<1>2. Jobs' = Jobs /\ Open' = Open \ {c} /\ c \in Open
  BY DEF CloseStream, Closes, vars, Jobs, Open, SInv, StreamTypes
<1>3. IsFiniteSet(Open') /\ Cardinality(Open') = Cardinality(Open) - 1
      /\ Cardinality(Open) \in Nat
  BY <1>2, FS_RemoveElement, FS_CardinalityType DEF SInv
<1>4. Cardinality(Open') \in Nat
  BY <1>3, FS_CardinalityType
<1>5. LeasesAreExact'
  BY <1>3, <1>4, CapacityAssumption
  DEF SInv, LeasesAreExact, CloseStream, Release
<1>6. OneScoreAtATime' /\ SnapshotsAreCurrent'
  BY EpochMoves DEF CloseStream, vars
<1>7. StreamTypes'
  BY <1>2 DEF SInv, StreamTypes, CloseStream
<1>8. StateFollowsAudio'
  BY <1>2 DEF SInv, StreamTypes, StateFollowsAudio, CloseStream, Open
<1>9. \A d \in Clients \ {c} : Buffered(d)' = Buffered(d)
  BY DEF SInv, StreamTypes, CloseStream, Buffered
<1>10. NoWindowSkipped' /\ BufferIsBounded' /\ FreshUntilOpened'
  BY <1>2, <1>9
  DEF SInv, StreamTypes, NoWindowSkipped, BufferIsBounded, FreshUntilOpened,
      CloseStream, Open
<1> QED BY <1>1, <1>3, <1>5, <1>6, <1>7, <1>8, <1>10 DEF SInv

(* The provider, the workers and their threads touch no stream and no call. *)
LEMMA OthersInv ==
  ASSUME SInv, IInv', UNCHANGED <<count, client, caller>>, UNCHANGED streamVars
  PROVE  SInv'
<1>1. Jobs' = Jobs /\ Open' = Open
  BY DEF Jobs, Open, streamVars
<1>2. OneScoreAtATime' /\ SnapshotsAreCurrent'
  BY CallsKept DEF streamVars
<1>3. StreamTypes' /\ StateFollowsAudio' /\ LeasesAreExact'
  BY <1>1 DEF SInv, StreamTypes, StateFollowsAudio, LeasesAreExact, streamVars
<1>4. NoWindowSkipped' /\ BufferIsBounded' /\ FreshUntilOpened'
  BY <1>1
  DEF SInv, NoWindowSkipped, BufferIsBounded, FreshUntilOpened, streamVars, Buffered
<1> QED BY <1>1, <1>2, <1>3, <1>4 DEF SInv

-----------------------------------------------------------------------------
LEMMA StreamNextInv == SInv /\ [StreamNext]_allVars => SInv'
<1>1. ASSUME SInv, UNCHANGED allVars PROVE SInv'
  <2>1. IInv'
    BY <1>1, NextInv DEF SInv, allVars
  <2> QED BY <1>1, <2>1, OthersInv DEF allVars, vars
<1>2. ASSUME SInv, Provider, UNCHANGED streamVars PROVE SInv'
  <2>1. IInv'
    BY <1>2, RuntimeInv DEF SInv, StreamNext
  <2> QED
    BY <1>2, <2>1, OthersInv
    DEF Provider, Start, Close, BeginClose, PutStop, EndClose, callVars
<1>3. ASSUME SInv, NEW w \in Workers, Worker(w), UNCHANGED streamVars PROVE SInv'
  <2>1. IInv'
    BY <1>3, RuntimeInv DEF SInv, StreamNext
  <2> QED
    BY <1>3, <2>1, OthersInv DEF Worker, Take, EnterGate, Return, Resume, callVars
<1> QED
  BY <1>1, <1>2, <1>3, NewStreamInv, ScoreHeldInv, ScoreSubmitInv, ScoreRefusedInv,
     ResetInv, CloseStreamInv, ScoreAnsweredInv, ScoreAbandonedInv
  DEF StreamNext

LEMMA StreamInvariant == StreamSpec => []SInv
BY StreamInitInv, StreamNextInv, PTL DEF StreamSpec

(* The recurrent state of an open stream has absorbed exactly the audio     *)
(* discarded in its epoch, whatever is reset, abandoned or answered late.   *)
THEOREM StateIsTheAudio == StreamSpec => []StateFollowsAudio
<1>1. SInv => StateFollowsAudio
  BY DEF SInv
<1> QED BY <1>1, StreamInvariant, PTL

(* A stream that takes its next frame has scored every complete window.     *)
THEOREM EveryWindowIsScored == StreamSpec => []NoWindowSkipped
<1>1. SInv => NoWindowSkipped
  BY DEF SInv
<1> QED BY <1>1, StreamInvariant, PTL

(* There are as many leases as open streams, and at most max_streams.       *)
THEOREM LeasesMatchStreams == StreamSpec => []LeasesAreExact
<1>1. SInv => LeasesAreExact
  BY DEF SInv
<1> QED BY <1>1, StreamInvariant, PTL

-----------------------------------------------------------------------------
(* The benchmark.                                                           *)

LEMMA BenchConstants ==
  /\ Clients = 1..Maximum
  /\ Maximum \in Nat \ {0} /\ RssStreams \in Nat \ {0} /\ Rounds \in Nat \ {0}
  /\ Length \in Nat \ {0}
BY BenchAssumption DEF BenchAssumption

(* The midpoint is right of the low end and not beyond the high one.        *)
LEMMA MidpointBounds ==
  ASSUME NEW from \in Nat, NEW to \in Nat, from < to
  PROVE  Midpoint(from, to) \in Nat /\ from < Midpoint(from, to) /\ Midpoint(from, to) <= to
BY DEF Midpoint

(* Closing exactly the streams that are open leaves the new ones.           *)
LEMMA LeasesOfStreams ==
  ASSUME NEW closed \in Nat, leases = closed, NEW opened \in Nat
  PROVE  Leases(closed, opened) = opened
BY DEF Leases

(* A set of numbers that is not empty has a least one.                      *)
LEMMA SmallestOf ==
  ASSUME NEW T, T \subseteq Nat, T # {}
  PROVE  \E x \in T : \A y \in T : x <= y
<1>1. PICK x \in T : \A y \in T : ~(<<y, x>> \in OpToRel(<, Nat))
  BY Zenon, NatLessThanWellFounded, WFMin
<1>2. \A y \in T : ~(y < x)
  BY <1>1 DEF OpToRel
<1> QED BY <1>2

(* One of the streams of the gather is the next to begin.                   *)
LEMMA NextToBegin ==
  ASSUME BenchInv, BeginScore
  PROVE  \E c \in unscored :
           /\ c \in Clients /\ unscored' = unscored \ {c}
           /\ \/ Accept(c) /\ current' = current \cup {count'} /\ UNCHANGED broken
              \/ broken' = TRUE /\ UNCHANGED <<vars, current>>
<1> DEFINE next == CHOOSE c \in unscored : \A d \in unscored : c <= d
<1>1. unscored \subseteq Nat /\ unscored \subseteq Clients /\ unscored # {}
  BY BenchConstants DEF BeginScore, BenchInv, GatherIsAwaited
<1>2. \E c \in unscored : \A d \in unscored : c <= d
  BY <1>1, SmallestOf
<1>3. next \in unscored
  BY <1>2
<1>4. /\ unscored' = unscored \ {next}
      /\ \/ Accept(next) /\ current' = current \cup {count'} /\ UNCHANGED broken
         \/ broken' = TRUE /\ UNCHANGED <<vars, current>>
  BY DEF BeginScore
<1> QED BY <1>1, <1>3, <1>4

(* Every step is one of the runtime, or leaves it alone.                    *)
LEMMA BenchRuntimeInv ==
  ASSUME BenchInv, [BenchNext]_benchVars
  PROVE  IInv'
<1>1. CASE BeginScore
  <2>1. PICK c \in Clients : Accept(c) \/ UNCHANGED vars
    BY <1>1, NextToBegin
  <2>2. [Next]_vars
    BY <2>1 DEF Next
  <2> QED BY <2>2, NextInv DEF BenchInv
<1>2. CASE ~BeginScore
  <2>1. [Next]_vars
    BY <1>2 DEF BenchNext, benchVars, Main, BeginRecording, RejectRecording, NextFrame,
                LastFrame, GiveUpRecording, BeginSearch, NextRound, TrialEnds, TrialFails,
                Record, Search, Leave, CallAnswered, CallExpires, BenchWorker, Next, Close
  <2> QED BY <2>1, NextInv DEF BenchInv
<1> QED BY <1>1, <1>2

(* The loop of the search goes on, or ends where the bracket has closed.    *)
LEMMA SearchGoesOn ==
  ASSUME BenchInv, NEW closed \in Nat, leases = closed, Search(closed), SearchTypes',
         /\ \A a \in attempts' : IF a[2] THEN a[1] <= low' ELSE a[1] > high'
         /\ low' > 0 => <<low', TRUE>> \in attempts'
         /\ high' < Maximum => <<high' + 1, FALSE>> \in attempts'
  PROVE  NothingTried' /\ TrialIsOpen' /\ GatherIsAwaited' /\ LeasesAreHeld' /\ BracketIsRight'
<1>1. /\ low' \in Nat /\ high' \in Nat /\ low' <= high' /\ high' <= Maximum
      /\ Clients = 1..Maximum /\ Maximum \in Nat
  BY BenchConstants DEF SearchTypes
<1>2. CASE Continues(low', high')
  <2> DEFINE candidate == Midpoint(low', high')
  <2>1. /\ Reopen(closed, candidate) /\ BeginGather(1..candidate)
        /\ stage' = "trial" /\ UNCHANGED vars
    BY <1>2 DEF Search
  <2>2. low' < high'
    BY <1>2 DEF Continues
  <2>3. candidate \in Nat /\ candidate <= Maximum
    BY <1>1, <2>2, MidpointBounds
  <2>4. leases' = candidate
    BY <2>1, <2>3, LeasesOfStreams DEF Reopen
  <2>5. TrialIsOpen' /\ LeasesAreHeld'
    BY <2>1, <2>2, <2>4 DEF TrialIsOpen, LeasesAreHeld, BeginGather, Midpoint
  <2>6. GatherIsAwaited'
    <3>1. current' = {} /\ streams' = 1..candidate /\ unscored' = streams'
      BY <2>1 DEF BeginGather
    <3>2. unscored' \subseteq Clients
      BY <1>1, <2>3, <3>1
    <3>3. Cardinality(current') = Cardinality(streams' \ unscored')
      BY <3>1
    <3> QED BY <3>1, <3>2, <3>3 DEF GatherIsAwaited
  <2> QED BY <2>1, <2>5, <2>6 DEF NothingTried, BracketIsRight
<1>3. CASE ~Continues(low', high')
  <2>1. /\ Reopen(closed, 0) /\ stage' = "closing" /\ BeginClose
        /\ UNCHANGED <<unscored, current, broken>>
    BY <1>3 DEF Search
  <2>2. low' = high'
    BY <1>1, <1>3 DEF Continues
  <2>3. leases' = 0
    BY <2>1, LeasesOfStreams DEF Reopen
  <2>4. GatherIsAwaited'
    BY <2>1 DEF GatherIsAwaited, BenchInv, BeginClose, callVars, Jobs
  <2> QED BY <2>1, <2>2, <2>3, <2>4
          DEF NothingTried, TrialIsOpen, LeasesAreHeld, BracketIsRight
<1> QED BY <1>2, <1>3

(* What is left of BenchInv when neither the search nor the gather moves.   *)
LEMMA SearchKept ==
  ASSUME BenchInv, UNCHANGED searchVars
  PROVE  /\ SearchTypes'
         /\ stage' = stage =>
              /\ NothingTried' /\ BracketIsRight'
              /\ leases' = leases => LeasesAreHeld'
              /\ streams' = streams => TrialIsOpen'
BY DEF BenchInv, searchVars, SearchTypes, NothingTried, BracketIsRight, LeasesAreHeld,
       TrialIsOpen

LEMMA BeginRecordingInv == ASSUME BenchInv, BeginRecording PROVE BenchInv'
<1>1. IInv' /\ SearchTypes'
  BY BenchRuntimeInv, SearchKept DEF BeginRecording, BenchNext, Main
<1>2. /\ stage = "new" /\ stage' = "recording" /\ Reopen(0, 1) /\ BeginGather({1})
      /\ UNCHANGED searchVars
  BY DEF BeginRecording
<1>3. leases' = 1
  BY <1>2, LeasesOfStreams DEF BenchInv, LeasesAreHeld, Reopen
<1>4. GatherIsAwaited'
  BY <1>2, BenchConstants DEF GatherIsAwaited, BeginGather
<1> QED BY <1>1, <1>2, <1>3, <1>4
        DEF BenchInv, NothingTried, TrialIsOpen, LeasesAreHeld, BracketIsRight, searchVars

LEMMA RejectRecordingInv == ASSUME BenchInv, RejectRecording PROVE BenchInv'
<1>1. IInv' /\ SearchTypes'
  BY BenchRuntimeInv, SearchKept DEF RejectRecording, BenchNext, Main
<1>2. /\ stage = "new" /\ stage' = "rejected"
      /\ UNCHANGED <<leases, gatherVars, searchVars, count, caller, future>>
  BY DEF RejectRecording, Start, callVars
<1>3. GatherIsAwaited'
  BY <1>2 DEF BenchInv, GatherIsAwaited, gatherVars, Jobs
<1> QED BY <1>1, <1>2, <1>3
        DEF BenchInv, NothingTried, TrialIsOpen, LeasesAreHeld, BracketIsRight, searchVars

LEMMA NextFrameInv == ASSUME BenchInv, NextFrame PROVE BenchInv'
<1>1. IInv' /\ SearchTypes'
  BY BenchRuntimeInv, SearchKept DEF NextFrame, BenchNext, Main
<1>2. /\ stage = "recording" /\ BeginGather({1})
      /\ UNCHANGED <<stage, leases, searchVars>>
  BY DEF NextFrame
<1>3. GatherIsAwaited'
  BY <1>2, BenchConstants DEF GatherIsAwaited, BeginGather
<1> QED BY <1>1, <1>2, <1>3, SearchKept DEF BenchInv, TrialIsOpen

LEMMA LastFrameInv == ASSUME BenchInv, LastFrame PROVE BenchInv'
<1>1. IInv' /\ SearchTypes'
  BY BenchRuntimeInv, SearchKept DEF LastFrame, BenchNext, Main
<1>2. /\ stage = "recording" /\ stage' = "rss" /\ Reopen(1, RssStreams)
      /\ UNCHANGED <<vars, unscored, current, broken, searchVars>>
  BY DEF LastFrame
<1>3. leases' = RssStreams
  BY <1>2, LeasesOfStreams, BenchConstants DEF BenchInv, LeasesAreHeld, Reopen
<1>4. GatherIsAwaited'
  BY <1>2 DEF BenchInv, GatherIsAwaited, vars, Jobs
<1> QED BY <1>1, <1>2, <1>3, <1>4
        DEF BenchInv, NothingTried, TrialIsOpen, LeasesAreHeld, BracketIsRight, searchVars

LEMMA GiveUpRecordingInv == ASSUME BenchInv, GiveUpRecording PROVE BenchInv'
<1>1. IInv' /\ SearchTypes'
  BY BenchRuntimeInv, SearchKept DEF GiveUpRecording, BenchNext, Main
<1>2. /\ stage' = "closing" /\ BeginClose
      /\ UNCHANGED <<unscored, current, broken, searchVars>>
      /\ \/ stage = "rejected" /\ UNCHANGED leases
         \/ stage = "recording" /\ Reopen(1, 0)
  BY DEF GiveUpRecording
<1>3. leases' = 0
  BY <1>2, LeasesOfStreams DEF BenchInv, LeasesAreHeld, Reopen
<1>4. GatherIsAwaited'
  BY <1>2 DEF BenchInv, GatherIsAwaited, BeginClose, callVars, Jobs
<1> QED BY <1>1, <1>2, <1>3, <1>4
        DEF BenchInv, NothingTried, TrialIsOpen, LeasesAreHeld, BracketIsRight, searchVars

LEMMA BeginSearchInv == ASSUME BenchInv, BeginSearch PROVE BenchInv'
<1>1. IInv' /\ SearchTypes'
  BY BenchRuntimeInv, SearchKept DEF BeginSearch, BenchNext, Main
<1>2. stage = "rss" /\ Search(RssStreams) /\ UNCHANGED searchVars
  BY DEF BeginSearch
<1>3. leases = RssStreams /\ RssStreams \in Nat
  BY <1>2, BenchConstants DEF BenchInv, LeasesAreHeld
<1>4. /\ \A a \in attempts' : IF a[2] THEN a[1] <= low' ELSE a[1] > high'
      /\ low' > 0 => <<low', TRUE>> \in attempts'
      /\ high' < Maximum => <<high' + 1, FALSE>> \in attempts'
  BY <1>2 DEF BenchInv, BracketIsRight, searchVars
<1> QED BY <1>1, <1>2, <1>3, <1>4, SearchGoesOn DEF BenchInv

LEMMA NextRoundInv == ASSUME BenchInv, NextRound PROVE BenchInv'
<1>1. IInv' /\ SearchTypes'
  BY BenchRuntimeInv, SearchKept DEF NextRound, BenchNext, Main
<1>2. /\ stage = "trial" /\ BeginGather(streams)
      /\ UNCHANGED <<stage, leases, searchVars>>
  BY DEF NextRound
<1>3. streams = 1..Midpoint(low, high) /\ streams \subseteq Clients
  BY <1>2, MidpointBounds, BenchConstants DEF BenchInv, TrialIsOpen, SearchTypes
<1>4. GatherIsAwaited'
  BY <1>2, <1>3 DEF GatherIsAwaited, BeginGather
<1> QED BY <1>1, <1>2, <1>4, SearchKept DEF BenchInv, BeginGather

(* What the search makes of a trial: the bracket shrinks to what it says.   *)
LEMMA RecordInv ==
  ASSUME BenchInv, IInv', stage = "trial", NEW passed \in BOOLEAN, Record(passed)
  PROVE  BenchInv'
<1> DEFINE candidate == Midpoint(low, high)
<1>1. /\ low \in Nat /\ high \in Nat /\ high <= Maximum /\ low < high
      /\ attempts \subseteq Nat \X BOOLEAN
      /\ streams = 1..candidate
  BY DEF BenchInv, SearchTypes, TrialIsOpen
<1>2. candidate \in Nat /\ low < candidate /\ candidate <= high
  BY <1>1, MidpointBounds
<1> HIDE DEF candidate
<1>3. /\ attempts' = attempts \cup {<<candidate, passed>>}
      /\ low' = IF passed THEN candidate ELSE low
      /\ high' = IF passed THEN high ELSE candidate - 1
      /\ Search(Cardinality(streams))
  BY DEF Record, candidate
<1>4. Cardinality(streams) = candidate
  BY <1>1, <1>2, FS_Interval
<1>5. leases = candidate
  BY DEF BenchInv, LeasesAreHeld, candidate
<1>6. Maximum \in Nat
  BY BenchConstants
<1>7. SearchTypes'
  BY <1>1, <1>2, <1>3, <1>6 DEF SearchTypes
<1>8. \A a \in attempts : /\ a[1] \in Nat /\ a[2] \in BOOLEAN
                          /\ IF a[2] THEN a[1] <= low ELSE a[1] > high
  BY <1>1 DEF BenchInv, BracketIsRight
<1>9. \A a \in attempts' : IF a[2] THEN a[1] <= low' ELSE a[1] > high'
  <2>1. ASSUME NEW a \in attempts PROVE IF a[2] THEN a[1] <= low' ELSE a[1] > high'
    BY <1>1, <1>2, <1>3, <1>8
  <2>2. passed => candidate <= low'
    BY <1>2, <1>3
  <2>3. ~passed => candidate > high'
    BY <1>2, <1>3
  <2> QED BY <1>3, <2>1, <2>2, <2>3
<1>10. low' > 0 => <<low', TRUE>> \in attempts'
  BY <1>1, <1>3 DEF BenchInv, BracketIsRight
<1>11. high' < Maximum => <<high' + 1, FALSE>> \in attempts'
  <2>1. CASE passed
    BY <1>3, <2>1 DEF BenchInv, BracketIsRight
  <2>2. CASE ~passed
    <3>1. high' + 1 = candidate /\ passed = FALSE
      BY <1>2, <1>3, <2>2
    <3> QED BY <1>3, <3>1
  <2> QED BY <2>1, <2>2
<1> QED BY <1>2, <1>3, <1>4, <1>5, <1>7, <1>9, <1>10, <1>11, SearchGoesOn DEF BenchInv

LEMMA TrialOverInv == ASSUME BenchInv, TrialEnds \/ TrialFails PROVE BenchInv'
<1>1. IInv'
  BY BenchRuntimeInv DEF BenchNext, Main
<1> QED BY <1>1, RecordInv DEF TrialEnds, TrialFails

LEMMA LeaveInv == ASSUME BenchInv, Leave PROVE BenchInv'
<1>1. IInv' /\ SearchTypes'
  BY BenchRuntimeInv, SearchKept DEF Leave, BenchNext, Main
<1>2. /\ stage = "closing" /\ stage' \in {"closing", "over"}
      /\ UNCHANGED <<leases, gatherVars, searchVars, count, caller, future>>
  BY DEF Leave, PutStop, EndClose, callVars
<1>3. GatherIsAwaited'
  BY <1>2 DEF BenchInv, GatherIsAwaited, gatherVars, Jobs
<1> QED BY <1>1, <1>2, <1>3
        DEF BenchInv, NothingTried, TrialIsOpen, LeasesAreHeld, BracketIsRight, searchVars

(* The coroutine of a stream begins: one call more, or the gather breaks.   *)
LEMMA BeginScoreInv == ASSUME BenchInv, BeginScore PROVE BenchInv'
<1>1. IInv' /\ SearchTypes'
  BY BenchRuntimeInv, SearchKept DEF BeginScore, BenchNext
<1>2. /\ UNCHANGED <<stage, leases, streams, searchVars>>
      /\ NothingTried' /\ BracketIsRight' /\ LeasesAreHeld' /\ TrialIsOpen'
  BY SearchKept DEF BeginScore
<1>3. PICK c \in unscored :
        /\ unscored' = unscored \ {c}
        /\ \/ Accept(c) /\ current' = current \cup {count'} /\ UNCHANGED broken
           \/ broken' = TRUE /\ UNCHANGED <<vars, current>>
  BY NextToBegin
<1>4. CASE broken' = TRUE /\ UNCHANGED <<vars, current>>
  <2>1. GatherIsAwaited'
    BY <1>2, <1>3, <1>4 DEF BenchInv, GatherIsAwaited, vars, Jobs
  <2> QED BY <1>1, <1>2, <2>1 DEF BenchInv
<1>5. CASE Accept(c) /\ current' = current \cup {count'} /\ UNCHANGED broken
  <2>1. /\ count \in Nat /\ count' = count + 1
        /\ caller' = Extend(caller, "awaiting") /\ future' = Extend(future, "pending")
    BY <1>5 DEF Accept, BenchInv, IInv, TypeOK
  <2>2. /\ Jobs' = Jobs \cup {count'} /\ count' \notin Jobs
        /\ caller'[count'] = "awaiting"
        /\ \A j \in Jobs : caller'[j] = caller[j] /\ future'[j] = future[j]
    BY <2>1 DEF Jobs, Extend
  <2>3. current \subseteq Jobs /\ IsFiniteSet(current)
    <3>1. current \subseteq Jobs
      BY DEF BenchInv, GatherIsAwaited
    <3>2. IsFiniteSet(Jobs)
      BY <2>1, FS_Interval DEF Jobs
    <3> QED BY <3>1, <3>2, FS_Subset
  <2>4. /\ current' \subseteq Jobs' /\ unscored' \subseteq Clients
        /\ ~broken' => \A j \in current' : caller'[j] = "answered" => future'[j] = "result"
    BY <1>3, <1>5, <2>2, <2>3 DEF BenchInv, GatherIsAwaited
  <2>5. ASSUME stage = "trial", ~broken
        PROVE  Cardinality(current') = Cardinality(streams \ unscored')
    <3>1. Cardinality(current') = Cardinality(current) + 1
      BY <1>5, <2>2, <2>3, FS_AddElement
    <3>2. /\ c \in streams /\ streams \ unscored' = (streams \ unscored) \cup {c}
          /\ c \notin streams \ unscored
      BY <1>3, <2>5 DEF BenchInv, GatherIsAwaited
    <3>3. IsFiniteSet(streams \ unscored)
      <4>1. Midpoint(low, high) \in Nat /\ streams = 1..Midpoint(low, high)
        BY <2>5, MidpointBounds DEF BenchInv, TrialIsOpen, SearchTypes
      <4>2. IsFiniteSet(streams)
        BY <4>1, FS_Interval
      <4>3. streams \ unscored \subseteq streams
        OBVIOUS
      <4> QED BY <4>2, <4>3, FS_Subset
    <3>4. Cardinality(streams \ unscored') = Cardinality(streams \ unscored) + 1
      BY <3>2, <3>3, FS_AddElement
    <3> QED BY <2>5, <3>1, <3>4 DEF BenchInv, GatherIsAwaited
  <2> QED BY <1>1, <1>2, <1>3, <1>5, <2>4, <2>5 DEF BenchInv, GatherIsAwaited
<1> QED BY <1>3, <1>4, <1>5

(* A call ends, for the gather or for nobody; a worker moves.               *)
LEMMA CallInv ==
  ASSUME BenchInv, \/ \E j \in Jobs : CallAnswered(j) \/ CallExpires(j)
                   \/ \E w \in Workers : BenchWorker(w)
  PROVE  BenchInv'
<1>1. IInv' /\ SearchTypes'
  BY BenchRuntimeInv, SearchKept DEF CallAnswered, CallExpires, BenchWorker, BenchNext
<1>2. /\ UNCHANGED <<stage, leases, streams, unscored, current, searchVars>>
      /\ NothingTried' /\ BracketIsRight' /\ LeasesAreHeld' /\ TrialIsOpen'
  BY SearchKept DEF CallAnswered, CallExpires, BenchWorker, gatherVars
<1>3. TypeOK /\ current \subseteq Jobs
  BY DEF BenchInv, IInv, GatherIsAwaited
<1>4. ASSUME NEW j \in Jobs, CallAnswered(j) PROVE GatherIsAwaited'
  <2>1. /\ Jobs' = Jobs /\ future' = future
        /\ caller' = [caller EXCEPT ![j] = "answered"]
        /\ broken' = (broken \/ (j \in current /\ future[j] # "result"))
    BY <1>4 DEF CallAnswered, Answer, Breaks, Jobs
  <2> QED BY <1>2, <1>3, <2>1 DEF BenchInv, GatherIsAwaited, TypeOK
<1>5. ASSUME NEW j \in Jobs, CallExpires(j) PROVE GatherIsAwaited'
  <2>1. /\ Jobs' = Jobs /\ future' = Settle(j, "cancelled")
        /\ caller' = [caller EXCEPT ![j] = "gone"]
        /\ broken' = (broken \/ j \in current)
    BY <1>5 DEF CallExpires, GiveUp, Jobs
  <2>2. \A k \in Jobs : k # j => future'[k] = future[k]
    BY <1>3, <2>1, SettleEffect
  <2> QED BY <1>2, <1>3, <2>1, <2>2 DEF BenchInv, GatherIsAwaited, TypeOK
<1>6. ASSUME NEW w \in Workers, BenchWorker(w) PROVE GatherIsAwaited'
  <2>1. Jobs' = Jobs /\ caller' = caller /\ broken' = broken
    BY <1>6 DEF BenchWorker, Worker, Take, EnterGate, Return, Resume, callVars, gatherVars, Jobs
  <2>2. \A k \in Jobs : future[k] = "result" => future'[k] = "result"
    BY <1>3, <1>6 DEF BenchWorker, Worker, Take, EnterGate, Return, Resume, Settle, TypeOK,
                      Pending
  <2> QED BY <1>2, <1>3, <2>1, <2>2 DEF BenchInv, GatherIsAwaited
<1> QED BY <1>1, <1>2, <1>4, <1>5, <1>6 DEF BenchInv

LEMMA BenchInitInv == BenchInit => BenchInv
<1> SUFFICES ASSUME BenchInit PROVE BenchInv
  OBVIOUS
<1>1. IInv
  BY InitInv DEF BenchInit
<1>2. /\ stage = "new" /\ leases = 0 /\ unscored = {} /\ current = {}
      /\ low = 0 /\ high = Maximum /\ attempts = {}
  BY DEF BenchInit
<1> QED BY <1>1, <1>2, BenchConstants
        DEF BenchInv, SearchTypes, NothingTried, TrialIsOpen, GatherIsAwaited,
            LeasesAreHeld, BracketIsRight

LEMMA BenchNextInv == BenchInv /\ [BenchNext]_benchVars => BenchInv'
<1>1. ASSUME BenchInv, UNCHANGED benchVars PROVE BenchInv'
  <2>1. IInv'
    BY <1>1, BenchRuntimeInv
  <2> QED BY <1>1, <2>1
          DEF benchVars, vars, gatherVars, searchVars, BenchInv, SearchTypes, NothingTried,
              TrialIsOpen, GatherIsAwaited, LeasesAreHeld, BracketIsRight, Jobs
<1> QED
  BY <1>1, BeginRecordingInv, RejectRecordingInv, NextFrameInv, LastFrameInv,
     GiveUpRecordingInv, BeginSearchInv, NextRoundInv, TrialOverInv, LeaveInv,
     BeginScoreInv, CallInv
  DEF BenchNext, Main

LEMMA BenchInvariant == BenchSpec => []BenchInv
BY BenchInitInv, BenchNextInv, PTL DEF BenchSpec

(* The search reports what it saw: it ends next to a failed trial or at its *)
(* bound, and a trial whose gather has returned had one call for each of    *)
(* its streams, its own, and a result from every one; for every bound of    *)
(* the search and every delay, refusal and failure of the runtime.          *)
THEOREM SearchReportsWhatItSaw == BenchSpec => []SearchIsExact
<1>1. BenchInv => SearchIsExact
  <2> SUFFICES ASSUME BenchInv, stage = "trial", GatherReturns
               PROVE  /\ Cardinality(current) = Midpoint(low, high)
                      /\ \A j \in current : future[j] = "result"
    BY DEF BenchInv, SearchIsExact
  <2>1. unscored = {} /\ ~broken /\ \A j \in current : caller[j] = "answered"
    BY DEF GatherReturns
  <2>2. Midpoint(low, high) \in Nat /\ streams = 1..Midpoint(low, high)
    BY MidpointBounds DEF BenchInv, TrialIsOpen, SearchTypes
  <2>3. Cardinality(current) = Cardinality(streams)
    BY <2>1 DEF BenchInv, GatherIsAwaited
  <2>4. Cardinality(streams) = Midpoint(low, high)
    BY <2>2, FS_Interval
  <2> QED BY <2>1, <2>3, <2>4 DEF BenchInv, GatherIsAwaited
<1> QED BY <1>1, BenchInvariant, PTL

(* The benchmark never holds more leases than it has streams open, and has  *)
(* given all of them back before it closes the provider.                    *)
THEOREM BenchGivesLeasesBack ==
  BenchSpec => [](stage \in {"closing", "over"} => leases = 0)
<1>1. BenchInv => (stage \in {"closing", "over"} => leases = 0)
  BY DEF BenchInv, LeasesAreHeld
<1> QED BY <1>1, BenchInvariant, PTL

-----------------------------------------------------------------------------
(* The segments of a recording.                                             *)

\* A run, half open, that begins at frame a and goes on up to b;
Opens(flags, a, b) ==
  /\ a \in 1..Len(flags) /\ b \in (a + 1)..(Len(flags) + 1)
  /\ \A k \in a..(b - 1) : flags[k]
  /\ a = 1 \/ ~flags[a - 1]

\* and one that ends there.
IsRun(flags, a, b) == Opens(flags, a, b) /\ (b = Len(flags) + 1 \/ ~flags[b])

(* Runs that share a frame are one.                                         *)
LEMMA OneRun ==
  ASSUME NEW f \in Seq(BOOLEAN), NEW a, NEW b, NEW c, NEW d, NEW i \in Int,
         IsRun(f, a, b), IsRun(f, c, d), a <= i, i < b, c <= i, i < d
  PROVE  a = c /\ b = d
<1>1. /\ a \in Int /\ b \in Int /\ c \in Int /\ d \in Int /\ Len(f) \in Nat
      /\ 1 <= a /\ b <= Len(f) + 1 /\ 1 <= c /\ d <= Len(f) + 1
      /\ \A k \in Int : a <= k /\ k < b => f[k]
      /\ \A k \in Int : c <= k /\ k < d => f[k]
      /\ (a = 1 \/ ~f[a - 1]) /\ (c = 1 \/ ~f[c - 1])
      /\ (b = Len(f) + 1 \/ ~f[b]) /\ (d = Len(f) + 1 \/ ~f[d])
  BY DEF IsRun, Opens
<1>2. ~(a < c) /\ ~(c < a)
  BY <1>1
<1>3. ~(b < d) /\ ~(d < b)
  BY <1>1
<1> QED BY <1>1, <1>2, <1>3

(* Every set frame lies in a run, the one from its StartOf to its EndOf.    *)
LEMMA RunAround ==
  ASSUME NEW f \in Seq(BOOLEAN), NEW i \in Frames(f)
  PROVE  /\ StartOf(f, i) \in 1..i /\ EndOf(f, i) \in i..Len(f)
         /\ IsRun(f, StartOf(f, i), EndOf(f, i) + 1)
<1> DEFINE n == Len(f)
           T == {a \in 1..i : \A k \in a..i : f[k]}
           U == {b \in i..n : ~AllSet(f, i, b + 1)}
<1>1. n \in Nat /\ i \in 1..n /\ f[i]
  BY DEF Frames
<1>2. \E a \in 1..i : AllSet(f, a, i) /\ ~AllSet(f, a - 1, i)
  <2>1. i \in T /\ T \subseteq Nat
    BY <1>1
  <2>2. PICK a \in T : \A y \in T : a <= y
    BY <2>1, SmallestOf
  <2>3. a - 1 \notin T
    BY <2>1, <2>2
  <2> QED BY <1>1, <2>2, <2>3 DEF AllSet
<1>3. \E b \in i..n : AllSet(f, i, b) /\ ~AllSet(f, i, b + 1)
  <2>1. n \in U /\ U \subseteq Nat
    BY <1>1 DEF AllSet
  <2>2. PICK b \in U : \A y \in U : b <= y
    BY <2>1, SmallestOf
  <2>3. AllSet(f, i, b)
    <3>1. CASE b = i
      BY <1>1, <3>1 DEF AllSet
    <3>2. CASE b # i
      <4>1. b - 1 \in i..n /\ b - 1 \notin U
        <5>1. b \in i..n /\ b \in Nat
          BY <2>1, <2>2
        <5>2. b - 1 \notin U
          BY <2>2, <5>1
        <5> QED BY <1>1, <3>2, <5>1, <5>2
      <4>2. AllSet(f, i, (b - 1) + 1) /\ (b - 1) + 1 = b
        BY <1>1, <2>2, <4>1
      <4> QED BY <4>2
    <3> QED BY <3>1, <3>2
  <2> QED BY <2>2, <2>3
<1> HIDE DEF T, U
<1>4. /\ StartOf(f, i) \in 1..i
      /\ AllSet(f, StartOf(f, i), i) /\ ~AllSet(f, StartOf(f, i) - 1, i)
  BY <1>2 DEF StartOf
<1>5. /\ EndOf(f, i) \in i..n
      /\ AllSet(f, i, EndOf(f, i)) /\ ~AllSet(f, i, EndOf(f, i) + 1)
  BY <1>3 DEF EndOf
<1>6. Opens(f, StartOf(f, i), EndOf(f, i) + 1)
  <2>1. \A k \in StartOf(f, i)..EndOf(f, i) : f[k]
    BY <1>1, <1>4, <1>5 DEF AllSet
  <2>2. StartOf(f, i) = 1 \/ ~f[StartOf(f, i) - 1]
    BY <1>1, <1>4 DEF AllSet
  <2> QED BY <1>1, <1>4, <1>5, <2>1, <2>2 DEF Opens
<1>7. EndOf(f, i) + 1 = n + 1 \/ ~f[EndOf(f, i) + 1]
  BY <1>1, <1>5 DEF AllSet
<1> QED BY <1>4, <1>5, <1>6, <1>7 DEF IsRun

LEMMA RunOf ==
  ASSUME NEW f \in Seq(BOOLEAN), NEW a, NEW b, NEW i \in Int,
         IsRun(f, a, b), a <= i, i < b
  PROVE  i \in Frames(f) /\ a = StartOf(f, i) /\ b = EndOf(f, i) + 1
<1>1. i \in Frames(f)
  BY DEF IsRun, Opens, Frames
<1> QED BY <1>1, RunAround, OneRun

-----------------------------------------------------------------------------
(* true_runs.                                                               *)

PassStart == [runs |-> <<>>, start |-> 0]

\* g is the pass over the first m flags.
Passes(f, g, m) ==
  g = [i \in 0..m |-> IF i = 0 THEN PassStart ELSE NextFlag(g[i - 1], f[i], i)]

LEMMA PassExists ==
  ASSUME NEW f, NEW n \in Nat
  PROVE  \E g : Passes(f, g, n)
<1> DEFINE T == {m \in Nat : ~\E g : Passes(f, g, m)}
<1> SUFFICES ASSUME T # {} PROVE FALSE
  OBVIOUS
<1>1. PICK m \in T : \A y \in T : m <= y
  BY SmallestOf
<1>2. CASE m = 0
  <2> DEFINE g == [i \in 0..0 |-> PassStart]
  <2>1. Passes(f, g, 0)
    BY DEF Passes
  <2> QED BY <1>1, <1>2, <2>1
<1>3. CASE m # 0
  <2>1. m - 1 \in Nat /\ m - 1 \notin T
    BY <1>1, <1>3
  <2>2. PICK g : Passes(f, g, m - 1)
    BY <2>1
  <2> DEFINE h == [i \in 0..m |-> IF i = m THEN NextFlag(g[m - 1], f[m], m) ELSE g[i]]
  <2>3. \A i \in 0..m : h[i] = IF i = 0 THEN PassStart ELSE NextFlag(h[i - 1], f[i], i)
    <3> SUFFICES ASSUME NEW i \in 0..m
                 PROVE  h[i] = IF i = 0 THEN PassStart ELSE NextFlag(h[i - 1], f[i], i)
      OBVIOUS
    <3>1. CASE i = m
      <4>1. h[i] = NextFlag(g[m - 1], f[m], m) /\ h[m - 1] = g[m - 1]
        BY <1>3, <2>1, <3>1
      <4> QED BY <1>3, <3>1, <4>1
    <3>2. CASE i # m
      <4>1. i \in 0..(m - 1)
        BY <2>1, <3>2
      <4>2. g[i] = IF i = 0 THEN PassStart ELSE NextFlag(g[i - 1], f[i], i)
        BY <2>2, <4>1 DEF Passes
      <4>3. h[i] = g[i] /\ (i # 0 => h[i - 1] = g[i - 1])
        BY <2>1, <4>1
      <4> QED BY <4>2, <4>3
    <3> QED BY <3>1, <3>2
  <2>4. Passes(f, h, m)
    BY <2>3 DEF Passes
  <2> QED BY <1>1, <2>4
<1> QED BY <1>2, <1>3

LEMMA TrueRunsUnfolds ==
  ASSUME NEW f
  PROVE  LET end == (CHOOSE g : Passes(f, g, Len(f)))[Len(f)]
         IN TrueRuns(f) = IF end.start = 0 THEN end.runs
                          ELSE Append(end.runs, <<end.start, Len(f) + 1>>)
BY Zenon DEF TrueRuns, Passes, PassStart

\* The runs that end up to i, in order.
Found(f, runs, i) ==
  /\ runs \in Seq(Nat \X Nat)
  /\ \A j \in DOMAIN runs : IsRun(f, runs[j][1], runs[j][2]) /\ runs[j][2] <= i
  /\ \A j, k \in DOMAIN runs : j < k => runs[j][2] < runs[k][1]
  /\ \A a, b \in Nat : IsRun(f, a, b) /\ b <= i => \E j \in DOMAIN runs : runs[j] = <<a, b>>

\* What the pass has found when it has seen the first i flags.
PassInv(f, acc, i) ==
  /\ acc \in [runs : Seq(Nat \X Nat), start : 0..i]
  /\ Found(f, acc.runs, i)
  /\ acc.start = 0 => i = 0 \/ ~f[i]
  /\ acc.start # 0 =>
       /\ Opens(f, acc.start, i + 1)
       /\ \A j \in DOMAIN acc.runs : acc.runs[j][2] < acc.start

(* A run goes on as long as its frames are set.                             *)
LEMMA OpensOn ==
  ASSUME NEW f \in Seq(BOOLEAN), NEW i \in 1..Len(f), f[i]
  PROVE  /\ \A a : Opens(f, a, i) => Opens(f, a, i + 1)
         /\ i = 1 \/ ~f[i - 1] => Opens(f, i, i + 1)
BY DEF Opens

LEMMA AppendRun ==
  ASSUME NEW runs \in Seq(Nat \X Nat), NEW r \in Nat \X Nat
  PROVE  /\ Append(runs, r) \in Seq(Nat \X Nat)
         /\ DOMAIN runs = 1..Len(runs) /\ Len(runs) \in Nat
         /\ DOMAIN Append(runs, r) = 1..(Len(runs) + 1)
         /\ \A j \in 1..Len(runs) : Append(runs, r)[j] = runs[j]
         /\ Append(runs, r)[Len(runs) + 1] = r
OBVIOUS

LEMMA FoundOn ==
  ASSUME NEW f \in Seq(BOOLEAN), NEW i \in Nat, NEW runs, Found(f, runs, i - 1),
         \A a \in Nat : ~IsRun(f, a, i)
  PROVE  Found(f, runs, i)
<1>1. \A j \in DOMAIN runs : runs[j][2] \in Nat
  BY DEF Found
<1>2. \A a, b \in Nat : IsRun(f, a, b) /\ b <= i => b <= i - 1
  OBVIOUS
<1> QED BY <1>1, <1>2 DEF Found

LEMMA FoundMore ==
  ASSUME NEW f \in Seq(BOOLEAN), NEW i \in Nat, NEW runs, Found(f, runs, i - 1),
         NEW c \in Nat, IsRun(f, c, i), \A j \in DOMAIN runs : runs[j][2] < c
  PROVE  Found(f, Append(runs, <<c, i>>), i)
<1> DEFINE r == <<c, i>>
           more == Append(runs, r)
<1>1. runs \in Seq(Nat \X Nat) /\ r \in Nat \X Nat
  BY DEF Found
<1>2. /\ more \in Seq(Nat \X Nat) /\ Len(runs) \in Nat
      /\ DOMAIN runs = 1..Len(runs) /\ DOMAIN more = 1..(Len(runs) + 1)
      /\ \A j \in 1..Len(runs) : more[j] = runs[j]
      /\ more[Len(runs) + 1] = r
  BY <1>1, AppendRun
<1>3. \A j \in 1..Len(runs) :
        /\ IsRun(f, runs[j][1], runs[j][2])
        /\ runs[j][1] \in Nat /\ runs[j][2] \in Nat
        /\ runs[j][2] <= i - 1 /\ runs[j][2] < c
  <2>1. \A j \in 1..Len(runs) : runs[j] \in Nat \X Nat
    BY <1>1, <1>2
  <2>2. \A j \in 1..Len(runs) : IsRun(f, runs[j][1], runs[j][2]) /\ runs[j][2] <= i - 1
    BY <1>2 DEF Found
  <2>3. \A j \in 1..Len(runs) : runs[j][2] < c
    BY <1>2
  <2>4. \A j \in 1..Len(runs) : runs[j][1] \in Nat /\ runs[j][2] \in Nat
    BY <2>1
  <2> QED BY <2>2, <2>3, <2>4
<1>4. \A j, k \in 1..Len(runs) : j < k => runs[j][2] < runs[k][1]
  BY <1>2 DEF Found
<1>5. \A a, b \in Nat : IsRun(f, a, b) /\ b <= i =>
        <<a, b>> = r \/ \E j \in 1..Len(runs) : runs[j] = <<a, b>>
  <2> SUFFICES ASSUME NEW a \in Nat, NEW b \in Nat, IsRun(f, a, b), b <= i
               PROVE  <<a, b>> = r \/ \E j \in 1..Len(runs) : runs[j] = <<a, b>>
    OBVIOUS
  <2>1. CASE b <= i - 1
    BY <1>2, <2>1 DEF Found
  <2>2. CASE b = i
    <3>1. a <= i - 1 /\ c <= i - 1 /\ i - 1 < i /\ i - 1 \in Int
      BY <2>2 DEF IsRun, Opens
    <3>2. a = c
      BY <2>2, <3>1, OneRun
    <3> QED BY <2>2, <3>2
  <2> QED BY <2>1, <2>2
<1>6. r[1] = c /\ r[2] = i
  OBVIOUS
<1>7. /\ Len(runs) \in Nat /\ DOMAIN more = 1..(Len(runs) + 1)
      /\ more \in Seq(Nat \X Nat)
  BY <1>2
<1>8. \A j \in 1..Len(runs) : more[j] = runs[j]
  BY <1>2
<1>9. more[Len(runs) + 1] = r
  BY <1>2
<1> HIDE DEF r, more
<1>10. \A j \in 1..Len(runs) :
         /\ IsRun(f, more[j][1], more[j][2])
         /\ more[j][1] \in Nat /\ more[j][2] \in Nat
         /\ more[j][2] <= i - 1 /\ more[j][2] < c
  BY <1>3, <1>8
<1>11. \A j, k \in 1..Len(runs) : j < k => more[j][2] < more[k][1]
  BY <1>4, <1>8
<1>12. IsRun(f, more[Len(runs) + 1][1], more[Len(runs) + 1][2]) /\ more[Len(runs) + 1][2] = i
       /\ more[Len(runs) + 1][1] = c
  BY <1>6, <1>9
<1>13. \A j \in 1..(Len(runs) + 1) : j \in 1..Len(runs) \/ j = Len(runs) + 1
  BY <1>7
<1>14. \A j \in DOMAIN more : IsRun(f, more[j][1], more[j][2]) /\ more[j][2] <= i
  <2> SUFFICES ASSUME NEW j \in 1..(Len(runs) + 1)
               PROVE  IsRun(f, more[j][1], more[j][2]) /\ more[j][2] <= i
    BY <1>7
  <2>1. CASE j = Len(runs) + 1
    BY <1>12, <2>1
  <2>2. CASE j \in 1..Len(runs)
    BY <1>10, <2>2
  <2> QED BY <1>13, <2>1, <2>2
<1>15. \A j, k \in DOMAIN more : j < k => more[j][2] < more[k][1]
  <2> SUFFICES ASSUME NEW j \in 1..(Len(runs) + 1), NEW k \in 1..(Len(runs) + 1), j < k
               PROVE  more[j][2] < more[k][1]
    BY <1>7
  <2>1. j \in 1..Len(runs)
    BY <1>7
  <2>2. CASE k = Len(runs) + 1
    BY <1>10, <1>12, <2>1, <2>2
  <2>3. CASE k \in 1..Len(runs)
    BY <1>11, <2>1, <2>3
  <2> QED BY <1>13, <2>2, <2>3
<1>16. \A a, b \in Nat : IsRun(f, a, b) /\ b <= i => \E j \in DOMAIN more : more[j] = <<a, b>>
  <2> SUFFICES ASSUME NEW a \in Nat, NEW b \in Nat, IsRun(f, a, b), b <= i
               PROVE  \E j \in 1..(Len(runs) + 1) : more[j] = <<a, b>>
    BY <1>7
  <2>1. CASE <<a, b>> = r
    <3>1. Len(runs) + 1 \in 1..(Len(runs) + 1)
      BY <1>7
    <3> QED BY <1>9, <2>1, <3>1
  <2>2. CASE \E j \in 1..Len(runs) : runs[j] = <<a, b>>
    <3>1. PICK j \in 1..Len(runs) : runs[j] = <<a, b>>
      BY <2>2
    <3>2. j \in 1..(Len(runs) + 1)
      BY <1>7
    <3>3. more[j] = <<a, b>>
      BY <1>8, <3>1
    <3> QED BY <3>2, <3>3
  <2> QED BY <1>5, <2>1, <2>2
<1>17. Found(f, more, i)
  BY <1>7, <1>14, <1>15, <1>16 DEF Found
<1> QED BY <1>17 DEF more, r

LEMMA PassStep ==
  ASSUME NEW f \in Seq(BOOLEAN), NEW i \in 1..Len(f), NEW acc, PassInv(f, acc, i - 1)
  PROVE  PassInv(f, NextFlag(acc, f[i], i), i)
<1> DEFINE runs == acc.runs
           new == NextFlag(acc, f[i], i)
<1>1. /\ acc \in [runs : Seq(Nat \X Nat), start : 0..(i - 1)]
      /\ runs \in Seq(Nat \X Nat) /\ acc.start \in 0..(i - 1)
      /\ i \in Nat /\ Found(f, runs, i - 1)
  BY DEF PassInv
<1>2. \A j \in DOMAIN runs : runs[j][2] \in Nat /\ runs[j][2] <= i - 1
  BY <1>1 DEF Found
<1>3. CASE f[i]
  <2>1. Found(f, runs, i)
    <3>1. \A a \in Nat : ~IsRun(f, a, i)
      BY <1>3 DEF IsRun, Opens
    <3> QED BY <1>1, <3>1, FoundOn
  <2>2. CASE acc.start = 0
    <3>1. new = [acc EXCEPT !.start = i]
      BY <1>3, <2>2 DEF NextFlag
    <3>2. new = [runs |-> runs, start |-> i]
      BY <1>1, <3>1
    <3>3. Opens(f, i, i + 1)
      <4>1. i = 1 \/ ~f[i - 1]
        BY <2>2 DEF PassInv
      <4> QED BY <1>3, <4>1, OpensOn
    <3>4. \A j \in DOMAIN runs : runs[j][2] < i
      BY <1>2
    <3>5. /\ new.runs = runs /\ new.start = i /\ i # 0
          /\ new \in [runs : Seq(Nat \X Nat), start : 0..i]
      BY <1>1, <3>2
    <3> HIDE DEF new, runs
    <3>6. PassInv(f, new, i)
      BY <2>1, <3>3, <3>4, <3>5 DEF PassInv
    <3> QED BY <3>6 DEF new
  <2>3. CASE acc.start # 0
    <3>1. new = acc
      BY <1>3, <2>3 DEF NextFlag
    <3>2. Opens(f, acc.start, i + 1) /\ \A j \in DOMAIN runs : runs[j][2] < acc.start
      <4>1. Opens(f, acc.start, i) /\ \A j \in DOMAIN runs : runs[j][2] < acc.start
        BY <2>3 DEF PassInv
      <4> QED BY <1>3, <4>1, OpensOn
    <3>3. acc \in [runs : Seq(Nat \X Nat), start : 0..i]
      BY <1>1
    <3>4. PassInv(f, acc, i)
      BY <2>1, <2>3, <3>2, <3>3 DEF PassInv
    <3> QED BY <3>1, <3>4
  <2> QED BY <2>2, <2>3
<1>4. CASE ~f[i]
  <2>1. CASE acc.start = 0
    <3>1. new = acc
      BY <1>4, <2>1 DEF NextFlag
    <3>2. Found(f, runs, i)
      <4>1. i = 1 \/ ~f[i - 1]
        BY <2>1 DEF PassInv
      <4>2. \A a \in Nat : ~IsRun(f, a, i)
        BY <4>1 DEF IsRun, Opens
      <4> QED BY <1>1, <4>2, FoundOn
    <3>3. acc \in [runs : Seq(Nat \X Nat), start : 0..i]
      BY <1>1
    <3>4. PassInv(f, acc, i)
      BY <1>4, <2>1, <3>2, <3>3 DEF PassInv
    <3> QED BY <3>1, <3>4
  <2>2. CASE acc.start # 0
    <3>1. new = [runs |-> Append(runs, <<acc.start, i>>), start |-> 0]
      BY <1>4, <2>2 DEF NextFlag
    <3>2. IsRun(f, acc.start, i) /\ \A j \in DOMAIN runs : runs[j][2] < acc.start
      BY <1>4, <2>2 DEF PassInv, IsRun
    <3>3. Found(f, Append(runs, <<acc.start, i>>), i)
      BY <1>1, <3>2, FoundMore
    <3>4. new.start = 0 /\ new.runs = Append(runs, <<acc.start, i>>)
      BY <3>1
    <3>5. new \in [runs : Seq(Nat \X Nat), start : 0..i]
      BY <1>1, <3>1, <3>3 DEF Found
    <3> HIDE DEF new, runs
    <3>6. PassInv(f, new, i)
      BY <1>4, <3>3, <3>4, <3>5 DEF PassInv
    <3> QED BY <3>6 DEF new
  <2> QED BY <2>1, <2>2
<1> QED BY <1>3, <1>4

LEMMA PassHolds ==
  ASSUME NEW f \in Seq(BOOLEAN), NEW g, Passes(f, g, Len(f))
  PROVE  PassInv(f, g[Len(f)], Len(f))
<1> DEFINE T == {i \in 0..Len(f) : ~PassInv(f, g[i], i)}
<1>1. Len(f) \in Nat
  OBVIOUS
<1>2. \A i \in 0..Len(f) : g[i] = IF i = 0 THEN PassStart ELSE NextFlag(g[i - 1], f[i], i)
  BY DEF Passes
<1>3. PassInv(f, g[0], 0)
  <2>1. g[0] = PassStart
    BY <1>1, <1>2
  <2>2. PassStart \in [runs : Seq(Nat \X Nat), start : 0..0]
    BY DEF PassStart
  <2>3. \A a, b \in Nat : IsRun(f, a, b) => b > 0
    BY DEF IsRun, Opens
  <2>4. Found(f, <<>>, 0)
    BY <2>3 DEF Found
  <2> QED BY <2>1, <2>2, <2>4 DEF PassInv, PassStart
<1>4. T = {}
  <2> SUFFICES ASSUME T # {} PROVE FALSE
    OBVIOUS
  <2>0. T \subseteq Nat
    BY <1>1
  <2>1. PICK i \in T : \A y \in T : i <= y
    BY <2>0, SmallestOf
  <2>2. i \in 1..Len(f)
    BY <1>1, <1>3, <2>1
  <2>3. PassInv(f, g[i - 1], i - 1)
    BY <1>1, <2>1, <2>2
  <2>4. PassInv(f, g[i], i)
    BY <1>2, <2>2, <2>3, PassStep
  <2> QED BY <2>1, <2>4
<1> QED BY <1>1, <1>4

(* true_runs returns the runs of its flags, all of them and in order.       *)
LEMMA TrueRunsFound ==
  ASSUME NEW f \in Seq(BOOLEAN)
  PROVE  Found(f, TrueRuns(f), Len(f) + 1)
<1> DEFINE end == (CHOOSE g : Passes(f, g, Len(f)))[Len(f)]
<1>1. Len(f) \in Nat /\ (Len(f) + 1) - 1 = Len(f) /\ Len(f) + 1 \in Nat
  OBVIOUS
<1>2. PassInv(f, end, Len(f))
  <2>1. \E g : Passes(f, g, Len(f))
    BY <1>1, PassExists
  <2>2. Passes(f, CHOOSE g : Passes(f, g, Len(f)), Len(f))
    BY Zenon, <2>1
  <2> QED BY <2>2, PassHolds
<1>3. TrueRuns(f) = IF end.start = 0 THEN end.runs
                    ELSE Append(end.runs, <<end.start, Len(f) + 1>>)
  BY Zenon, TrueRunsUnfolds
<1> HIDE DEF end
<1>4. CASE end.start = 0
  <2>1. \A a \in Nat : ~IsRun(f, a, Len(f) + 1)
    <3>1. Len(f) = 0 \/ ~f[Len(f)]
      BY <1>2, <1>4 DEF PassInv
    <3> QED BY <3>1 DEF IsRun, Opens
  <2>2. Found(f, end.runs, Len(f) + 1)
    BY <1>1, <1>2, <2>1, FoundOn DEF PassInv
  <2> QED BY <1>3, <1>4, <2>2
<1>5. CASE end.start # 0
  <2>1. /\ end.start \in Nat /\ IsRun(f, end.start, Len(f) + 1)
        /\ \A j \in DOMAIN end.runs : end.runs[j][2] < end.start
        /\ Found(f, end.runs, Len(f))
    BY <1>2, <1>5 DEF PassInv, IsRun
  <2>2. Found(f, Append(end.runs, <<end.start, Len(f) + 1>>), Len(f) + 1)
    BY <1>1, <2>1, FoundMore
  <2> QED BY <1>3, <1>5, <2>2
<1> QED BY <1>4, <1>5

(* What is used of it: every run is listed, and what is listed is a run.    *)
LEMMA RunsListed ==
  ASSUME NEW f \in Seq(BOOLEAN)
  PROVE  /\ TrueRuns(f) \in Seq(Nat \X Nat)
         /\ DOMAIN TrueRuns(f) = 1..Len(TrueRuns(f)) /\ Len(TrueRuns(f)) \in Nat
         /\ \A k \in DOMAIN TrueRuns(f) :
              /\ TrueRuns(f)[k] = <<TrueRuns(f)[k][1], TrueRuns(f)[k][2]>>
              /\ IsRun(f, TrueRuns(f)[k][1], TrueRuns(f)[k][2])
              /\ TrueRuns(f)[k][1] \in 1..Len(f) /\ TrueRuns(f)[k][2] \in 1..(Len(f) + 1)
              /\ TrueRuns(f)[k][1] < TrueRuns(f)[k][2]
         /\ \A j, k \in DOMAIN TrueRuns(f) : j < k => TrueRuns(f)[j][2] < TrueRuns(f)[k][1]
         /\ \A i \in Frames(f) : \E k \in DOMAIN TrueRuns(f) :
              TrueRuns(f)[k] = <<StartOf(f, i), EndOf(f, i) + 1>>
<1> DEFINE runs == TrueRuns(f)
<1>1. Found(f, runs, Len(f) + 1)
  BY TrueRunsFound
<1> HIDE DEF runs
<1>2. runs \in Seq(Nat \X Nat) /\ DOMAIN runs = 1..Len(runs) /\ Len(runs) \in Nat
  BY <1>1 DEF Found
<1>3. \A k \in DOMAIN runs : runs[k] = <<runs[k][1], runs[k][2]>>
  BY <1>2
<1>4. \A k \in DOMAIN runs : IsRun(f, runs[k][1], runs[k][2])
  BY <1>1 DEF Found
<1>5. \A k \in DOMAIN runs :
        /\ runs[k][1] \in 1..Len(f) /\ runs[k][2] \in 1..(Len(f) + 1)
        /\ runs[k][1] < runs[k][2]
  BY <1>4 DEF IsRun, Opens
<1>6. \A j, k \in DOMAIN runs : j < k => runs[j][2] < runs[k][1]
  BY <1>1 DEF Found
<1>7. \A i \in Frames(f) : \E k \in DOMAIN runs : runs[k] = <<StartOf(f, i), EndOf(f, i) + 1>>
  <2> SUFFICES ASSUME NEW i \in Frames(f)
               PROVE  \E k \in DOMAIN runs : runs[k] = <<StartOf(f, i), EndOf(f, i) + 1>>
    OBVIOUS
  <2>1. /\ IsRun(f, StartOf(f, i), EndOf(f, i) + 1) /\ i \in Nat
        /\ StartOf(f, i) \in Nat /\ EndOf(f, i) + 1 \in Nat
        /\ EndOf(f, i) + 1 <= Len(f) + 1
    BY RunAround DEF Frames
  <2> QED BY <1>1, <2>1 DEF Found
<1> QED BY <1>2, <1>3, <1>4, <1>5, <1>6, <1>7 DEF runs

-----------------------------------------------------------------------------
(* segment_delays.                                                          *)

LEMMA LargestOf ==
  ASSUME NEW a \in Nat, NEW b \in Nat, NEW T, T \subseteq a..b, T # {}
  PROVE  \E x \in T : \A y \in T : x >= y
<1> DEFINE U == {b - x : x \in T}
<1>1. U \subseteq Nat /\ U # {}
  <2>1. \A x \in T : x \in Nat /\ b - x \in Nat
    OBVIOUS
  <2>2. U # {}
    OBVIOUS
  <2> HIDE DEF U
  <2> QED BY <2>1, <2>2 DEF U
<1>2. PICK u \in U : \A v \in U : u <= v
  BY <1>1, SmallestOf
<1>3. PICK x \in T : u = b - x
  BY <1>2
<1>4. \A y \in T : b - x <= b - y
  BY <1>2, <1>3
<1>5. \A y \in T : x >= y
  BY <1>4
<1> QED BY <1>5

\* The predicted runs that overlap the labelled run k; the segment it stands for.
Overlapping(reference, predicted, k) ==
  {j \in DOMAIN TrueRuns(predicted) : Overlaps(TrueRuns(predicted)[j], TrueRuns(reference)[k])}
SegmentAt(reference, k) == <<TrueRuns(reference)[k][1], TrueRuns(reference)[k][2] - 1>>

(* Segments are runs, and the other way round.                              *)
LEMMA SegmentsAreRuns ==
  ASSUME NEW f \in Seq(BOOLEAN)
  PROVE  Segments(f) = {SegmentAt(f, k) : k \in DOMAIN TrueRuns(f)}
<1>1. ASSUME NEW k \in DOMAIN TrueRuns(f) PROVE SegmentAt(f, k) \in Segments(f)
  <2> DEFINE a == TrueRuns(f)[k][1]
             b == TrueRuns(f)[k][2]
  <2>1. IsRun(f, a, b) /\ a \in Int /\ b \in Int /\ a <= a /\ a < b
    BY RunsListed
  <2>2. a \in Frames(f) /\ a = StartOf(f, a) /\ b = EndOf(f, a) + 1
    BY <2>1, RunOf
  <2>3. EndOf(f, a) \in Int
    BY <2>2, RunAround DEF Frames
  <2>4. b - 1 = EndOf(f, a)
    BY <2>1, <2>2, <2>3
  <2>5. SegmentAt(f, k) = <<StartOf(f, a), EndOf(f, a)>>
    BY <2>2, <2>4 DEF SegmentAt
  <2> QED BY <2>2, <2>5 DEF Segments
<1>2. ASSUME NEW i \in Frames(f)
      PROVE  \E k \in DOMAIN TrueRuns(f) : <<StartOf(f, i), EndOf(f, i)>> = SegmentAt(f, k)
  <2>1. PICK k \in DOMAIN TrueRuns(f) : TrueRuns(f)[k] = <<StartOf(f, i), EndOf(f, i) + 1>>
    BY RunsListed
  <2>2. EndOf(f, i) \in Int
    BY RunAround DEF Frames
  <2> QED BY <2>1, <2>2 DEF SegmentAt
<1> QED BY <1>1, <1>2 DEF Segments

(* A predicted run overlaps a segment exactly if it holds one of its hits.  *)
LEMMA OverlapIsHit ==
  ASSUME NEW p \in Seq(BOOLEAN), NEW a \in 1..Len(p), NEW b \in a..Len(p),
         NEW c \in Nat, NEW d \in Nat, IsRun(p, c, d)
  PROVE  Overlaps(<<c, d>>, <<a, b + 1>>) <=>
           \E i \in Hits(p, <<a, b>>) : c <= i /\ i < d
<1> DEFINE i == IF c <= a THEN a ELSE c
<1>1. /\ c \in 1..Len(p) /\ c < d /\ Len(p) \in Nat
      /\ \A k \in Nat : c <= k /\ k < d => p[k]
  BY DEF IsRun, Opens
<1>2. ASSUME Overlaps(<<c, d>>, <<a, b + 1>>)
      PROVE  i \in Hits(p, <<a, b>>) /\ c <= i /\ i < d
  <2>1. c < b + 1 /\ d > a
    BY <1>2 DEF Overlaps
  <2>2. i \in Nat /\ i \in a..b /\ c <= i /\ i < d
    BY <1>1, <2>1
  <2>3. p[i]
    BY <1>1, <2>2
  <2> HIDE DEF i
  <2> QED BY <2>2, <2>3 DEF Hits
<1>3. ASSUME NEW h \in Hits(p, <<a, b>>), c <= h, h < d
      PROVE  Overlaps(<<c, d>>, <<a, b + 1>>)
  <2>1. h \in a..b
    BY DEF Hits
  <2> QED BY <1>1, <1>3, <2>1 DEF Overlaps
<1> QED BY <1>2, <1>3

(* The first and the last run that overlap a labelled one are those around  *)
(* its first and its last hit.                                              *)
LEMMA DelaysOfSegment ==
  ASSUME NEW r \in Seq(BOOLEAN), NEW p \in Seq(BOOLEAN), Len(r) = Len(p),
         NEW k \in DOMAIN TrueRuns(r)
  PROVE  LET found == Overlapping(r, p, k)
             hits  == Hits(p, SegmentAt(r, k))
         IN /\ found # {} <=> hits # {}
            /\ hits # {} =>
                 /\ TrueRuns(p)[Min(found)][1] = StartOf(p, Min(hits))
                 /\ TrueRuns(p)[Max(found)][2] = EndOf(p, Max(hits)) + 1
<1> DEFINE runs  == TrueRuns(p)
           a     == TrueRuns(r)[k][1]
           b     == TrueRuns(r)[k][2] - 1
           found == Overlapping(r, p, k)
           hits  == Hits(p, SegmentAt(r, k))
<1>1. /\ a \in 1..Len(p) /\ b \in a..Len(p) /\ Len(p) \in Nat
      /\ SegmentAt(r, k) = <<a, b>> /\ TrueRuns(r)[k] = <<a, b + 1>>
  <2>1. /\ TrueRuns(r)[k] = <<TrueRuns(r)[k][1], TrueRuns(r)[k][2]>>
        /\ TrueRuns(r)[k][1] \in 1..Len(r) /\ TrueRuns(r)[k][2] \in 1..(Len(r) + 1)
        /\ TrueRuns(r)[k][1] < TrueRuns(r)[k][2]
    BY RunsListed
  <2> QED BY <2>1 DEF SegmentAt
<1>2. \A j \in DOMAIN runs :
        /\ runs[j] = <<runs[j][1], runs[j][2]>> /\ IsRun(p, runs[j][1], runs[j][2])
        /\ runs[j][1] \in Nat /\ runs[j][2] \in Nat
  BY RunsListed
<1>3. /\ \A j, l \in DOMAIN runs : j < l => runs[j][2] < runs[l][1]
      /\ DOMAIN runs = 1..Len(runs) /\ Len(runs) \in Nat
  BY RunsListed
<1>4. \A i \in Frames(p) : \E j \in DOMAIN runs : runs[j] = <<StartOf(p, i), EndOf(p, i) + 1>>
  BY RunsListed
<1>5. hits = Hits(p, <<a, b>>) /\ found = {j \in DOMAIN runs : Overlaps(runs[j], <<a, b + 1>>)}
  BY <1>1 DEF Overlapping
<1> HIDE DEF runs, a, b, found, hits
<1>6. hits \subseteq a..b /\ hits \subseteq Frames(p)
  BY <1>1, <1>5 DEF Hits, Frames
<1>7. \A j \in DOMAIN runs :
        j \in found <=> \E i \in hits : runs[j][1] <= i /\ i < runs[j][2]
  <2> SUFFICES ASSUME NEW j \in DOMAIN runs
               PROVE  j \in found <=> \E i \in hits : runs[j][1] <= i /\ i < runs[j][2]
    OBVIOUS
  <2>1. /\ runs[j] = <<runs[j][1], runs[j][2]>> /\ IsRun(p, runs[j][1], runs[j][2])
        /\ runs[j][1] \in Nat /\ runs[j][2] \in Nat
    BY <1>2
  <2>2. Overlaps(<<runs[j][1], runs[j][2]>>, <<a, b + 1>>) <=>
          \E i \in Hits(p, <<a, b>>) : runs[j][1] <= i /\ i < runs[j][2]
    BY <1>1, <2>1, OverlapIsHit
  <2> QED BY <1>5, <2>1, <2>2
<1>8. ASSUME NEW i \in hits
      PROVE  \E j \in found : /\ runs[j][1] = StartOf(p, i) /\ runs[j][2] = EndOf(p, i) + 1
                              /\ runs[j][1] <= i /\ i < runs[j][2]
  <2>1. i \in Frames(p)
    BY <1>6
  <2>2. PICK j \in DOMAIN runs : runs[j] = <<StartOf(p, i), EndOf(p, i) + 1>>
    BY <1>4, <2>1
  <2>3. StartOf(p, i) \in 1..i /\ EndOf(p, i) \in i..Len(p) /\ i \in Nat
    BY <1>1, <2>1, RunAround DEF Frames
  <2>4. runs[j][1] = StartOf(p, i) /\ runs[j][2] = EndOf(p, i) + 1
    BY <2>2
  <2>5. runs[j][1] <= i /\ i < runs[j][2]
    BY <1>1, <2>3, <2>4
  <2> QED BY <1>7, <2>4, <2>5
<1>9. found # {} <=> hits # {}
  <2>1. found # {} => hits # {}
    BY <1>5, <1>7
  <2>2. hits # {} => found # {}
    BY <1>8
  <2> QED BY <2>1, <2>2
<1>10. ASSUME hits # {}
       PROVE  runs[Min(found)][1] = StartOf(p, Min(hits))
  <2> DEFINE i == Min(hits)
  <2>1. hits \subseteq Nat
    BY <1>1, <1>6
  <2>2. \E x \in hits : \A y \in hits : x <= y
    BY <1>10, <2>1, SmallestOf
  <2>3. i \in hits /\ \A y \in hits : i <= y
    BY <2>2 DEF Min
  <2> HIDE DEF i
  <2>4. PICK j \in found : runs[j][1] = StartOf(p, i) /\ runs[j][1] <= i /\ i < runs[j][2]
    BY <1>8, <2>3
  <2>5. \A l \in found : j <= l
    <3> SUFFICES ASSUME NEW l \in found, ~(j <= l) PROVE FALSE
      OBVIOUS
    <3>1. j \in DOMAIN runs /\ l \in DOMAIN runs
      BY <1>5
    <3>2. l < j
      BY <1>3, <3>1
    <3>3. runs[l][2] < runs[j][1]
      BY <1>3, <3>1, <3>2
    <3>4. PICK h \in hits : runs[l][1] <= h /\ h < runs[l][2]
      BY <1>7, <3>1
    <3>5. i <= h /\ i \in Nat /\ h \in Nat
      BY <2>1, <2>3
    <3>6. runs[l][2] \in Nat /\ runs[j][1] \in Nat
      BY <1>2, <3>1
    <3> QED BY <2>4, <3>3, <3>4, <3>5, <3>6
  <2>6. found \subseteq Nat
    BY <1>3, <1>5
  <2>7. Min(found) = j
    <3>1. \E x \in found : \A y \in found : x <= y
      BY <2>5
    <3>2. Min(found) \in found /\ \A y \in found : Min(found) <= y
      BY <3>1 DEF Min
    <3>3. j \in Nat /\ Min(found) \in Nat /\ Min(found) <= j /\ j <= Min(found)
      BY <2>5, <2>6, <3>2
    <3> QED BY <3>3
  <2> QED BY <2>4, <2>7 DEF i
<1>11. ASSUME hits # {}
       PROVE  runs[Max(found)][2] = EndOf(p, Max(hits)) + 1
  <2> DEFINE i == Max(hits)
  <2>1. hits \subseteq Nat /\ a \in Nat /\ b \in Nat
    BY <1>1, <1>6
  <2>2. \E x \in hits : \A y \in hits : x >= y
    BY <1>6, <1>11, <2>1, LargestOf
  <2>3. i \in hits /\ \A y \in hits : i >= y
    BY <2>2 DEF Max
  <2> HIDE DEF i
  <2>4. PICK j \in found : runs[j][2] = EndOf(p, i) + 1 /\ runs[j][1] <= i /\ i < runs[j][2]
    BY <1>8, <2>3
  <2>5. \A l \in found : j >= l
    <3> SUFFICES ASSUME NEW l \in found, ~(j >= l) PROVE FALSE
      OBVIOUS
    <3>1. j \in DOMAIN runs /\ l \in DOMAIN runs
      BY <1>5
    <3>2. j < l
      BY <1>3, <3>1
    <3>3. runs[j][2] < runs[l][1]
      BY <1>3, <3>1, <3>2
    <3>4. PICK h \in hits : runs[l][1] <= h /\ h < runs[l][2]
      BY <1>7, <3>1
    <3>5. i >= h /\ i \in Nat /\ h \in Nat
      BY <2>1, <2>3
    <3>6. runs[j][2] \in Nat /\ runs[l][1] \in Nat
      BY <1>2, <3>1
    <3> QED BY <2>4, <3>3, <3>4, <3>5, <3>6
  <2>6. found \subseteq Nat
    BY <1>3, <1>5
  <2>7. Max(found) = j
    <3>1. \E x \in found : \A y \in found : x >= y
      BY <2>5
    <3>2. Max(found) \in found /\ \A y \in found : Max(found) >= y
      BY <3>1 DEF Max
    <3>3. j \in Nat /\ Max(found) \in Nat /\ Max(found) >= j /\ j >= Max(found)
      BY <2>5, <2>6, <3>2
    <3> QED BY <3>3
  <2> QED BY <2>4, <2>7 DEF i
<1> QED BY <1>9, <1>10, <1>11 DEF runs, found, hits

LEMMA SegmentsDiffer ==
  ASSUME NEW f \in Seq(BOOLEAN), NEW j \in DOMAIN TrueRuns(f), NEW k \in DOMAIN TrueRuns(f),
         TrueRuns(f)[j][1] = TrueRuns(f)[k][1]
  PROVE  j = k
<1>1. /\ ~(j < k) /\ ~(k < j)
  <2>1. /\ TrueRuns(f)[j][1] < TrueRuns(f)[j][2] /\ TrueRuns(f)[k][1] < TrueRuns(f)[k][2]
        /\ TrueRuns(f)[j][1] \in Int /\ TrueRuns(f)[j][2] \in Int
        /\ TrueRuns(f)[k][1] \in Int /\ TrueRuns(f)[k][2] \in Int
        /\ j < k => TrueRuns(f)[j][2] < TrueRuns(f)[k][1]
        /\ k < j => TrueRuns(f)[k][2] < TrueRuns(f)[j][1]
    BY RunsListed
  <2> QED BY <2>1
<1>2. j \in Int /\ k \in Int
  BY RunsListed
<1> QED BY <1>1, <1>2

-----------------------------------------------------------------------------
(* The four claims of MetricsAgree.                                         *)

LEMMA DelaysAre ==
  ASSUME NEW r, NEW p
  PROVE  /\ DOMAIN SegmentDelays(r, p) = {k \in DOMAIN TrueRuns(r) : Overlapping(r, p, k) # {}}
         /\ \A k \in DOMAIN SegmentDelays(r, p) :
              SegmentDelays(r, p)[k] =
                [onset    |-> TrueRuns(p)[Min(Overlapping(r, p, k))][1] - TrueRuns(r)[k][1],
                 endpoint |-> TrueRuns(p)[Max(Overlapping(r, p, k))][2] - TrueRuns(r)[k][2]]
BY DEF SegmentDelays, Overlapping

LEMMA DetectedSegments ==
  ASSUME NEW r \in Seq(BOOLEAN), NEW p \in Seq(BOOLEAN), Len(r) = Len(p)
  PROVE  DOMAIN SegmentDelays(r, p) = {k \in DOMAIN TrueRuns(r) : Hits(p, SegmentAt(r, k)) # {}}
<1>1. \A k \in DOMAIN TrueRuns(r) :
        Overlapping(r, p, k) # {} <=> Hits(p, SegmentAt(r, k)) # {}
  BY DelaysOfSegment
<1>2. DOMAIN SegmentDelays(r, p) = {k \in DOMAIN TrueRuns(r) : Overlapping(r, p, k) # {}}
  BY DelaysAre
<1> QED BY <1>1, <1>2

LEMMA DetectedCounted ==
  ASSUME NEW r \in Seq(BOOLEAN), NEW p \in Seq(BOOLEAN), Len(r) = Len(p)
  PROVE  Cardinality(DOMAIN SegmentDelays(r, p)) = Cardinality(Detected(r, p))
<1> DEFINE D == DOMAIN SegmentDelays(r, p)
           h == [k \in D |-> SegmentAt(r, k)]
<1>1. D = {k \in DOMAIN TrueRuns(r) : Hits(p, SegmentAt(r, k)) # {}}
  BY DetectedSegments
<1>2. Detected(r, p) = {s \in {SegmentAt(r, k) : k \in DOMAIN TrueRuns(r)} : Hits(p, s) # {}}
  BY SegmentsAreRuns DEF Detected
<1>3. IsFiniteSet(D)
  <2>1. IsFiniteSet(DOMAIN TrueRuns(r))
    BY RunsListed, FS_Interval
  <2> QED BY <1>1, <2>1, FS_Subset
<1> HIDE DEF D
<1>4. h \in [D -> Detected(r, p)]
  BY <1>1, <1>2
<1>5. ASSUME NEW j \in D, NEW k \in D, h[j] = h[k] PROVE j = k
  <2>1. SegmentAt(r, j) = SegmentAt(r, k)
    BY <1>5
  <2>2. TrueRuns(r)[j][1] = TrueRuns(r)[k][1]
    BY <2>1 DEF SegmentAt
  <2> QED BY <1>1, <2>2, SegmentsDiffer
<1>6. \A s \in Detected(r, p) : \E k \in D : h[k] = s
  BY <1>1, <1>2
<1> HIDE DEF h
<1>7. h \in Bijection(D, Detected(r, p))
  BY <1>4, <1>5, <1>6 DEF Bijection, Injection, Surjection, IsInjective
<1>8. ExistsBijection(D, Detected(r, p))
  BY <1>7 DEF ExistsBijection
<1> QED BY <1>3, <1>8, FS_Bijection DEF D

LEMMA HitsAreFrames ==
  ASSUME NEW r \in Seq(BOOLEAN), NEW p \in Seq(BOOLEAN), Len(r) = Len(p),
         NEW k \in DOMAIN TrueRuns(r), Hits(p, SegmentAt(r, k)) # {}
  PROVE  Max(Hits(p, SegmentAt(r, k))) \in Frames(p)
<1> DEFINE a == TrueRuns(r)[k][1]
           b == TrueRuns(r)[k][2] - 1
           hits == Hits(p, SegmentAt(r, k))
<1>1. a \in Nat /\ a \in 1..Len(p) /\ b \in Nat /\ b <= Len(p)
  <2>1. /\ TrueRuns(r)[k][1] \in 1..Len(r) /\ TrueRuns(r)[k][2] \in 1..(Len(r) + 1)
        /\ Len(r) \in Nat
    BY RunsListed
  <2> QED BY <2>1
<1>2. hits \subseteq a..b /\ hits \subseteq Frames(p)
  BY <1>1 DEF Hits, SegmentAt, Frames
<1> HIDE DEF a, b, hits
<1>3. hits # {}
  BY DEF hits
<1>4. \E x \in hits : \A y \in hits : x >= y
  BY <1>1, <1>2, <1>3, LargestOf
<1>5. Max(hits) \in hits
  BY <1>4 DEF Max
<1> QED BY <1>2, <1>5 DEF hits

LEMMA DelaysOfDetected ==
  ASSUME NEW r \in Seq(BOOLEAN), NEW p \in Seq(BOOLEAN), Len(r) = Len(p)
  PROVE  Range(SegmentDelays(r, p)) =
           {[onset    |-> StartOf(p, Min(Hits(p, s))) - s[1],
             endpoint |-> EndOf(p, Max(Hits(p, s))) - s[2]] : s \in Detected(r, p)}
<1> DEFINE D == DOMAIN SegmentDelays(r, p)
           delay(s) == [onset    |-> StartOf(p, Min(Hits(p, s))) - s[1],
                        endpoint |-> EndOf(p, Max(Hits(p, s))) - s[2]]
<1>1. D = {k \in DOMAIN TrueRuns(r) : Hits(p, SegmentAt(r, k)) # {}}
  BY DetectedSegments
<1>2. Detected(r, p) = {SegmentAt(r, k) : k \in D}
  <2>1. Detected(r, p) = {s \in {SegmentAt(r, k) : k \in DOMAIN TrueRuns(r)} : Hits(p, s) # {}}
    BY SegmentsAreRuns DEF Detected
  <2> QED BY <1>1, <2>1
<1>3. ASSUME NEW k \in D PROVE SegmentDelays(r, p)[k] = delay(SegmentAt(r, k))
  <2> DEFINE hits == Hits(p, SegmentAt(r, k))
             b    == TrueRuns(r)[k][2]
             e    == EndOf(p, Max(hits))
             x    == TrueRuns(p)[Max(Overlapping(r, p, k))][2]
  <2>1. k \in DOMAIN TrueRuns(r) /\ hits # {}
    BY <1>1
  <2>2. /\ TrueRuns(p)[Min(Overlapping(r, p, k))][1] = StartOf(p, Min(hits))
        /\ x = e + 1
    BY <2>1, DelaysOfSegment
  <2>3. SegmentDelays(r, p)[k] =
          [onset    |-> TrueRuns(p)[Min(Overlapping(r, p, k))][1] - TrueRuns(r)[k][1],
           endpoint |-> x - b]
    BY DelaysAre
  <2>4. Max(hits) \in Frames(p)
    BY <2>1, HitsAreFrames
  <2>5. e \in Int /\ b \in Int
    BY <2>1, <2>4, RunAround, RunsListed DEF Frames
  <2>6. x - b = e - (b - 1)
    <3> HIDE DEF e, b, x
    <3> QED BY <2>2, <2>5
  <2>7. SegmentAt(r, k)[1] = TrueRuns(r)[k][1] /\ SegmentAt(r, k)[2] = b - 1
    BY DEF SegmentAt
  <2> HIDE DEF hits, b, x
  <2> QED BY <2>2, <2>3, <2>6, <2>7 DEF hits
<1>4. Range(SegmentDelays(r, p)) = {SegmentDelays(r, p)[k] : k \in D}
  BY DEF Range
<1> HIDE DEF D, delay
<1>5. Range(SegmentDelays(r, p)) = {delay(s) : s \in Detected(r, p)}
  BY <1>2, <1>3, <1>4
<1> QED BY <1>5 DEF delay

(* false_activation_count: the runs without a labelled frame are those       *)
(* nobody reaches from one.                                                  *)
LEMMA FalseActivationsCounted ==
  ASSUME NEW r \in Seq(BOOLEAN), NEW p \in Seq(BOOLEAN), Len(r) = Len(p)
  PROVE  Cardinality(FalseActivations(r, p)) =
           Cardinality({StartOf(p, i) : i \in Frames(p)}
             \ {StartOf(p, i) : i \in Frames(p) \cap Frames(r)})
<1> DEFINE G == {StartOf(p, i) : i \in Frames(p)} \ {StartOf(p, i) : i \in Frames(p) \cap Frames(r)}
           F == FalseActivations(r, p)
           h == [x \in G |-> <<x, EndOf(p, x) + 1>>]
<1>1. F = {run \in {TrueRuns(p)[k] : k \in DOMAIN TrueRuns(p)} :
             \A i \in run[1]..(run[2] - 1) : ~r[i]}
  BY DEF FalseActivations, ToSet
<1>2. ASSUME NEW x \in G
      PROVE  x \in Frames(p) /\ x = StartOf(p, x) /\ x \in Nat
  <2>1. PICK i \in Frames(p) : x = StartOf(p, i)
    OBVIOUS
  <2>2. /\ StartOf(p, i) \in 1..i /\ EndOf(p, i) \in i..Len(p) /\ i \in Nat
        /\ IsRun(p, StartOf(p, i), EndOf(p, i) + 1)
    BY RunAround DEF Frames
  <2>3. x \in Int /\ x \in Nat /\ x <= x /\ x < EndOf(p, i) + 1
    BY <2>1, <2>2
  <2> QED BY <2>1, <2>2, <2>3, RunOf
<1>3. ASSUME NEW x \in G PROVE h[x] \in F
  <2>1. x \in Frames(p) /\ x = StartOf(p, x) /\ x \in Nat
    BY <1>2
  <2>2. /\ EndOf(p, x) \in x..Len(p) /\ EndOf(p, x) \in Int /\ Len(p) \in Nat
        /\ IsRun(p, x, EndOf(p, x) + 1)
    BY <2>1, RunAround
  <2>3. \E k \in DOMAIN TrueRuns(p) : <<x, EndOf(p, x) + 1>> = TrueRuns(p)[k]
    BY <2>1, RunsListed
  <2>4. ASSUME NEW j \in x..EndOf(p, x) PROVE ~r[j]
    <3>1. j \in Int /\ x <= j /\ j < EndOf(p, x) + 1 /\ j \in 1..Len(p)
      <4>1. x \in 1..Len(p)
        BY <2>1 DEF Frames
      <4> QED BY <2>2, <4>1
    <3>2. j \in Frames(p) /\ x = StartOf(p, j)
      BY <2>2, <3>1, RunOf
    <3>3. r[j] => j \in Frames(r)
      BY <3>1 DEF Frames
    <3> QED BY <3>2, <3>3
  <2>5. (EndOf(p, x) + 1) - 1 = EndOf(p, x)
    BY <2>2
  <2> HIDE DEF G, F
  <2>6. h[x] = <<x, EndOf(p, x) + 1>>
    OBVIOUS
  <2> HIDE DEF h
  <2> QED BY <1>1, <2>3, <2>4, <2>5, <2>6
<1>4. ASSUME NEW run \in F PROVE \E x \in G : h[x] = run
  <2>1. PICK k \in DOMAIN TrueRuns(p) : run = TrueRuns(p)[k]
    BY <1>1
  <2>2. \A i \in run[1]..(run[2] - 1) : ~r[i]
    BY <1>1
  <2> DEFINE a == run[1]
             b == run[2]
  <2>3. /\ run = <<a, b>> /\ IsRun(p, a, b) /\ a \in Int /\ b \in Int /\ a <= a /\ a < b
    BY <2>1, RunsListed
  <2> HIDE DEF a, b
  <2>4. a \in Frames(p) /\ a = StartOf(p, a) /\ b = EndOf(p, a) + 1
    BY <2>3, RunOf
  <2>5. ASSUME NEW j \in Frames(p) \cap Frames(r), a = StartOf(p, j) PROVE FALSE
    <3>1. /\ IsRun(p, a, EndOf(p, j) + 1) /\ EndOf(p, j) \in j..Len(p) /\ a \in 1..j
          /\ j \in Int /\ Len(p) \in Int
      BY <2>5, RunAround DEF Frames
    <3>2. a <= a /\ a < EndOf(p, j) + 1 /\ EndOf(p, j) \in Int /\ a <= j
      BY <2>3, <3>1
    <3>3. b = EndOf(p, j) + 1
      BY <2>3, <3>1, <3>2, OneRun
    <3>4. j \in a..(b - 1)
      BY <2>3, <3>1, <3>2, <3>3
    <3>5. ~r[j]
      BY <2>2, <3>4 DEF a, b
    <3> QED BY <3>5 DEF Frames
  <2>6. a \in G
    BY <2>4, <2>5
  <2> HIDE DEF G, F
  <2>7. h[a] = run
    BY <2>3, <2>4, <2>6
  <2> QED BY <2>6, <2>7
<1>5. IsFiniteSet(G)
  <2>1. G \subseteq 1..Len(p)
    BY <1>2 DEF Frames
  <2>2. IsFiniteSet(1..Len(p))
    BY FS_Interval
  <2> QED BY <2>1, <2>2, FS_Subset
<1> HIDE DEF G, F
<1>6. h \in [G -> F]
  BY <1>3
<1>7. ASSUME NEW x \in G, NEW y \in G, h[x] = h[y] PROVE x = y
  BY <1>7
<1> HIDE DEF h
<1>8. h \in Bijection(G, F)
  BY <1>4, <1>6, <1>7 DEF Bijection, Injection, Surjection, IsInjective
<1>9. ExistsBijection(G, F)
  BY <1>8 DEF ExistsBijection
<1> QED BY <1>5, <1>9, FS_Bijection DEF F, G

LEMMA DisjointUnion ==
  ASSUME NEW S, NEW T, IsFiniteSet(S), IsFiniteSet(T), S \cap T = {}
  PROVE  /\ IsFiniteSet(S \cup T)
         /\ Cardinality(S \cup T) = Cardinality(S) + Cardinality(T)
<1>1. /\ IsFiniteSet(S \cup T)
      /\ Cardinality(S \cup T) = Cardinality(S) + Cardinality(T) - Cardinality({})
  BY FS_Union
<1>2. Cardinality({}) = 0
  BY FS_EmptySet
<1>3. Cardinality(S) \in Nat /\ Cardinality(T) \in Nat
  BY FS_CardinalityType
<1> QED BY <1>1, <1>2, <1>3

(* confusion_counts counts every frame once.                                 *)
LEMMA FramesCounted ==
  ASSUME NEW r \in Seq(BOOLEAN), NEW p \in Seq(BOOLEAN), Len(r) = Len(p)
  PROVE  Len(p) = Confusion(r, p, TRUE, TRUE) + Confusion(r, p, TRUE, FALSE)
                    + Confusion(r, p, FALSE, TRUE) + Confusion(r, p, FALSE, FALSE)
<1> DEFINE C(e, a) == {i \in DOMAIN p : r[i] = e /\ p[i] = a}
           tt == C(TRUE, TRUE)
           tf == C(TRUE, FALSE)
           ft == C(FALSE, TRUE)
           ff == C(FALSE, FALSE)
<1>1. /\ DOMAIN p = 1..Len(p) /\ Len(p) \in Nat
      /\ \A i \in DOMAIN p : r[i] \in BOOLEAN /\ p[i] \in BOOLEAN
  OBVIOUS
<1>2. IsFiniteSet(DOMAIN p) /\ Cardinality(DOMAIN p) = Len(p)
  <2>1. 1 \in Int /\ Len(p) \in Int
    BY <1>1
  <2>2. IsFiniteSet(1..Len(p)) /\ Cardinality(1..Len(p)) = IF 1 > Len(p) THEN 0 ELSE Len(p) - 1 + 1
    BY Zenon, <2>1, FS_Interval
  <2> QED BY <1>1, <2>2
<1>3. /\ DOMAIN p = (tt \cup tf) \cup (ft \cup ff)
      /\ tt \cap tf = {} /\ ft \cap ff = {} /\ (tt \cup tf) \cap (ft \cup ff) = {}
  BY <1>1
<1>4. /\ Confusion(r, p, TRUE, TRUE) = Cardinality(tt)
      /\ Confusion(r, p, TRUE, FALSE) = Cardinality(tf)
      /\ Confusion(r, p, FALSE, TRUE) = Cardinality(ft)
      /\ Confusion(r, p, FALSE, FALSE) = Cardinality(ff)
  BY DEF Confusion
<1> HIDE DEF tt, tf, ft, ff
<1>5. IsFiniteSet(tt) /\ IsFiniteSet(tf) /\ IsFiniteSet(ft) /\ IsFiniteSet(ff)
  <2>1. tt \subseteq DOMAIN p /\ tf \subseteq DOMAIN p /\ ft \subseteq DOMAIN p /\ ff \subseteq DOMAIN p
    BY <1>3
  <2> QED BY <1>2, <2>1, FS_Subset
<1>6. /\ IsFiniteSet(tt \cup tf)
      /\ Cardinality(tt \cup tf) = Cardinality(tt) + Cardinality(tf)
  BY <1>3, <1>5, DisjointUnion
<1>7. /\ IsFiniteSet(ft \cup ff)
      /\ Cardinality(ft \cup ff) = Cardinality(ft) + Cardinality(ff)
  BY <1>3, <1>5, DisjointUnion
<1>8. Cardinality(DOMAIN p) = Cardinality(tt \cup tf) + Cardinality(ft \cup ff)
  BY <1>3, <1>6, <1>7, DisjointUnion
<1>9. /\ Cardinality(tt) \in Nat /\ Cardinality(tf) \in Nat
      /\ Cardinality(ft) \in Nat /\ Cardinality(ff) \in Nat
  BY <1>5, FS_CardinalityType
<1>10. Len(p) = Cardinality(tt) + Cardinality(tf) + Cardinality(ft) + Cardinality(ff)
  BY <1>2, <1>6, <1>7, <1>8, <1>9
<1> QED BY Zenon, <1>4, <1>10

(* The metrics are right for any labels and any decisions.                   *)
LEMMA MetricsAlwaysAgree ==
  ASSUME NEW r \in Seq(BOOLEAN), NEW p \in Seq(BOOLEAN), Len(r) = Len(p)
  PROVE  MetricsAgree(r, p)
BY DetectedCounted, DelaysOfDetected, FalseActivationsCounted, FramesCounted DEF MetricsAgree

LEMMA LabelsInit == BenchInit => FramesHaveLabels
<1> SUFFICES ASSUME BenchInit PROVE FramesHaveLabels
  OBVIOUS
<1>1. decisions = <<>> /\ labels \in [1..Length -> BOOLEAN]
  BY DEF BenchInit
<1>2. Length \in Nat
  BY BenchAssumption
<1> QED BY <1>1, <1>2 DEF FramesHaveLabels

LEMMA LabelsNext == FramesHaveLabels /\ [BenchNext]_benchVars => FramesHaveLabels'
<1> SUFFICES ASSUME FramesHaveLabels, [BenchNext]_benchVars PROVE FramesHaveLabels'
  OBVIOUS
<1>1. CASE BeginRecording \/ RejectRecording
  BY <1>1 DEF BeginRecording, RejectRecording, scoreVars, FramesHaveLabels
<1>2. CASE NextFrame \/ LastFrame
  <2>1. PICK speech \in BOOLEAN : decisions' = Append(decisions, speech)
    BY <1>2 DEF NextFrame, LastFrame, Decide
  <2>2. decisions' \in Seq(BOOLEAN)
    BY <2>1 DEF FramesHaveLabels
  <2>3. stage = "recording" /\ labels' = labels
    BY <1>2 DEF NextFrame, LastFrame
  <2>4. Len(decisions') < Length \/ Len(decisions') = Length
    BY <1>2 DEF NextFrame, LastFrame
  <2>5. Len(decisions') \in Nat /\ Length \in Nat
    BY <2>2, BenchAssumption
  <2> QED BY <2>2, <2>3, <2>4, <2>5 DEF FramesHaveLabels
<1>3. CASE GiveUpRecording \/ Leave
  BY <1>3 DEF GiveUpRecording, Leave, scoreVars, FramesHaveLabels
<1>4. CASE BeginSearch
  <2>1. decisions' = <<>> /\ stage' \in {"trial", "closing"}
    BY <1>4 DEF BeginSearch, Search
  <2> QED BY <2>1 DEF FramesHaveLabels
<1>5. CASE TrialEnds \/ TrialFails
  <2>1. decisions' = decisions /\ stage' \in {"trial", "closing"}
    BY <1>5 DEF TrialEnds, TrialFails, Record, Search, scoreVars
  <2> QED BY <2>1 DEF FramesHaveLabels
<1>6. CASE NextRound \/ BeginScore
  BY <1>6 DEF NextRound, BeginScore, scoreVars, FramesHaveLabels
<1>7. CASE \E j \in Jobs : CallAnswered(j) \/ CallExpires(j)
  BY <1>7 DEF CallAnswered, CallExpires, scoreVars, FramesHaveLabels
<1>8. CASE \E w \in Workers : BenchWorker(w)
  BY <1>8 DEF BenchWorker, scoreVars, FramesHaveLabels
<1>9. CASE UNCHANGED benchVars
  BY <1>9 DEF benchVars, scoreVars, FramesHaveLabels
<1> QED BY <1>1, <1>2, <1>3, <1>4, <1>5, <1>6, <1>7, <1>8, <1>9 DEF BenchNext, Main

(* The segment metrics that benchmark_vad.py reports (true_runs,             *)
(* segment_delays, false_activation_count, confusion_counts) agree with the  *)
(* frames they are computed from, for recordings of any length.              *)
THEOREM MetricsComeFromFrames == BenchSpec => []SegmentsAgreeWithFrames
<1>1. FramesHaveLabels => SegmentsAgreeWithFrames
  <2> SUFFICES ASSUME FramesHaveLabels, stage \in {"recording", "rss"}
               PROVE  MetricsAgree(SubSeq(labels, 1, Len(decisions)), decisions)
    BY DEF SegmentsAgreeWithFrames
  <2> DEFINE n == Len(decisions)
             r == SubSeq(labels, 1, n)
  <2>1. /\ decisions \in Seq(BOOLEAN) /\ n \in Nat /\ Length \in Nat /\ n <= Length
        /\ labels \in [1..Length -> BOOLEAN]
    BY BenchAssumption DEF FramesHaveLabels
  <2>2. r \in Seq(BOOLEAN) /\ Len(r) = n
    <3>1. labels \in Seq(BOOLEAN) /\ Len(labels) = Length
      BY <2>1
    <3> QED BY <2>1, <3>1
  <2> QED BY <2>1, <2>2, MetricsAlwaysAgree
<1> QED BY <1>1, LabelsInit, LabelsNext, PTL DEF BenchSpec
=============================================================================
