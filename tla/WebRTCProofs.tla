---------------------------- MODULE WebRTCProofs ----------------------------
(* Theorems about WebRTCStreams, for every number of streams, workers,      *)
(* leases and resets.                                                       *)
EXTENDS WebRTCStreams, VADRuntimeProofs

(* A step of the streams is a step of the runtime or leaves it alone.       *)
LEMMA StepsAreRuntimeSteps == StreamNext => [Next]_vars
BY DEF StreamNext, Next, NewStream, Score, ScoreRefused, Reset, CloseStream,
       ScoreAnswered, ScoreAbandoned, ReadHandle, Classify, Provider, Dispatch, Worker

LEMMA RuntimeInv == IInv /\ OnePlace /\ StreamNext => IInv' /\ OnePlace'
BY StepsAreRuntimeSteps, NextInv, NextOnePlace

(* A stream that has sent nothing has heard nothing, and each frame adds    *)
(* itself.                                                                  *)
LEMMA FrameByFrame ==
  /\ FirstFrames(0) = <<>>
  /\ \A n \in Nat : n > 0 =>
       FirstFrames(n) = Append(FirstFrames(n - 1), [reset |-> 0, index |-> n])
<1>1. FirstFrames(0) = <<>>
  BY DEF FirstFrames
<1>2. ASSUME NEW n \in Nat, n > 0
      PROVE  FirstFrames(n) = Append(FirstFrames(n - 1), [reset |-> 0, index |-> n])
  <2> DEFINE F == [reset : Nat, index : Nat]
             s == FirstFrames(n - 1)
             x == [reset |-> 0, index |-> n]
  <2>1. n - 1 \in Nat
    BY <1>2
  <2>2. \A i \in 1..(n - 1) : [reset |-> 0, index |-> i] \in F
    OBVIOUS
  <2>3. s \in Seq(F) /\ Len(s) = n - 1
    <3>1. s \in [1..(n - 1) -> F]
      BY <2>2 DEF FirstFrames
    <3> QED BY <2>1, <3>1, SeqDef, LenProperties DEF FirstFrames
  <2>4. x \in F
    BY <1>2
  <2>5. /\ Append(s, x) \in Seq(F) /\ Len(Append(s, x)) = n
        /\ \A i \in 1..(n - 1) : Append(s, x)[i] = s[i]
        /\ Append(s, x)[n] = x
    <3>1. Len(s) + 1 = n
      BY <2>1, <2>3
    <3> HIDE DEF s, x, F
    <3> QED BY <2>3, <2>4, <3>1, AppendProperties
  <2>6. Append(s, x) = [i \in 1..n |-> Append(s, x)[i]]
    <3> HIDE DEF s, x, F
    <3> QED BY <2>5, LenProperties
  <2>7. \A i \in 1..n : Append(s, x)[i] = [reset |-> 0, index |-> i]
    <3>1. \A i \in 1..(n - 1) : s[i] = [reset |-> 0, index |-> i]
      BY DEF FirstFrames
    <3>2. \A i \in 1..n : i \in 1..(n - 1) \/ i = n
      BY <1>2
    <3> QED BY <2>5, <3>1, <3>2
  <2>8. Append(s, x) = [i \in 1..n |-> [reset |-> 0, index |-> i]]
    <3> HIDE DEF s, x, F
    <3> QED BY <2>6, <2>7
  <2> QED BY <2>8 DEF FirstFrames
<1> QED BY <1>1, <1>2

-----------------------------------------------------------------------------
(* Initial states.                                                          *)

LEMMA StreamInitInv == StreamInit => SInv
<1> SUFFICES ASSUME StreamInit
             PROVE  SInv
  OBVIOUS
<1>1. IInv /\ OnePlace
  BY InitInv, InitOnePlace DEF StreamInit
<1>2. Jobs = {} /\ Open = {}
  BY DEF StreamInit, Init, Jobs, Open
<1>3. StreamTypes
  <2>1. heard \in [Clients -> Seq([reset : Nat, index : Nat])]
    BY EmptySeq DEF StreamInit
  <2> QED BY <1>2, <2>1 DEF StreamInit, StreamTypes, NoHandle
<1>4. IsFiniteSet(Open) /\ LeasesAreExact
  BY <1>2, FS_EmptySet, CapacityAssumption DEF StreamInit, LeasesAreExact
<1>5. HeardSoFar
  BY <1>2, FrameByFrame DEF HeardSoFar, StreamInit, Unbroken
<1> QED
  BY <1>1, <1>2, <1>3, <1>4, <1>5
  DEF SInv, OneScoreAtATime, NothingLost, ReadsOwnHandle, StreamInit

-----------------------------------------------------------------------------
(* What the steps of the runtime leave of the streams' invariant.           *)

(* Steps that neither open nor close a stream keep the leases.              *)
LEMMA LeasesKept ==
  ASSUME SInv, UNCHANGED <<life, active>>
  PROVE  IsFiniteSet(Open') /\ LeasesAreExact'
BY DEF SInv, LeasesAreExact, Open

(* A step of the streams' owners that concerns no call.                     *)
LEMMA CallsKept ==
  ASSUME SInv, UNCHANGED <<count, client, caller, future, inFlight>>,
         Unbroken' \subseteq Unbroken
  PROVE  OneScoreAtATime' /\ NothingLost'
BY DEF SInv, OneScoreAtATime, NothingLost, Jobs

(* What unbroken streams have heard is as it was when their calls, the      *)
(* queue and the threads are.                                               *)
LEMMA HeardKept ==
  ASSUME SInv, UNCHANGED <<count, client, caller, future, queue, at, hand, outcome>>,
         UNCHANGED <<inFlight, frame>>, Unbroken' \subseteq Unbroken,
         \A c \in Unbroken' : sent'[c] = sent[c] /\ heard'[c] = heard[c]
  PROVE  HeardSoFar'
BY DEF SInv, HeardSoFar, Jobs

-----------------------------------------------------------------------------
(* The owner of a stream.                                                   *)

LEMMA NewStreamInv == ASSUME SInv, NEW c \in Clients, NewStream(c) PROVE SInv'
<1>1. IInv' /\ OnePlace'
  BY RuntimeInv DEF SInv, StreamNext
<1>2. Jobs' = Jobs /\ Unbroken' = Unbroken /\ Open' = Open \cup {c} /\ c \notin Open
  BY DEF NewStream, vars, Jobs, Open, Unbroken, SInv, StreamTypes
<1>3. IsFiniteSet(Open') /\ Cardinality(Open') = Cardinality(Open) + 1
  BY <1>2, FS_AddElement DEF SInv
<1>4. LeasesAreExact'
  BY <1>2, <1>3, CapacityAssumption, FS_CardinalityType
  DEF SInv, LeasesAreExact, NewStream, Acquire, FreeLease
<1>5. StreamTypes'
  BY <1>2 DEF SInv, StreamTypes, NewStream
<1>6. OneScoreAtATime' /\ NothingLost'
  BY <1>2, CallsKept DEF NewStream, vars
<1>7. HeardSoFar'
  BY <1>2, HeardKept DEF NewStream, vars
<1>8. ReadsOwnHandle'
  BY DEF SInv, ReadsOwnHandle, NewStream, vars
<1> QED BY <1>1, <1>3, <1>4, <1>5, <1>6, <1>7, <1>8 DEF SInv

LEMMA ScoreInv == ASSUME SInv, NEW c \in Clients, Score(c) PROVE SInv'
<1> DEFINE n == count + 1
           x == [reset |-> handle[c], index |-> sent[c] + 1]
<1>1. IInv' /\ OnePlace'
  BY RuntimeInv DEF SInv, StreamNext
<1>2. IsFiniteSet(Open') /\ LeasesAreExact' /\ Unbroken' = Unbroken
  BY LeasesKept DEF Score, Unbroken
<1>3. count \in Nat /\ Jobs' = Jobs \cup {n} /\ n \notin Jobs
  BY RuntimeAssumption DEF SInv, IInv, TypeOK, Score, Accept, Jobs
<1>4. /\ \A j \in Jobs : client'[j] = client[j] /\ caller'[j] = caller[j]
                         /\ future'[j] = future[j] /\ frame'[j] = frame[j]
      /\ client'[n] = c /\ caller'[n] = "awaiting" /\ future'[n] = "pending"
      /\ frame'[n] = x
  BY <1>3 DEF Score, Accept, Extend, Jobs
<1>5. \A j \in Jobs : client[j] \in Clients
  BY DEF SInv, IInv, TypeOK
<1>6. c \in Clients \ inFlight /\ inFlight' = inFlight \cup {c}
  BY DEF Score, MayScore
<1>7. \A j \in Jobs : caller[j] = "awaiting" => client[j] # c
  BY <1>6 DEF SInv, OneScoreAtATime
<1>8. /\ sent'[c] = sent[c] + 1 /\ sent[c] \in Nat
      /\ \A d \in Clients \ {c} : sent'[d] = sent[d]
      /\ heard' = heard /\ handle' = handle
  BY DEF Score, SInv, StreamTypes
<1>9. StreamTypes'
  <2>1. x \in [reset : Nat, index : Nat]
    BY DEF SInv, StreamTypes
  <2>2. frame' \in [Jobs' -> [reset : Nat, index : Nat]]
    <3>1. frame' = [j \in Jobs' |-> IF j \in Jobs THEN frame[j] ELSE x]
      BY <1>3 DEF Score, Accept, Extend, Jobs
    <3> QED BY <2>1, <3>1 DEF SInv, StreamTypes
  <2> QED BY <2>2 DEF SInv, StreamTypes, Score
<1>10. OneScoreAtATime'
  <2>1. \A d \in inFlight' : \E j \in Jobs' : client'[j] = d /\ caller'[j] = "awaiting"
    BY <1>3, <1>4, <1>6 DEF SInv, OneScoreAtATime
  <2> QED
    BY <1>3, <1>4, <1>6, <1>7, <2>1 DEF SInv, OneScoreAtATime
<1>11. NothingLost'
  BY <1>2, <1>3, <1>4 DEF SInv, NothingLost
<1>12. /\ at' = at /\ hand' = hand /\ outcome' = outcome
       /\ \A w \in Workers : hand[w] # n
       /\ \A j \in Jobs : (\E i \in 1..Len(queue') : queue'[i] = j) =>
                          \E i \in 1..Len(queue) : queue[i] = j
  <2>1. queue \in Seq(Jobs \cup {Stop}) /\ queue' = Append(queue, n)
    BY DEF SInv, IInv, TypeOK, Score, Accept
  <2>2. /\ Len(queue') = Len(queue) + 1 /\ Len(queue) \in Nat
        /\ queue'[Len(queue) + 1] = n
        /\ \A i \in 1..Len(queue) : queue'[i] = queue[i]
    BY <1>3, <2>1, AppendProperties, LenProperties
  <2>3. \A i \in 1..Len(queue') : i \in 1..Len(queue) \/ queue'[i] = n
    BY <2>2
  <2>4. n # Stop
    BY <1>3 DEF Stop
  <2>5. \A w \in Workers : hand[w] # n
    BY <1>3, <2>4 DEF SInv, IInv, TypeOK
  <2> QED BY <1>3, <2>2, <2>3, <2>5 DEF Score, Accept, workerVars
<1>13. HeardSoFar'
  <2>1. \A d \in Unbroken \ inFlight' : heard'[d] = FirstFrames(sent'[d])
    BY <1>6, <1>8 DEF SInv, HeardSoFar, Unbroken
  <2>2. ASSUME NEW j \in Jobs, client[j] \in Unbroken, caller[j] = "awaiting"
        PROVE  sent'[client[j]] = sent[client[j]]
    BY <1>5, <1>7, <1>8, <2>2
  <2>3. c \in Unbroken => heard[c] = FirstFrames(sent'[c] - 1) /\ x.reset = 0
    BY <1>6, <1>8 DEF SInv, HeardSoFar, Unbroken
  <2>4. ASSUME NEW j \in Jobs', client'[j] \in Unbroken, caller'[j] = "awaiting"
        PROVE  LET d == client'[j] IN
               /\ sent'[d] > 0 /\ frame'[j] = [reset |-> 0, index |-> sent'[d]]
               /\ (\E i \in 1..Len(queue') : queue'[i] = j) =>
                    heard'[d] = FirstFrames(sent'[d] - 1)
               /\ \A w \in Workers : hand'[w] = j =>
                    /\ at'[w] \in {"executor", "function"} =>
                         heard'[d] = FirstFrames(sent'[d] - 1)
                    /\ at'[w] = "returned" /\ outcome'[w] = "result" =>
                         heard'[d] = FirstFrames(sent'[d])
               /\ future'[j] = "result" => heard'[d] = FirstFrames(sent'[d])
    <3>1. CASE j = n
      BY <1>4, <1>8, <1>12, <2>3, <2>4, <3>1
    <3>2. CASE j \in Jobs
      <4> DEFINE d == client[j]
      <4>1. /\ client'[j] = d /\ d \in Unbroken /\ caller[j] = "awaiting"
            /\ sent'[d] = sent[d] /\ heard' = heard
            /\ frame'[j] = frame[j] /\ future'[j] = future[j]
        BY <1>4, <1>8, <2>2, <2>4, <3>2
      <4>2. /\ sent[d] > 0 /\ frame[j] = [reset |-> 0, index |-> sent[d]]
            /\ (\E i \in 1..Len(queue) : queue[i] = j) => heard[d] = FirstFrames(sent[d] - 1)
            /\ \A w \in Workers : hand[w] = j =>
                 /\ at[w] \in {"executor", "function"} => heard[d] = FirstFrames(sent[d] - 1)
                 /\ at[w] = "returned" /\ outcome[w] = "result" =>
                      heard[d] = FirstFrames(sent[d])
            /\ future[j] = "result" => heard[d] = FirstFrames(sent[d])
        BY <3>2, <4>1 DEF SInv, HeardSoFar
      <4> HIDE DEF d, n, x
      <4> QED BY <1>12, <3>2, <4>1, <4>2
    <3> QED BY <1>3, <3>1, <3>2
  <2> QED BY <1>2, <2>1, <2>4 DEF HeardSoFar
<1>14. ReadsOwnHandle'
  <2> SUFFICES ASSUME NEW w \in Workers, reading'[w] # NoHandle
               PROVE  at'[w] = "function" /\ reading'[w] <= handle'[client'[hand'[w]]]
    BY DEF ReadsOwnHandle
  <2>1. reading' = reading
    BY DEF Score
  <2>2. at[w] = "function" /\ reading[w] <= handle[client[hand[w]]]
    BY <2>1 DEF SInv, ReadsOwnHandle
  <2>3. hand[w] \in Jobs
    BY <2>2 DEF SInv, IInv, HandsHoldJobs, Busy
  <2> QED BY <1>4, <1>8, <1>12, <2>1, <2>2, <2>3
<1> QED BY <1>1, <1>2, <1>9, <1>10, <1>11, <1>13, <1>14 DEF SInv

LEMMA ScoreRefusedInv == ASSUME SInv, NEW c \in Clients, ScoreRefused(c) PROVE SInv'
<1>1. IInv' /\ OnePlace'
  BY RuntimeInv DEF SInv, StreamNext
<1>2. IsFiniteSet(Open') /\ LeasesAreExact' /\ Unbroken' \subseteq Unbroken /\ Jobs' = Jobs
  BY LeasesKept DEF ScoreRefused, Unbroken, vars, Jobs
<1>3. StreamTypes'
  BY <1>2 DEF SInv, StreamTypes, ScoreRefused
<1>4. OneScoreAtATime' /\ NothingLost' /\ HeardSoFar'
  BY <1>2, CallsKept, HeardKept DEF ScoreRefused, vars
<1>5. ReadsOwnHandle'
  BY DEF SInv, ReadsOwnHandle, ScoreRefused, vars
<1> QED BY <1>1, <1>2, <1>3, <1>4, <1>5 DEF SInv

LEMMA ResetInv == ASSUME SInv, NEW c \in Clients, Reset(c) PROVE SInv'
<1>1. IInv' /\ OnePlace'
  BY RuntimeInv DEF SInv, StreamNext
<1>2. IsFiniteSet(Open') /\ LeasesAreExact' /\ Jobs' = Jobs
  BY LeasesKept DEF Reset, vars, Jobs
<1>3. handle[c] \in Nat
  BY DEF SInv, StreamTypes
<1>4. /\ handle' \in [Clients -> Nat] /\ handle'[c] >= handle[c]
      /\ \A d \in Clients \ {c} : handle'[d] = handle[d]
      /\ c \notin failed' => handle'[c] = handle[c] + 1
  <2>1. handle \in [Clients -> Nat]
    BY DEF SInv, StreamTypes
  <2>2. CASE handle' = [handle EXCEPT ![c] = @ + 1]
    BY <1>3, <2>1, <2>2
  <2>3. CASE failed' = failed \cup {c} /\ handle' = handle
    BY <1>3, <2>1, <2>3
  <2> QED BY <2>2, <2>3 DEF Reset
<1>5. /\ Unbroken' \subseteq Unbroken
      /\ \A d \in Unbroken' : sent'[d] = sent[d] /\ heard'[d] = heard[d]
  <2>1. c \notin Unbroken'
    BY <1>3, <1>4 DEF Unbroken
  <2>2. \A d \in Clients \ {c} :
          /\ sent'[d] = sent[d] /\ heard'[d] = heard[d]
          /\ d \in failed' <=> d \in failed
    BY DEF Reset, SInv, StreamTypes
  <2> QED BY <1>4, <2>1, <2>2 DEF Unbroken
<1>6. StreamTypes'
  <2>1. sent' \in [Clients -> Nat] /\ failed' \subseteq Clients
    BY DEF Reset, SInv, StreamTypes
  <2>2. heard' \in [Clients -> Seq([reset : Nat, index : Nat])]
    <3>1. <<>> \in Seq([reset : Nat, index : Nat])
      BY EmptySeq
    <3> QED BY <3>1 DEF Reset, SInv, StreamTypes
  <2> QED BY <1>2, <1>4, <2>1, <2>2 DEF SInv, StreamTypes, Reset
<1>7. OneScoreAtATime' /\ NothingLost' /\ HeardSoFar'
  BY <1>5, CallsKept, HeardKept DEF Reset, vars
<1>8. ReadsOwnHandle'
  <2> SUFFICES ASSUME NEW w \in Workers, reading[w] # NoHandle
               PROVE  at[w] = "function" /\ reading[w] <= handle'[client[hand[w]]]
    BY DEF ReadsOwnHandle, Reset, vars
  <2>1. at[w] = "function" /\ reading[w] <= handle[client[hand[w]]]
    BY DEF SInv, ReadsOwnHandle
  <2>2. client[hand[w]] \in Clients
    BY <2>1 DEF SInv, IInv, TypeOK, HandsHoldJobs, Busy
  <2>3. reading[w] \in Nat
    BY DEF SInv, StreamTypes
  <2>4. handle[client[hand[w]]] \in Nat /\ handle'[client[hand[w]]] \in Nat
    BY <1>4, <2>2 DEF SInv, StreamTypes
  <2> QED BY <1>4, <2>1, <2>2, <2>3, <2>4
<1> QED BY <1>1, <1>2, <1>6, <1>7, <1>8 DEF SInv

LEMMA CloseStreamInv == ASSUME SInv, NEW c \in Clients, CloseStream(c) PROVE SInv'
<1>1. IInv' /\ OnePlace'
  BY RuntimeInv DEF SInv, StreamNext
<1>2. Jobs' = Jobs /\ Unbroken' = Unbroken /\ Open' = Open \ {c} /\ c \in Open
  BY DEF CloseStream, Closes, vars, Jobs, Open, Unbroken, SInv, StreamTypes
<1>3. IsFiniteSet(Open') /\ Cardinality(Open') = Cardinality(Open) - 1
      /\ Cardinality(Open) \in Nat
  BY <1>2, FS_RemoveElement, FS_CardinalityType DEF SInv
<1>4. Cardinality(Open') \in Nat
  BY <1>3, FS_CardinalityType
<1>5. LeasesAreExact'
  BY <1>3, <1>4, CapacityAssumption
  DEF SInv, LeasesAreExact, CloseStream, Release
<1>6. StreamTypes'
  BY <1>2 DEF SInv, StreamTypes, CloseStream
<1>7. OneScoreAtATime' /\ NothingLost' /\ HeardSoFar'
  BY <1>2, CallsKept, HeardKept DEF CloseStream, vars
<1>8. ReadsOwnHandle'
  BY DEF SInv, ReadsOwnHandle, CloseStream, vars
<1> QED BY <1>1, <1>3, <1>5, <1>6, <1>7, <1>8 DEF SInv

-----------------------------------------------------------------------------
(* The end of a call.                                                       *)

(* When a submission ends, its stream has no other one; and only with a     *)
(* result does the stream stay unbroken.                                    *)
LEMMA CallEnds ==
  ASSUME SInv, NEW j \in Jobs, caller[j] = "awaiting", NEW end \in {"answered", "gone"},
         caller' = [caller EXCEPT ![j] = end],
         inFlight' = inFlight \ {client[j]},
         \A k \in Jobs : k # j => future'[k] = future[k],
         Unbroken' \subseteq Unbroken,
         client[j] \in Unbroken' => future[j] = "result" /\ future'[j] = "result",
         UNCHANGED <<count, client, queue, at, hand, outcome, handle, sent, heard, frame>>
  PROVE  OneScoreAtATime' /\ NothingLost' /\ HeardSoFar'
<1>1. Jobs' = Jobs
  BY DEF Jobs
<1>2. caller \in [Jobs -> {"awaiting", "answered", "gone"}]
  BY DEF SInv, IInv, TypeOK
<1>3. \A k \in Jobs : caller'[k] = "awaiting" =>
        k # j /\ caller[k] = "awaiting" /\ client[k] # client[j]
  BY <1>2 DEF SInv, OneScoreAtATime
<1>4. OneScoreAtATime'
  <2>1. \A c \in inFlight' : \E k \in Jobs : client[k] = c /\ caller'[k] = "awaiting"
    <3> SUFFICES ASSUME NEW c \in inFlight, c # client[j]
                 PROVE  \E k \in Jobs : client[k] = c /\ caller'[k] = "awaiting"
      OBVIOUS
    <3>1. PICK k \in Jobs : client[k] = c /\ caller[k] = "awaiting"
      BY DEF SInv, OneScoreAtATime
    <3> QED BY <1>2, <3>1
  <2> QED BY <1>1, <1>3, <2>1 DEF SInv, OneScoreAtATime
<1>5. NothingLost'
  <2> SUFFICES ASSUME NEW k \in Jobs, client[k] \in Unbroken', caller'[k] # "awaiting"
               PROVE  future'[k] = "result"
    BY <1>1 DEF NothingLost
  <2>1. CASE k = j
    BY <2>1
  <2>2. CASE k # j
    BY <1>2, <2>2 DEF SInv, NothingLost
  <2> QED BY <2>1, <2>2
<1>6. HeardSoFar'
  <2>1. client[j] \in Unbroken' => heard[client[j]] = FirstFrames(sent[client[j]])
    BY DEF SInv, HeardSoFar
  <2>2. \A c \in Unbroken' \ inFlight' : heard'[c] = FirstFrames(sent'[c])
    BY <2>1 DEF SInv, HeardSoFar
  <2>3. \A k \in Jobs : caller'[k] = "awaiting" => future'[k] = future[k]
    BY <1>3
  <2> QED BY <1>1, <1>3, <2>2, <2>3 DEF SInv, HeardSoFar
<1> QED BY <1>4, <1>5, <1>6

LEMMA ScoreAnsweredInv == ASSUME SInv, NEW j \in Jobs, ScoreAnswered(j) PROVE SInv'
<1>1. IInv' /\ OnePlace'
  BY RuntimeInv DEF SInv, StreamNext
<1>2. IsFiniteSet(Open') /\ LeasesAreExact' /\ Jobs' = Jobs
  BY LeasesKept DEF ScoreAnswered, Answer, Jobs
<1>3. client[j] \in Clients
  BY DEF SInv, IInv, TypeOK
<1>4. StreamTypes'
  BY <1>2, <1>3 DEF SInv, StreamTypes, ScoreAnswered
<1>5. OneScoreAtATime' /\ NothingLost' /\ HeardSoFar'
  <2>1. Unbroken' \subseteq Unbroken /\ (client[j] \in Unbroken' => future[j] = "result")
    BY DEF Unbroken, ScoreAnswered
  <2> QED BY <2>1, CallEnds DEF ScoreAnswered, Answer, workerVars
<1>6. ReadsOwnHandle'
  BY DEF SInv, ReadsOwnHandle, ScoreAnswered, Answer, workerVars
<1> QED BY <1>1, <1>2, <1>4, <1>5, <1>6 DEF SInv

LEMMA ScoreAbandonedInv == ASSUME SInv, NEW j \in Jobs, ScoreAbandoned(j) PROVE SInv'
<1>1. IInv' /\ OnePlace'
  BY RuntimeInv DEF SInv, StreamNext
<1>2. IsFiniteSet(Open') /\ LeasesAreExact' /\ Jobs' = Jobs
  BY LeasesKept DEF ScoreAbandoned, GiveUp, Jobs
<1>3. client[j] \in Clients
  BY DEF SInv, IInv, TypeOK
<1>4. StreamTypes'
  BY <1>2, <1>3 DEF SInv, StreamTypes, ScoreAbandoned, FailedWith
<1>5. OneScoreAtATime' /\ NothingLost' /\ HeardSoFar'
  <2>1. Unbroken' \subseteq Unbroken /\ client[j] \notin Unbroken'
    BY DEF Unbroken, ScoreAbandoned, FailedWith
  <2>2. \A k \in Jobs : k # j => future'[k] = future[k]
    BY DEF ScoreAbandoned, GiveUp, Settle, SInv, IInv, TypeOK
  <2> QED BY <2>1, <2>2, CallEnds DEF ScoreAbandoned, GiveUp, workerVars
<1>6. ReadsOwnHandle'
  BY DEF SInv, ReadsOwnHandle, ScoreAbandoned, GiveUp, workerVars
<1> QED BY <1>1, <1>2, <1>4, <1>5, <1>6 DEF SInv

-----------------------------------------------------------------------------
(* Workers and threads.                                                     *)

LEMMA ReadHandleInv == ASSUME SInv, NEW w \in Workers, ReadHandle(w) PROVE SInv'
<1>1. IInv' /\ OnePlace'
  BY RuntimeInv DEF SInv, StreamNext
<1>2. /\ IsFiniteSet(Open') /\ LeasesAreExact' /\ Jobs' = Jobs
      /\ Unbroken' \subseteq Unbroken
  BY LeasesKept DEF ReadHandle, vars, Jobs, Unbroken
<1>3. client[hand[w]] \in Clients
  BY DEF SInv, IInv, TypeOK, HandsHoldJobs, Busy, ReadHandle
<1>4. handle[client[hand[w]]] \in Nat
  BY <1>3 DEF SInv, StreamTypes
<1>5. StreamTypes'
  BY <1>2, <1>4 DEF SInv, StreamTypes, ReadHandle
<1>6. OneScoreAtATime' /\ NothingLost' /\ HeardSoFar'
  BY <1>2, CallsKept, HeardKept DEF ReadHandle, vars
<1>7. ReadsOwnHandle'
  BY <1>4 DEF SInv, StreamTypes, ReadsOwnHandle, ReadHandle, vars
<1> QED BY <1>1, <1>2, <1>5, <1>6, <1>7 DEF SInv

(* The thread of an unbroken stream works on the frame its owner waits for, *)
(* with the one handle the stream has ever had.                             *)
LEMMA WorksOnCurrentFrame ==
  ASSUME SInv, NEW w \in Workers, at[w] = "function", client[hand[w]] \in Unbroken
  PROVE  LET c == client[hand[w]] IN
         /\ hand[w] \in Jobs /\ caller[hand[w]] = "awaiting" /\ future[hand[w]] # "result"
         /\ sent[c] \in Nat /\ sent[c] > 0
         /\ heard[c] = FirstFrames(sent[c] - 1)
         /\ Append(heard[c], frame[hand[w]]) = FirstFrames(sent[c])
         /\ reading[w] # NoHandle => reading[w] = handle[c]
<1> DEFINE j == hand[w]
           c == client[j]
<1>1. j \in Jobs /\ at[w] \in Busy /\ c \in Clients
  BY DEF SInv, IInv, TypeOK, HandsHoldJobs, Busy
<1>2. future[j] # "result"
  BY <1>1 DEF SInv, OnePlace
<1>3. caller[j] = "awaiting"
  BY <1>1, <1>2 DEF SInv, NothingLost
<1>4. /\ sent[c] > 0 /\ frame[j] = [reset |-> 0, index |-> sent[c]]
      /\ heard[c] = FirstFrames(sent[c] - 1)
  BY <1>1, <1>3 DEF SInv, HeardSoFar
<1>5. sent[c] \in Nat
  BY <1>1 DEF SInv, StreamTypes
<1>6. reading[w] # NoHandle => reading[w] = handle[c]
  <2>1. handle[c] = 0
    BY DEF Unbroken
  <2> QED BY <2>1 DEF SInv, ReadsOwnHandle, StreamTypes
<1> QED BY <1>1, <1>2, <1>3, <1>4, <1>5, <1>6, FrameByFrame

LEMMA ClassifyInv == ASSUME SInv, NEW w \in Workers, Classify(w) PROVE SInv'
<1> DEFINE j == hand[w]
           c == client[j]
           fed == [heard EXCEPT ![c] = IF reading[w] = handle[c]
                                       THEN Append(@, frame[j]) ELSE @]
<1>1. IInv' /\ OnePlace'
  BY RuntimeInv DEF SInv, StreamNext
<1>2. /\ IsFiniteSet(Open') /\ LeasesAreExact' /\ Jobs' = Jobs
      /\ Unbroken' = Unbroken
  BY LeasesKept DEF Classify, Return, callVars, Jobs, Unbroken
<1>3. /\ at[w] = "function" /\ reading[w] # NoHandle
      /\ at' = [at EXCEPT ![w] = "returned"]
      /\ \/ outcome' = [outcome EXCEPT ![w] = "result"] /\ heard' = fed
         \/ outcome' = [outcome EXCEPT ![w] = "error"] /\ heard' \in {heard, fed}
      /\ reading' = [reading EXCEPT ![w] = NoHandle]
  BY DEF Classify, Return
<1>4. UNCHANGED <<count, client, caller, future, queue, hand, inFlight, handle, sent, frame>>
  BY DEF Classify, Return, callVars
<1>5. j \in Jobs /\ c \in Clients /\ at[w] \in Busy
  BY <1>3 DEF SInv, IInv, TypeOK, HandsHoldJobs, Busy
<1>6. /\ at'[w] = "returned" /\ \A v \in Workers \ {w} : at'[v] = at[v]
      /\ outcome'[w] \in {"result", "error"}
      /\ \A v \in Workers \ {w} : outcome'[v] = outcome[v]
      /\ \A d \in Clients \ {c} : heard'[d] = heard[d]
      /\ outcome'[w] = "result" => heard' = fed
  BY <1>3, <1>5 DEF SInv, StreamTypes, IInv, TypeOK
<1>7. StreamTypes'
  <2>1. heard[c] \in Seq([reset : Nat, index : Nat]) /\ frame[j] \in [reset : Nat, index : Nat]
    BY <1>5 DEF SInv, StreamTypes
  <2>2. Append(heard[c], frame[j]) \in Seq([reset : Nat, index : Nat])
    BY <2>1, AppendProperties
  <2>3. fed \in [Clients -> Seq([reset : Nat, index : Nat])]
    BY <2>1, <2>2 DEF SInv, StreamTypes
  <2>4. heard' \in [Clients -> Seq([reset : Nat, index : Nat])]
    BY <1>3, <2>3 DEF SInv, StreamTypes
  <2>5. reading' \in [Workers -> Nat \cup {NoHandle}]
    BY <1>3 DEF SInv, StreamTypes
  <2> QED BY <1>2, <2>4, <2>5 DEF SInv, StreamTypes, Classify
<1>8. OneScoreAtATime' /\ NothingLost'
  BY <1>2, <1>4, CallsKept
<1>9. HeardSoFar'
  <2>1. c \in Unbroken => c \in inFlight /\ caller[j] = "awaiting"
    BY <1>3, <1>5, WorksOnCurrentFrame DEF SInv, OneScoreAtATime
  <2>2. \A d \in Unbroken \ inFlight : d \in Clients \ {c}
    BY <2>1 DEF Unbroken
  <2>3. \A d \in Unbroken \ inFlight : heard'[d] = FirstFrames(sent[d])
    BY <1>6, <2>2 DEF SInv, HeardSoFar
  <2>4. ASSUME NEW k \in Jobs, client[k] \in Unbroken, caller[k] = "awaiting"
        PROVE  LET d == client[k] IN
               /\ sent[d] > 0 /\ frame[k] = [reset |-> 0, index |-> sent[d]]
               /\ (\E i \in 1..Len(queue) : queue[i] = k) =>
                    heard'[d] = FirstFrames(sent[d] - 1)
               /\ \A v \in Workers : hand[v] = k =>
                    /\ at'[v] \in {"executor", "function"} =>
                         heard'[d] = FirstFrames(sent[d] - 1)
                    /\ at'[v] = "returned" /\ outcome'[v] = "result" =>
                         heard'[d] = FirstFrames(sent[d])
               /\ future[k] = "result" => heard'[d] = FirstFrames(sent[d])
    <3>1. CASE k = j
      <4>1. \A i \in 1..Len(queue) : queue[i] # j
        BY <1>5 DEF SInv, OnePlace
      <4>2. \A v \in Workers \ {w} : hand[v] = j => at[v] \notin Busy
        BY <1>5 DEF SInv, OnePlace
      <4>3. /\ future[j] # "result" /\ sent[c] > 0
            /\ frame[j] = [reset |-> 0, index |-> sent[c]]
            /\ Append(heard[c], frame[j]) = FirstFrames(sent[c])
            /\ reading[w] = handle[c]
        BY <1>3, <1>5, <2>4, <3>1, WorksOnCurrentFrame DEF SInv, HeardSoFar
      <4>4. fed[c] = FirstFrames(sent[c])
        BY <1>5, <4>3 DEF SInv, StreamTypes
      <4>5. at'[w] = "returned" /\ outcome'[w] = "result" => heard'[c] = FirstFrames(sent[c])
        BY <1>6, <4>4
      <4>6. \A v \in Workers : hand[v] = j =>
              v = w \/ at'[v] \notin {"executor", "function", "returned"}
        BY <1>6, <4>2 DEF Busy
      <4> HIDE DEF fed
      <4> QED BY <1>6, <3>1, <4>1, <4>3, <4>5, <4>6
    <3>2. CASE k # j
      <4>1. client[k] # c
        BY <1>5, <2>1, <2>4, <3>2 DEF SInv, OneScoreAtATime
      <4>2. client[k] \in Clients \ {c} /\ hand[w] # k
        BY <2>4, <3>2, <4>1 DEF Unbroken
      <4>3. heard'[client[k]] = heard[client[k]]
        BY <1>6, <4>2
      <4> HIDE DEF fed, c, j
      <4> QED BY <1>6, <2>4, <4>2, <4>3 DEF SInv, HeardSoFar
    <3> QED BY <3>1, <3>2
  <2> HIDE DEF fed, c, j
  <2> QED BY <1>2, <1>4, <2>3, <2>4 DEF HeardSoFar
<1>10. ReadsOwnHandle'
  BY <1>3, <1>4, <1>6 DEF SInv, StreamTypes, ReadsOwnHandle
<1> QED BY <1>1, <1>2, <1>7, <1>8, <1>9, <1>10 DEF SInv

(* The streams after a step of a worker: their variables stay, and of the   *)
(* runtime the calls.                                                       *)
LEMMA OthersInv ==
  ASSUME SInv, IInv', OnePlace', UNCHANGED <<count, client, caller>>,
         UNCHANGED streamVars,
         \A j \in Jobs : caller[j] = "awaiting" => future'[j] # "cancelled",
         \A j \in Jobs : future[j] = "result" => future'[j] = "result",
         \A w \in Workers : at[w] = "function" => at'[w] = "function" /\ hand'[w] = hand[w],
         HeardSoFar'
  PROVE  SInv'
<1>1. Jobs' = Jobs /\ Open' = Open /\ Unbroken' = Unbroken
  BY DEF Jobs, Open, Unbroken, streamVars
<1>2. StreamTypes' /\ LeasesAreExact'
  BY <1>1 DEF SInv, StreamTypes, LeasesAreExact, streamVars
<1>3. OneScoreAtATime' /\ NothingLost'
  BY <1>1 DEF SInv, OneScoreAtATime, NothingLost, streamVars
<1>4. ReadsOwnHandle'
  BY DEF SInv, ReadsOwnHandle, streamVars
<1> QED BY <1>1, <1>2, <1>3, <1>4 DEF SInv

(* A worker takes work, or passes the gate: a job moves from the queue to a *)
(* hand, or on in it.                                                       *)
LEMMA TakeKeepsStreams ==
  ASSUME SInv, NEW w \in Workers, Take(w), UNCHANGED streamVars PROVE SInv'
<1>1. IInv' /\ OnePlace'
  BY RuntimeInv DEF SInv, StreamNext, Dispatch
<1>2. UNCHANGED <<count, client, caller, future, outcome>> /\ Jobs' = Jobs
  BY DEF Take, callVars, Jobs
<1>3. queue \in Seq(Jobs \cup {Stop}) /\ queue # <<>> /\ queue' = Tail(queue)
  BY DEF SInv, IInv, TypeOK, Take
<1>4. /\ Len(queue) \in Nat \ {0}
      /\ Len(queue') = Len(queue) - 1
      /\ \A i \in 1..Len(queue') : queue'[i] = queue[i + 1]
      /\ Head(queue) = queue[1]
  BY <1>3, HeadTailProperties, LenProperties, EmptySeq
<1>5. \A j \in Jobs : /\ (\E i \in 1..Len(queue') : queue'[i] = j) =>
                           \E i \in 1..Len(queue) : queue[i] = j
                      /\ Head(queue) = j => \E i \in 1..Len(queue) : queue[i] = j
  <2>1. \A i \in 1..Len(queue') : i + 1 \in 1..Len(queue)
    BY <1>4
  <2>2. 1 \in 1..Len(queue)
    BY <1>4
  <2> QED BY <1>4, <2>1, <2>2
<1>6. \A v \in Workers :
        \/ at'[v] = at[v] /\ hand'[v] = hand[v]
        \/ at[v] = "get" /\ at'[v] = "exited"
        \/ at[v] = "get" /\ at'[v] = "executor" /\ hand'[v] = Head(queue)
  BY DEF Take, SInv, IInv, TypeOK
<1>7. Unbroken' = Unbroken
  BY DEF Unbroken, streamVars
<1>8. HeardSoFar'
  <2>1. ASSUME NEW j \in Jobs, client[j] \in Unbroken, caller[j] = "awaiting",
               NEW v \in Workers, hand'[v] = j
        PROVE  LET c == client[j] IN
               /\ at'[v] \in {"executor", "function"} => heard[c] = FirstFrames(sent[c] - 1)
               /\ at'[v] = "returned" /\ outcome[v] = "result" =>
                    heard[c] = FirstFrames(sent[c])
    <3>1. CASE at'[v] = at[v] /\ hand'[v] = hand[v]
      BY <2>1, <3>1 DEF SInv, HeardSoFar
    <3>2. CASE at'[v] = "exited"
      BY <3>2
    <3>3. CASE at'[v] = "executor" /\ hand'[v] = Head(queue)
      <4>1. \E i \in 1..Len(queue) : queue[i] = j
        BY <1>5, <2>1, <3>3
      <4> QED BY <2>1, <3>3, <4>1 DEF SInv, HeardSoFar
    <3> QED BY <1>6, <3>1, <3>2, <3>3
  <2> QED BY <1>2, <1>5, <1>7, <2>1 DEF SInv, HeardSoFar, streamVars
<1>9. \A v \in Workers : at[v] = "function" => at'[v] = "function" /\ hand'[v] = hand[v]
  BY <1>6
<1> QED BY <1>1, <1>2, <1>8, <1>9, OthersInv DEF SInv, OneScoreAtATime

LEMMA EnterGateKeepsStreams ==
  ASSUME SInv, NEW w \in Workers, EnterGate(w), UNCHANGED streamVars PROVE SInv'
<1>1. IInv' /\ OnePlace'
  BY RuntimeInv DEF SInv, StreamNext, Dispatch
<1>2. UNCHANGED <<count, client, caller, future, queue, hand>> /\ Jobs' = Jobs
  BY DEF EnterGate, callVars, Jobs
<1>3. \A v \in Workers :
        \/ at'[v] = at[v] /\ outcome'[v] = outcome[v]
        \/ at[v] = "executor" /\ at'[v] = "function"
        \/ at[v] = "executor" /\ at'[v] = "returned" /\ outcome'[v] = "skipped"
  BY DEF EnterGate, SInv, IInv, TypeOK
<1>4. Unbroken' = Unbroken
  BY DEF Unbroken, streamVars
<1>5. HeardSoFar'
  BY <1>2, <1>3, <1>4 DEF SInv, HeardSoFar, streamVars
<1>6. \A v \in Workers : at[v] = "function" => at'[v] = "function" /\ hand'[v] = hand[v]
  BY <1>2, <1>3
<1> QED BY <1>1, <1>2, <1>5, <1>6, OthersInv DEF SInv, OneScoreAtATime

LEMMA ResumeKeepsStreams ==
  ASSUME SInv, NEW w \in Workers, Resume(w), UNCHANGED streamVars PROVE SInv'
<1> DEFINE j == hand[w]
<1>1. IInv' /\ OnePlace'
  BY RuntimeInv DEF SInv, StreamNext, Dispatch
<1>2. UNCHANGED <<count, client, caller, queue>> /\ Jobs' = Jobs
  BY DEF Resume, callVars, Jobs
<1>3. /\ j \in Jobs /\ at[w] = "returned" /\ outcome[w] \in {"skipped", "result", "error"}
      /\ at'[w] = "get" /\ hand'[w] = Stop
      /\ \A v \in Workers \ {w} :
           at'[v] = at[v] /\ hand'[v] = hand[v] /\ outcome'[v] = outcome[v]
  BY DEF SInv, IInv, TypeOK, HandsHoldJobs, Resume, Busy
<1>4. /\ \A k \in Jobs : k # j => future'[k] = future[k]
      /\ \/ future'[j] = future[j]
         \/ /\ future[j] = "pending" /\ future'[j] = outcome[w]
            /\ outcome[w] \in {"result", "error"}
  BY <1>3 DEF Resume, Settle, Pending, SInv, IInv, TypeOK
<1>5. \A k \in Jobs : /\ caller[k] = "awaiting" => future'[k] # "cancelled"
                      /\ future[k] = "result" => future'[k] = "result"
  BY <1>3, <1>4 DEF SInv, OneScoreAtATime
<1>6. Unbroken' = Unbroken
  BY DEF Unbroken, streamVars
<1>7. Stop \notin Jobs
  BY DEF Jobs, Stop
<1>8. HeardSoFar'
  <2>1. ASSUME NEW k \in Jobs, client[k] \in Unbroken, caller[k] = "awaiting",
               future'[k] = "result"
        PROVE  heard[client[k]] = FirstFrames(sent[client[k]])
    BY <1>3, <1>4, <2>1 DEF SInv, HeardSoFar
  <2>2. \A k \in Jobs, v \in Workers : hand'[v] = k =>
          hand[v] = k /\ at'[v] = at[v] /\ outcome'[v] = outcome[v]
    BY <1>3, <1>7
  <2> QED BY <1>2, <1>6, <2>1, <2>2 DEF SInv, HeardSoFar, streamVars
<1>9. \A v \in Workers : at[v] = "function" => at'[v] = "function" /\ hand'[v] = hand[v]
  BY <1>3
<1> QED BY <1>1, <1>2, <1>5, <1>8, <1>9, OthersInv

(* start and close of the provider move no job.                             *)
LEMMA ProviderInv == ASSUME SInv, Provider, UNCHANGED streamVars PROVE SInv'
<1>1. IInv' /\ OnePlace'
  BY RuntimeInv DEF SInv, StreamNext
<1>2. /\ UNCHANGED <<count, client, caller, future, hand, outcome>> /\ Jobs' = Jobs
  BY DEF Provider, Start, Close, BeginClose, PutStop, EndClose, callVars, workerVars, Jobs
<1>3. \A v \in Workers : at'[v] = at[v] \/ (at[v] = "exited" /\ at'[v] = "get")
  <2>1. CASE phase = "new" /\ Start
    <3>1. \A v \in Workers : at[v] = "exited"
      BY <2>1 DEF SInv, IInv, WorkersFollowPhase, Alive
    <3> QED BY <2>1, <3>1 DEF Start
  <2>2. CASE Close
    BY <2>2 DEF Close, BeginClose, PutStop, EndClose, workerVars
  <2> QED BY <2>1, <2>2 DEF Provider
<1>4. \A j \in Jobs : (\E i \in 1..Len(queue') : queue'[i] = j) =>
                      \E i \in 1..Len(queue) : queue[i] = j
  <2>1. queue' = queue \/ queue' = Append(queue, Stop)
    BY DEF Provider, Start, Close, BeginClose, PutStop, EndClose
  <2>2. queue \in Seq(Jobs \cup {Stop}) /\ Stop \notin Jobs
    BY DEF SInv, IInv, TypeOK, Jobs, Stop
  <2>3. CASE queue' = Append(queue, Stop)
    <3>1. /\ Len(queue') = Len(queue) + 1 /\ Len(queue) \in Nat
          /\ queue'[Len(queue) + 1] = Stop
          /\ \A i \in 1..Len(queue) : queue'[i] = queue[i]
      BY <2>2, <2>3, AppendProperties, LenProperties
    <3>2. \A i \in 1..Len(queue') : i \in 1..Len(queue) \/ queue'[i] = Stop
      BY <3>1
    <3> QED BY <2>2, <3>1, <3>2
  <2> QED BY <2>1, <2>3
<1>5. Unbroken' = Unbroken
  BY DEF Unbroken, streamVars
<1>6. HeardSoFar'
  BY <1>2, <1>3, <1>4, <1>5 DEF SInv, HeardSoFar, streamVars
<1>7. \A v \in Workers : at[v] = "function" => at'[v] = "function" /\ hand'[v] = hand[v]
  BY <1>2, <1>3
<1> QED BY <1>1, <1>2, <1>6, <1>7, OthersInv DEF SInv, OneScoreAtATime

-----------------------------------------------------------------------------
LEMMA StreamNextInv == SInv /\ [StreamNext]_allVars => SInv'
<1> SUFFICES ASSUME SInv, [StreamNext]_allVars
             PROVE  SInv'
  OBVIOUS
<1>1. CASE UNCHANGED allVars
  <2>1. IInv' /\ OnePlace'
    BY <1>1, NextInv, NextOnePlace DEF SInv, allVars
  <2>2. Unbroken' = Unbroken
    BY <1>1 DEF Unbroken, allVars, streamVars
  <2>3. HeardSoFar'
    BY <1>1, <2>2, HeardKept DEF allVars, vars, streamVars
  <2> QED BY <1>1, <2>1, <2>3, OthersInv DEF allVars, vars, SInv, OneScoreAtATime
<1>2. ASSUME NEW w \in Workers, Dispatch(w), UNCHANGED streamVars PROVE SInv'
  BY <1>2, TakeKeepsStreams, EnterGateKeepsStreams, ResumeKeepsStreams DEF Dispatch
<1> QED
  BY <1>1, <1>2, NewStreamInv, ScoreInv, ScoreRefusedInv, ResetInv, CloseStreamInv,
     ScoreAnsweredInv, ScoreAbandonedInv, ReadHandleInv, ClassifyInv, ProviderInv
  DEF StreamNext

LEMMA StreamInvariant == StreamSpec => []SInv
BY StreamInitInv, StreamNextInv, PTL DEF StreamSpec

-----------------------------------------------------------------------------
(* An open stream that never failed, is not busy and was never reset has    *)
(* heard each of its frames once and in order: no deadline, full queue,     *)
(* cancellation or late thread can lose or repeat one unnoticed.            *)
THEOREM NoFrameGoesMissing == StreamSpec => []HearsEveryFrame
<1>1. SInv => HearsEveryFrame
  BY DEF SInv, HeardSoFar, HearsEveryFrame, Unbroken, Open, FirstFrames
<1> QED BY <1>1, StreamInvariant, PTL

(* There are as many leases as open streams, and at most max_streams.       *)
THEOREM LeasesMatchOpenStreams == StreamSpec => []LeasesAreExact
<1>1. SInv => LeasesAreExact
  BY DEF SInv
<1> QED BY <1>1, StreamInvariant, PTL
=============================================================================
