-------------------------- MODULE VADRuntimeProofs --------------------------
(* Theorems about VADRuntime, for every number of clients, workers, queue   *)
(* slots and jobs.                                                          *)
EXTENDS VADRuntime, FiniteSetTheorems, SequenceTheorems, TLAPS

(* Settling a future gives it an outcome and touches no other future.       *)
LEMMA SettleEffect ==
  ASSUME TypeOK, NEW j \in Jobs, NEW value \in {"result", "error", "cancelled"}
  PROVE  /\ Settle(j, value) \in [Jobs -> {"pending", "result", "error", "cancelled"}]
         /\ Settle(j, value)[j] # "pending"
         /\ \A k \in Jobs : ~Pending(k) => Settle(j, value)[k] = future[k]
         /\ \A k \in Jobs : k # j => Settle(j, value)[k] = future[k]
BY DEF TypeOK, Settle, Pending

(* The workers are finitely many, so the sentinels can be counted.          *)
LEMMA AliveSize ==
  /\ IsFiniteSet(Alive) /\ Cardinality(Alive) \in Nat
  /\ Cardinality(Workers) \in Nat
BY RuntimeAssumption, FS_Subset, FS_CardinalityType DEF Alive

-----------------------------------------------------------------------------
(* Initial states.                                                          *)

LEMMA InitInv == Init => IInv
<1> SUFFICES ASSUME Init
             PROVE  IInv
  OBVIOUS
<1>1. Jobs = {} /\ Alive = {} /\ Len(queue) = 0
  BY DEF Init, Jobs, Alive
<1>2. TypeOK
  BY <1>1, RuntimeAssumption, EmptySeq DEF Init, TypeOK, Jobs, Stop
<1>3. QueueShape
  BY <1>1 DEF Init, QueueShape
<1> QED
  BY <1>1, <1>2, <1>3
  DEF Init, IInv, WorkersFollowPhase, PendingIsSomewhere, GoneIsAbandoned,
      HandsHoldJobs, Busy

-----------------------------------------------------------------------------
(* submit.                                                                  *)

LEMMA AcceptInv == ASSUME IInv, NEW c \in Clients, Accept(c) PROVE IInv'
<1> DEFINE n == count + 1
<1>0. count \in Nat /\ count' = n /\ Jobs' = Jobs \cup {n} /\ n \notin Jobs /\ n # Stop
  BY RuntimeAssumption DEF IInv, TypeOK, Accept, Jobs, Stop
<1>1. queue \in Seq(Jobs \cup {Stop}) /\ queue' = Append(queue, n)
  BY DEF IInv, TypeOK, Accept
<1>2. /\ Len(queue') = Len(queue) + 1
      /\ queue'[Len(queue) + 1] = n
      /\ \A i \in 1..Len(queue) : queue'[i] = queue[i]
      /\ queue' \in Seq(Jobs' \cup {Stop})
      /\ Len(queue) \in Nat
  <2>1. queue \in Seq(Jobs' \cup {Stop})
    BY <1>0, <1>1, SeqMonotonic
  <2> QED BY <1>0, <1>1, <2>1, AppendProperties, LenProperties
<1>3. Alive' = Alive
  BY DEF Alive, Accept, workerVars
<1>4. TypeOK'
  <2>1. client' \in [Jobs' -> Clients]
    BY <1>0 DEF IInv, TypeOK, Accept, Extend, Jobs
  <2>2. future' \in [Jobs' -> {"pending", "result", "error", "cancelled"}]
    BY <1>0 DEF IInv, TypeOK, Accept, Extend, Jobs
  <2>3. caller' \in [Jobs' -> {"awaiting", "answered", "gone"}]
    BY <1>0 DEF IInv, TypeOK, Accept, Extend, Jobs
  <2>4. Len(queue') <= Capacity
    BY <1>2, RuntimeAssumption DEF Accept, HasRoom
  <2>5. count' \in 0..MaxJobs
    BY <1>0, RuntimeAssumption DEF Accept
  <2> QED
    BY <1>0, <1>2, <2>1, <2>2, <2>3, <2>4, <2>5 DEF IInv, TypeOK, Accept, workerVars
<1>5. QueueShape'
  <2>1. phase = "up" /\ phase' = "up" /\ unsent' = unsent
    BY DEF Accept, Accepts
  <2>2. PICK m \in 0..Len(queue) :
          /\ \A i \in 1..Len(queue) : queue[i] = Stop <=> i > m
          /\ m = Len(queue) /\ unsent = 0
    BY <2>1 DEF IInv, QueueShape
  <2>3. \A i \in 1..Len(queue') : queue'[i] = Stop <=> i > m + 1
    BY <1>0, <1>2, <2>2
  <2>4. m + 1 \in 0..Len(queue')
    BY <1>2, <2>2
  <2>5. m + 1 = Len(queue')
    BY <1>2, <2>2
  <2> QED BY <2>1, <2>2, <2>3, <2>4, <2>5 DEF QueueShape
<1>6. PendingIsSomewhere'
  <2> SUFFICES ASSUME NEW j \in Jobs', Pending(j)'
               PROVE  \/ \E i \in 1..Len(queue') : queue'[i] = j
                      \/ \E w \in Workers : at'[w] \in Busy /\ hand'[w] = j
    BY DEF PendingIsSomewhere
  <2>1. CASE j = n
    BY <1>2, <2>1
  <2>2. CASE j \in Jobs
    <3>1. Pending(j)
      BY <2>2, <1>0 DEF Pending, Accept, Extend, Jobs
    <3>2. CASE \E i \in 1..Len(queue) : queue[i] = j
      BY <3>2, <1>2
    <3>3. CASE \E w \in Workers : at[w] \in Busy /\ hand[w] = j
      BY <3>3 DEF Accept, workerVars
    <3> QED BY <2>2, <3>1, <3>2, <3>3 DEF IInv, PendingIsSomewhere
  <2> QED BY <1>0, <2>1, <2>2
<1>7. GoneIsAbandoned'
  BY <1>0 DEF IInv, TypeOK, GoneIsAbandoned, Accept, Extend, Pending, Jobs
<1>8. WorkersFollowPhase' /\ HandsHoldJobs'
  BY <1>0, <1>3
  DEF IInv, WorkersFollowPhase, HandsHoldJobs, Accept, Accepts, workerVars
<1> QED BY <1>4, <1>5, <1>6, <1>7, <1>8 DEF IInv

LEMMA AnswerInv == ASSUME IInv, NEW j \in Jobs, Answer(j) PROVE IInv'
<1>1. TypeOK'
  BY DEF IInv, TypeOK, Answer, workerVars, Jobs
<1>2. GoneIsAbandoned'
  BY DEF IInv, TypeOK, GoneIsAbandoned, Answer, Pending, Jobs
<1> QED
  BY <1>1, <1>2
  DEF IInv, QueueShape, WorkersFollowPhase, PendingIsSomewhere, HandsHoldJobs,
      Answer, workerVars, Alive, Pending, Jobs

LEMMA GiveUpInv == ASSUME IInv, NEW j \in Jobs, GiveUp(j) PROVE IInv'
<1>1. /\ future' \in [Jobs -> {"pending", "result", "error", "cancelled"}]
      /\ future'[j] # "pending"
      /\ \A k \in Jobs : ~Pending(k) => future'[k] = future[k]
  BY SettleEffect DEF IInv, GiveUp
<1>2. TypeOK'
  BY <1>1 DEF IInv, TypeOK, GiveUp, workerVars, Jobs
<1>3. GoneIsAbandoned'
  BY <1>1 DEF IInv, TypeOK, GoneIsAbandoned, GiveUp, Pending, Jobs
<1>4. PendingIsSomewhere'
  BY <1>1 DEF IInv, PendingIsSomewhere, GiveUp, workerVars, Pending, Jobs
<1> QED
  BY <1>2, <1>3, <1>4
  DEF IInv, QueueShape, WorkersFollowPhase, HandsHoldJobs, GiveUp, workerVars,
      Alive, Jobs

-----------------------------------------------------------------------------
(* Workers and threads.                                                     *)

LEMMA TakeInv == ASSUME IInv, NEW w \in Workers, Take(w) PROVE IInv'
<1>0. Jobs' = Jobs
  BY DEF Take, callVars, Jobs
<1>1. /\ queue \in Seq(Jobs \cup {Stop}) /\ queue # <<>>
      /\ queue' = Tail(queue)
  BY DEF IInv, TypeOK, Take
<1>2. /\ Len(queue) \in Nat \ {0}
      /\ Len(queue') = Len(queue) - 1
      /\ queue' \in Seq(Jobs \cup {Stop})
      /\ \A i \in 1..Len(queue') : queue'[i] = queue[i + 1]
      /\ Head(queue) = queue[1] /\ Head(queue) \in Jobs \cup {Stop}
  BY <1>1, HeadTailProperties, LenProperties, EmptySeq, ElementOfSeq
<1>3. PICK m \in 0..Len(queue) :
        /\ \A i \in 1..Len(queue) : queue[i] = Stop <=> i > m
        /\ phase = "closing" => Len(queue) - m + unsent = Cardinality(Alive)
        /\ phase = "closing" /\ Alive # Workers => m = 0
        /\ phase # "closing" => m = Len(queue) /\ unsent = 0
  BY DEF IInv, QueueShape
<1>4. phase' = phase /\ unsent' = unsent /\ future' = future /\ outcome' = outcome
      /\ client' = client /\ caller' = caller /\ abandoned' = abandoned /\ count' = count
  BY DEF Take, callVars
<1>5. phase \in {"up", "closing"}
  BY DEF IInv, TypeOK, WorkersFollowPhase, Take
<1>6. CASE Head(queue) = Stop
  <2>1. m = 0 /\ phase = "closing"
    BY <1>2, <1>3, <1>5, <1>6
  <2>2. at' = [at EXCEPT ![w] = "exited"] /\ hand' = hand
    BY <1>6 DEF Take
  <2>3. Alive' = Alive \ {w} /\ w \in Alive
    BY <2>2 DEF Alive, Take, IInv, TypeOK
  <2>4. Cardinality(Alive') = Cardinality(Alive) - 1
    BY <2>3, AliveSize, FS_RemoveElement
  <2>5. TypeOK'
    BY <1>0, <1>2, <1>4, <2>2, RuntimeAssumption DEF IInv, TypeOK
  <2>6. QueueShape'
    <3>1. \A i \in 1..Len(queue') : queue'[i] = Stop <=> i > 0
      BY <1>2, <1>3, <2>1
    <3>2. Len(queue') - 0 + unsent' = Cardinality(Alive')
      BY <1>2, <1>3, <1>4, <2>1, <2>4, AliveSize DEF IInv, TypeOK
    <3>3. 0 \in 0..Len(queue')
      BY <1>2
    <3> QED BY <1>4, <2>1, <3>1, <3>2, <3>3 DEF QueueShape
  <2>7. PendingIsSomewhere'
    <3> SUFFICES ASSUME NEW j \in Jobs, Pending(j)
                 PROVE  \E v \in Workers : at'[v] \in Busy /\ hand'[v] = j
      BY <1>0, <1>4 DEF PendingIsSomewhere, Pending
    <3>1. \A i \in 1..Len(queue) : queue[i] # j
      BY <1>3, <2>1 DEF Jobs, Stop
    <3>2. PICK v \in Workers : at[v] \in Busy /\ hand[v] = j
      BY <3>1 DEF IInv, PendingIsSomewhere
    <3>3. v # w
      BY <3>2 DEF Take, Busy
    <3> QED BY <2>2, <3>2, <3>3 DEF IInv, TypeOK
  <2>8. WorkersFollowPhase' /\ HandsHoldJobs'
    BY <1>0, <1>4, <2>1, <2>2
    DEF IInv, TypeOK, WorkersFollowPhase, HandsHoldJobs, Busy
  <2>9. GoneIsAbandoned'
    BY <1>0, <1>4 DEF IInv, GoneIsAbandoned, Pending
  <2> QED BY <2>5, <2>6, <2>7, <2>8, <2>9 DEF IInv
<1>7. CASE Head(queue) # Stop
  <2>1. m > 0
    BY <1>2, <1>3, <1>7
  <2>2. Head(queue) \in Jobs
    BY <1>2, <1>7
  <2>3. \/ future[Head(queue)] = "cancelled" /\ at' = at /\ hand' = hand
        \/ at' = [at EXCEPT ![w] = "executor"] /\ hand' = [hand EXCEPT ![w] = Head(queue)]
    BY <1>7 DEF Take
  <2>4. Alive' = Alive
    BY <2>3 DEF Alive, Take, IInv, TypeOK
  <2>5. TypeOK'
    <3>1. at' \in [Workers -> Busy \cup {"get", "exited"}]
      BY <2>3 DEF IInv, TypeOK, Busy
    <3>2. hand' \in [Workers -> Jobs \cup {Stop}]
      BY <2>2, <2>3 DEF IInv, TypeOK
    <3> QED BY <1>0, <1>2, <1>4, <3>1, <3>2, RuntimeAssumption DEF IInv, TypeOK
  <2>6. QueueShape'
    <3>1. \A i \in 1..Len(queue') : queue'[i] = Stop <=> i > m - 1
      BY <1>2, <1>3
    <3>2. m - 1 \in 0..Len(queue')
      BY <1>2, <1>3, <2>1
    <3>3. Len(queue') - (m - 1) = Len(queue) - m
      BY <1>2, <1>3
    <3>4. phase = "closing" => Alive' = Workers
      BY <1>3, <2>1, <2>4
    <3>5. phase = "closing" => Len(queue') - (m - 1) + unsent' = Cardinality(Alive')
      BY <1>3, <1>4, <2>4, <3>3
    <3>6. phase # "closing" => m - 1 = Len(queue') /\ unsent' = 0
      BY <1>2, <1>3, <1>4
    <3> QED BY <1>4, <3>1, <3>2, <3>4, <3>5, <3>6 DEF QueueShape
  <2>7. PendingIsSomewhere'
    <3> SUFFICES ASSUME NEW j \in Jobs, Pending(j)
                 PROVE  \/ \E i \in 1..Len(queue') : queue'[i] = j
                        \/ \E v \in Workers : at'[v] \in Busy /\ hand'[v] = j
      BY <1>0, <1>4 DEF PendingIsSomewhere, Pending
    <3>1. CASE \E i \in 1..Len(queue) : queue[i] = j
      <4>1. PICK i \in 1..Len(queue) : queue[i] = j
        BY <3>1
      <4>2. CASE i = 1
        BY <1>2, <2>3, <4>1, <4>2 DEF Pending, Busy, IInv, TypeOK
      <4>3. CASE i # 1
        <5>1. i - 1 \in 1..Len(queue') /\ queue'[i - 1] = j
          BY <1>2, <4>1, <4>3
        <5> QED BY <5>1
      <4> QED BY <4>2, <4>3
    <3>2. CASE \E v \in Workers : at[v] \in Busy /\ hand[v] = j
      <4>1. PICK v \in Workers : at[v] \in Busy /\ hand[v] = j
        BY <3>2
      <4>2. v # w
        BY <4>1 DEF Take, Busy
      <4> QED BY <2>3, <4>1, <4>2 DEF IInv, TypeOK
    <3> QED BY <3>1, <3>2 DEF IInv, PendingIsSomewhere
  <2>8. HandsHoldJobs'
    BY <1>0, <1>4, <2>2, <2>3 DEF IInv, TypeOK, HandsHoldJobs, Busy
  <2>9. WorkersFollowPhase' /\ GoneIsAbandoned'
    BY <1>0, <1>4, <1>5, <2>4
    DEF IInv, WorkersFollowPhase, GoneIsAbandoned, Pending
  <2> QED BY <2>5, <2>6, <2>7, <2>8, <2>9 DEF IInv
<1> QED BY <1>6, <1>7

(* The steps of a busy worker leave it busy or send it back to the queue:   *)
(* none of them changes who is alive.                                       *)
LEMMA BusyKeepsShape ==
  ASSUME IInv, NEW w \in Workers, NEW place \in Busy \cup {"get"}, at[w] \in Busy,
         at' = [at EXCEPT ![w] = place], UNCHANGED <<phase, queue, unsent>>
  PROVE  QueueShape' /\ WorkersFollowPhase'
<1>1. Alive' = Alive
  BY DEF Alive, IInv, TypeOK, Busy
<1> QED BY <1>1 DEF IInv, QueueShape, WorkersFollowPhase

LEMMA EnterGateInv == ASSUME IInv, NEW w \in Workers, EnterGate(w) PROVE IInv'
<1>1. QueueShape' /\ WorkersFollowPhase'
  BY BusyKeepsShape DEF EnterGate, Busy
<1>2. TypeOK'
  BY DEF IInv, TypeOK, EnterGate, callVars, Busy, Jobs
<1>3. PendingIsSomewhere'
  BY DEF IInv, TypeOK, PendingIsSomewhere, EnterGate, callVars, Busy, Jobs, Pending
<1>4. HandsHoldJobs'
  BY DEF IInv, TypeOK, HandsHoldJobs, EnterGate, GateOpen, callVars, Busy, Jobs
<1>5. GoneIsAbandoned'
  BY DEF IInv, GoneIsAbandoned, EnterGate, callVars, Pending, Jobs
<1> QED BY <1>1, <1>2, <1>3, <1>4, <1>5 DEF IInv

LEMMA ReturnInv ==
  ASSUME IInv, NEW w \in Workers, NEW value \in {"result", "error"}, Return(w, value)
  PROVE  IInv'
<1>1. QueueShape' /\ WorkersFollowPhase'
  BY BusyKeepsShape DEF Return, Busy
<1>2. TypeOK'
  BY DEF IInv, TypeOK, Return, callVars, Busy, Jobs
<1>3. PendingIsSomewhere'
  BY DEF IInv, TypeOK, PendingIsSomewhere, Return, callVars, Busy, Jobs, Pending
<1>4. HandsHoldJobs'
  BY DEF IInv, TypeOK, HandsHoldJobs, Return, callVars, Busy, Jobs
<1>5. GoneIsAbandoned'
  BY DEF IInv, GoneIsAbandoned, Return, callVars, Pending, Jobs
<1> QED BY <1>1, <1>2, <1>3, <1>4, <1>5 DEF IInv

LEMMA ResumeInv == ASSUME IInv, NEW w \in Workers, Resume(w) PROVE IInv'
<1>0. Jobs' = Jobs /\ hand[w] \in Jobs /\ outcome[w] \in {"skipped", "result", "error"}
  BY DEF IInv, TypeOK, HandsHoldJobs, Resume, callVars, Jobs, Busy
<1>1. QueueShape' /\ WorkersFollowPhase'
  BY BusyKeepsShape DEF Resume, Busy
<1>2. /\ future' \in [Jobs -> {"pending", "result", "error", "cancelled"}]
      /\ future'[hand[w]] # "pending"
      /\ \A k \in Jobs : ~Pending(k) => future'[k] = future[k]
      /\ \A k \in Jobs : k # hand[w] => future'[k] = future[k]
  <2>1. CASE outcome[w] = "skipped"
    <3>1. ~Pending(hand[w])
      BY <1>0, <2>1 DEF IInv, HandsHoldJobs, GoneIsAbandoned, Resume
    <3> QED BY <2>1, <3>1 DEF IInv, TypeOK, Resume, Pending
  <2>2. CASE outcome[w] # "skipped"
    <3>1. outcome[w] \in {"result", "error", "cancelled"}
      BY <1>0, <2>2
    <3>2. future' = Settle(hand[w], outcome[w])
      BY <2>2 DEF Resume
    <3> QED BY <1>0, <3>1, <3>2, SettleEffect DEF IInv
  <2> QED BY <2>1, <2>2
<1>3. TypeOK'
  BY <1>0, <1>2 DEF IInv, TypeOK, Resume, callVars, Busy
<1>4. PendingIsSomewhere'
  <2> SUFFICES ASSUME NEW j \in Jobs, Pending(j)'
               PROVE  \/ \E i \in 1..Len(queue') : queue'[i] = j
                      \/ \E v \in Workers : at'[v] \in Busy /\ hand'[v] = j
    BY <1>0 DEF PendingIsSomewhere
  <2>1. Pending(j) /\ j # hand[w]
    BY <1>2 DEF Pending
  <2>2. CASE \E i \in 1..Len(queue) : queue[i] = j
    BY <2>2 DEF Resume
  <2>3. CASE \E v \in Workers : at[v] \in Busy /\ hand[v] = j
    BY <2>1, <2>3 DEF Resume, IInv, TypeOK
  <2> QED BY <2>1, <2>2, <2>3 DEF IInv, PendingIsSomewhere
<1>5. HandsHoldJobs'
  BY <1>0 DEF IInv, TypeOK, HandsHoldJobs, Resume, callVars, Busy
<1>6. GoneIsAbandoned'
  BY <1>0, <1>2 DEF IInv, TypeOK, GoneIsAbandoned, Resume, callVars, Pending
<1> QED BY <1>1, <1>3, <1>4, <1>5, <1>6 DEF IInv

-----------------------------------------------------------------------------
(* start and close.                                                         *)

LEMMA StartInv == ASSUME IInv, Start PROVE IInv'
<1>1. Jobs' = Jobs /\ Alive = {} /\ queue = <<>> /\ Alive' = Workers
  BY DEF IInv, WorkersFollowPhase, Start, callVars, Jobs, Alive
<1>2. \A v \in Workers : at[v] = "exited"
  BY <1>1 DEF Alive
<1>3. TypeOK'
  BY <1>1 DEF IInv, TypeOK, Start, callVars
<1>4. QueueShape'
  BY DEF IInv, QueueShape, Start
<1>5. PendingIsSomewhere'
  BY <1>1, <1>2 DEF IInv, PendingIsSomewhere, Start, Pending, Busy
<1> QED
  BY <1>1, <1>3, <1>4, <1>5
  DEF IInv, WorkersFollowPhase, HandsHoldJobs, GoneIsAbandoned, Start, callVars,
      Pending, Busy

LEMMA BeginCloseInv == ASSUME IInv, BeginClose PROVE IInv'
<1>1. Jobs' = Jobs /\ Alive' = Alive /\ Alive = Workers
  BY DEF IInv, WorkersFollowPhase, BeginClose, callVars, workerVars, Jobs, Alive
<1>2. TypeOK'
  BY <1>1, AliveSize DEF IInv, TypeOK, BeginClose, callVars, workerVars, Sentinels
<1>3. QueueShape'
  <2>1. PICK m \in 0..Len(queue) :
          /\ \A i \in 1..Len(queue) : queue[i] = Stop <=> i > m
          /\ m = Len(queue)
    BY DEF IInv, QueueShape, BeginClose
  <2>2. Len(queue) - m + unsent' = Cardinality(Alive')
    BY <1>1, <2>1, AliveSize DEF BeginClose, Sentinels
  <2> QED BY <1>1, <2>1, <2>2 DEF QueueShape, BeginClose
<1> QED
  BY <1>1, <1>2, <1>3
  DEF IInv, WorkersFollowPhase, PendingIsSomewhere, HandsHoldJobs, GoneIsAbandoned,
      BeginClose, callVars, workerVars, Pending

LEMMA PutStopInv == ASSUME IInv, PutStop PROVE IInv'
<1>1. Jobs' = Jobs /\ Alive' = Alive /\ phase' = "closing" /\ phase = "closing"
  BY DEF PutStop, callVars, workerVars, Jobs, Alive
<1>2. queue \in Seq(Jobs \cup {Stop}) /\ queue' = Append(queue, Stop) /\ unsent \in Nat
  BY DEF IInv, TypeOK, PutStop
<1>3. /\ Len(queue) \in Nat
      /\ Len(queue') = Len(queue) + 1
      /\ queue'[Len(queue) + 1] = Stop
      /\ \A i \in 1..Len(queue) : queue'[i] = queue[i]
      /\ queue' \in Seq(Jobs \cup {Stop})
  BY <1>2, AppendProperties, LenProperties
<1>4. TypeOK'
  <2>1. unsent' \in Nat
    BY <1>2 DEF PutStop
  <2>2. Len(queue') <= Capacity
    BY <1>3, RuntimeAssumption DEF PutStop, HasRoom
  <2> QED
    BY <1>1, <1>3, <2>1, <2>2 DEF IInv, TypeOK, PutStop, callVars, workerVars
<1>5. QueueShape'
  <2>1. PICK m \in 0..Len(queue) :
          /\ \A i \in 1..Len(queue) : queue[i] = Stop <=> i > m
          /\ Len(queue) - m + unsent = Cardinality(Alive)
          /\ Alive # Workers => m = 0
    BY <1>1 DEF IInv, QueueShape
  <2>2. \A i \in 1..Len(queue') : queue'[i] = Stop <=> i > m
    BY <1>3, <2>1
  <2>3. m \in 0..Len(queue')
    BY <1>3, <2>1
  <2>4. Len(queue') - m + unsent' = Cardinality(Alive')
    BY <1>1, <1>2, <1>3, <2>1 DEF PutStop
  <2> QED BY <1>1, <2>1, <2>2, <2>3, <2>4 DEF QueueShape
<1>6. PendingIsSomewhere'
  BY <1>1, <1>3 DEF IInv, PendingIsSomewhere, PutStop, workerVars, Pending
<1> QED
  BY <1>1, <1>4, <1>5, <1>6
  DEF IInv, WorkersFollowPhase, HandsHoldJobs, GoneIsAbandoned, PutStop, callVars,
      workerVars, Pending

LEMMA EndCloseInv == ASSUME IInv, EndClose PROVE IInv'
<1>1. Jobs' = Jobs /\ Alive' = Alive /\ Alive = {}
  BY DEF EndClose, Joined, callVars, workerVars, Jobs, Alive
<1>2. Cardinality(Alive) = 0 /\ Alive # Workers
  BY <1>1, FS_EmptySet, RuntimeAssumption
<1>3. queue = <<>>
  <2>1. PICK m \in 0..Len(queue) :
          /\ Len(queue) - m + unsent = Cardinality(Alive)
          /\ m = 0
    BY <1>2 DEF IInv, QueueShape, EndClose
  <2>2. Len(queue) = 0
    BY <1>2, <2>1 DEF EndClose, IInv, TypeOK
  <2> QED BY <2>2, EmptySeq DEF IInv, TypeOK
<1>4. QueueShape'
  <2>1. Len(queue') = 0 /\ phase' = "down" /\ unsent' = 0
    BY <1>3 DEF EndClose
  <2> QED BY <2>1 DEF QueueShape
<1>5. TypeOK'
  BY <1>1 DEF IInv, TypeOK, EndClose, callVars, workerVars
<1> QED
  BY <1>1, <1>3, <1>4, <1>5
  DEF IInv, WorkersFollowPhase, PendingIsSomewhere, HandsHoldJobs, GoneIsAbandoned,
      EndClose, callVars, workerVars, Pending

-----------------------------------------------------------------------------
LEMMA NextInv == IInv /\ [Next]_vars => IInv'
<1>1. ASSUME IInv, UNCHANGED vars PROVE IInv'
  <2>1. Jobs' = Jobs /\ Alive' = Alive
    BY <1>1 DEF vars, Jobs, Alive
  <2>2. TypeOK' /\ QueueShape' /\ WorkersFollowPhase'
    BY <1>1, <2>1 DEF vars, IInv, TypeOK, QueueShape, WorkersFollowPhase
  <2>3. PendingIsSomewhere' /\ HandsHoldJobs' /\ GoneIsAbandoned'
    BY <1>1, <2>1
    DEF vars, IInv, PendingIsSomewhere, HandsHoldJobs, GoneIsAbandoned, Pending, Busy
  <2> QED BY <2>2, <2>3 DEF IInv
<1>2. ASSUME IInv, NEW w \in Workers, Worker(w) PROVE IInv'
  BY <1>2, TakeInv, EnterGateInv, ReturnInv, ResumeInv DEF Worker
<1>3. ASSUME IInv, Close PROVE IInv'
  BY <1>3, BeginCloseInv, PutStopInv, EndCloseInv DEF Close
<1> QED BY <1>1, <1>2, <1>3, AcceptInv, AnswerInv, GiveUpInv, StartInv DEF Next

LEMMA Invariant == Spec => []IInv
BY InitInv, NextInv, PTL DEF Spec

-----------------------------------------------------------------------------
(* A job is in one place.                                                   *)

LEMMA AcceptOnePlace ==
  ASSUME IInv, OnePlace, NEW c \in Clients, Accept(c) PROVE OnePlace'
<1> DEFINE n == count + 1
<1>0. count \in Nat /\ Jobs' = Jobs \cup {n} /\ n \notin Jobs /\ n # Stop
  BY RuntimeAssumption DEF IInv, TypeOK, Accept, Jobs, Stop
<1>1. queue \in Seq(Jobs \cup {Stop}) /\ queue' = Append(queue, n)
  BY DEF IInv, TypeOK, Accept
<1>2. /\ Len(queue') = Len(queue) + 1 /\ Len(queue) \in Nat
      /\ queue'[Len(queue) + 1] = n
      /\ \A i \in 1..Len(queue) : queue'[i] = queue[i] /\ queue[i] # n
  BY <1>0, <1>1, AppendProperties, LenProperties, ElementOfSeq
<1>3. at' = at /\ hand' = hand
  BY DEF Accept, workerVars
<1>4. \A w \in Workers : hand[w] # n
  BY <1>0 DEF IInv, TypeOK
<1>5. \A j \in Jobs' : j # n => j \in Jobs /\ future'[j] = future[j]
  BY <1>0 DEF Accept, Extend, Jobs
<1>6. future'[n] = "pending"
  BY <1>0 DEF Accept, Extend, Jobs
<1> QED BY <1>0, <1>2, <1>3, <1>4, <1>5, <1>6 DEF OnePlace

(* A step that moves no job, and settles none but as cancelled.             *)
LEMMA OnePlaceKept ==
  ASSUME OnePlace, UNCHANGED <<count, queue, hand>>,
         \A w \in Workers : at'[w] \in Busy => at[w] \in Busy,
         \A j \in Jobs : future'[j] \in {"result", "error"} => future'[j] = future[j]
  PROVE  OnePlace'
<1>1. Jobs' = Jobs
  BY DEF Jobs
<1> QED BY <1>1 DEF OnePlace

LEMMA TakeOnePlace ==
  ASSUME IInv, OnePlace, NEW w \in Workers, Take(w) PROVE OnePlace'
<1>0. Jobs' = Jobs /\ future' = future
  BY DEF Take, callVars, Jobs
<1>1. queue \in Seq(Jobs \cup {Stop}) /\ queue # <<>> /\ queue' = Tail(queue)
  BY DEF IInv, TypeOK, Take
<1>2. /\ Len(queue) \in Nat \ {0}
      /\ Len(queue') = Len(queue) - 1
      /\ \A i \in 1..Len(queue') : queue'[i] = queue[i + 1]
      /\ Head(queue) = queue[1]
  BY <1>1, HeadTailProperties, LenProperties, EmptySeq
<1>3. \/ \A v \in Workers : at'[v] \in Busy => at[v] \in Busy /\ hand'[v] = hand[v]
      \/ /\ Head(queue) # Stop /\ future[Head(queue)] # "cancelled"
         /\ at[w] \notin Busy /\ hand'[w] = Head(queue)
         /\ \A v \in Workers \ {w} : at'[v] = at[v] /\ hand'[v] = hand[v]
  BY DEF Take, IInv, TypeOK, Busy
<1>4. \A i, k \in 1..Len(queue') : queue'[i] = queue'[k] /\ queue'[i] # Stop => i = k
  <2> TAKE i, k \in 1..Len(queue')
  <2>1. i + 1 \in 1..Len(queue) /\ k + 1 \in 1..Len(queue)
    BY <1>2
  <2> QED BY <1>2, <2>1 DEF OnePlace
<1>5. \A i \in 1..Len(queue') :
        /\ i + 1 \in 1..Len(queue) /\ 1 \in 1..Len(queue) /\ i + 1 # 1
        /\ queue'[i] = queue[i + 1]
  BY <1>2
<1>6. CASE \A v \in Workers : at'[v] \in Busy => at[v] \in Busy /\ hand'[v] = hand[v]
  BY <1>0, <1>4, <1>5, <1>6 DEF OnePlace
<1>7. CASE /\ Head(queue) # Stop /\ future[Head(queue)] # "cancelled"
           /\ at[w] \notin Busy /\ hand'[w] = Head(queue)
           /\ \A v \in Workers \ {w} : at'[v] = at[v] /\ hand'[v] = hand[v]
  <2>1. 1 \in 1..Len(queue)
    BY <1>2
  <2>2. \A i \in 1..Len(queue'), v \in Workers : at'[v] \in Busy => hand'[v] # queue'[i]
    BY <1>2, <1>5, <1>7, <2>1 DEF OnePlace
  <2>3. \A v \in Workers \ {w} : at[v] \in Busy => hand[v] # Head(queue)
    BY <1>2, <2>1 DEF OnePlace
  <2>4. \A u, v \in Workers :
          at'[u] \in Busy /\ at'[v] \in Busy /\ hand'[u] = hand'[v] => u = v
    BY <1>7, <2>3 DEF OnePlace
  <2>5. \A j \in Jobs : future[j] \in {"result", "error"} =>
          /\ \A i \in 1..Len(queue') : queue'[i] # j
          /\ \A v \in Workers : at'[v] \in Busy => hand'[v] # j
    BY <1>2, <1>5, <1>7, <2>1 DEF OnePlace
  <2> QED BY <1>0, <1>4, <2>2, <2>4, <2>5 DEF OnePlace
<1> QED BY <1>3, <1>6, <1>7

LEMMA ResumeOnePlace ==
  ASSUME IInv, OnePlace, NEW w \in Workers, Resume(w) PROVE OnePlace'
<1>0. Jobs' = Jobs /\ queue' = queue
  BY DEF Resume, callVars, Jobs
<1>1. /\ \A v \in Workers \ {w} : at'[v] = at[v] /\ hand'[v] = hand[v]
      /\ at[w] \in Busy /\ at'[w] \notin Busy
  BY DEF Resume, IInv, TypeOK, Busy
<1>2. \A j \in Jobs : j # hand[w] => future'[j] = future[j]
  BY DEF Resume, Settle, IInv, TypeOK
<1>3. \A i \in 1..Len(queue) : queue[i] # hand[w]
  BY <1>1 DEF OnePlace
<1>4. \A v \in Workers \ {w} : at[v] \in Busy => hand[v] # hand[w]
  BY <1>1 DEF OnePlace
<1> QED BY <1>0, <1>1, <1>2, <1>3, <1>4 DEF OnePlace

LEMMA PutStopOnePlace == ASSUME IInv, OnePlace, PutStop PROVE OnePlace'
<1>0. Jobs' = Jobs /\ at' = at /\ hand' = hand /\ future' = future
  BY DEF PutStop, callVars, workerVars, Jobs
<1>1. queue \in Seq(Jobs \cup {Stop}) /\ queue' = Append(queue, Stop)
  BY DEF IInv, TypeOK, PutStop
<1>2. /\ Len(queue') = Len(queue) + 1 /\ Len(queue) \in Nat
      /\ queue'[Len(queue) + 1] = Stop
      /\ \A i \in 1..Len(queue) : queue'[i] = queue[i]
  BY <1>1, AppendProperties, LenProperties
<1>3. Stop \notin Jobs
  BY DEF Jobs, Stop
<1>4. \A w \in Workers : at[w] \in Busy => hand[w] # Stop
  BY <1>3 DEF IInv, HandsHoldJobs
<1> QED BY <1>0, <1>2, <1>3, <1>4 DEF OnePlace

LEMMA InitOnePlace == Init => OnePlace
<1> SUFFICES ASSUME Init
             PROVE  OnePlace
  OBVIOUS
<1>1. Jobs = {} /\ 1..Len(queue) = {} /\ \A w \in Workers : at[w] \notin Busy
  BY DEF Init, Jobs, Busy
<1> QED BY <1>1 DEF OnePlace

LEMMA NextOnePlace == IInv /\ OnePlace /\ [Next]_vars => OnePlace'
<1> SUFFICES ASSUME IInv, OnePlace, [Next]_vars
             PROVE  OnePlace'
  OBVIOUS
<1>1. CASE UNCHANGED vars
  BY <1>1, OnePlaceKept DEF vars
<1>2. ASSUME NEW j \in Jobs, Answer(j) PROVE OnePlace'
  BY <1>2, OnePlaceKept DEF Answer, workerVars
<1>3. ASSUME NEW j \in Jobs, GiveUp(j) PROVE OnePlace'
  <2>1. \A k \in Jobs : future'[k] \in {"result", "error"} => future'[k] = future[k]
    BY <1>3 DEF GiveUp, Settle, IInv, TypeOK
  <2> QED BY <1>3, <2>1, OnePlaceKept DEF GiveUp, workerVars
<1>4. ASSUME NEW w \in Workers, EnterGate(w) PROVE OnePlace'
  <2>1. \A v \in Workers : at'[v] \in Busy => at[v] \in Busy
    BY <1>4 DEF EnterGate, IInv, TypeOK, Busy
  <2> QED BY <1>4, <2>1, OnePlaceKept DEF EnterGate, callVars
<1>5. ASSUME NEW w \in Workers, NEW value, Return(w, value) PROVE OnePlace'
  <2>1. \A v \in Workers : at'[v] \in Busy => at[v] \in Busy
    BY <1>5 DEF Return, IInv, TypeOK, Busy
  <2> QED BY <1>5, <2>1, OnePlaceKept DEF Return, callVars
<1>6. CASE Start
  <2>1. \A v \in Workers : at'[v] \notin Busy
    BY <1>6 DEF Start, Busy
  <2> QED BY <1>6, <2>1, OnePlaceKept DEF Start, callVars
<1>7. CASE BeginClose \/ EndClose
  BY <1>7, OnePlaceKept DEF BeginClose, EndClose, callVars, workerVars
<1> QED
  BY <1>1, <1>2, <1>3, <1>4, <1>5, <1>6, <1>7, AcceptOnePlace, TakeOnePlace,
     ResumeOnePlace, PutStopOnePlace
  DEF Next, Worker, Close

-----------------------------------------------------------------------------
(* The properties the runs check.                                           *)

(* Types, and the queue within its maxsize.                                 *)
THEOREM TypeCorrect == Spec => []TypeOK
<1>1. IInv => TypeOK
  BY DEF IInv
<1> QED BY <1>1, Invariant, PTL

(* An accepted job that is not settled is in front of every sentinel of     *)
(* close or in a worker's hands: close abandons nothing it has accepted.    *)
THEOREM NothingDropped == Spec => []AcceptedIsHeld
<1>1. IInv => AcceptedIsHeld
  <2> SUFFICES ASSUME IInv, NEW j \in Jobs, Pending(j),
                      ~ \E w \in Workers : at[w] \in Busy /\ hand[w] = j
               PROVE  \E i \in 1..Len(queue) :
                        queue[i] = j /\ \A k \in 1..i : queue[k] # Stop
    BY DEF AcceptedIsHeld
  <2>1. PICK i \in 1..Len(queue) : queue[i] = j
    BY DEF IInv, PendingIsSomewhere
  <2>2. PICK m \in 0..Len(queue) :
          \A k \in 1..Len(queue) : queue[k] = Stop <=> k > m
    BY DEF IInv, QueueShape
  <2>3. Len(queue) \in Nat
    BY LenProperties DEF IInv, TypeOK
  <2>4. j # Stop
    BY DEF Jobs, Stop
  <2>5. ~(i > m)
    BY <2>1, <2>2, <2>4
  <2>6. \A k \in 1..i : queue[k] # Stop
    BY <2>2, <2>3, <2>5
  <2> QED BY <2>1, <2>6
<1> QED BY <1>1, Invariant, PTL

(* After close no thread is inside a classifier, nothing is queued and      *)
(* nobody waits.                                                            *)
THEOREM QuietAfterClose == Spec => []ClosedIsQuiet
<1>1. IInv => ClosedIsQuiet
  <2> SUFFICES ASSUME IInv, phase = "down"
               PROVE  /\ \A w \in Workers : at[w] \notin Busy
                      /\ queue = <<>>
                      /\ \A j \in Jobs : ~Pending(j)
    BY DEF ClosedIsQuiet
  <2>1. queue = <<>> /\ \A w \in Workers : at[w] = "exited"
    BY DEF IInv, WorkersFollowPhase, Alive
  <2>2. \A w \in Workers : at[w] \notin Busy
    BY <2>1 DEF Busy
  <2> QED BY <2>1, <2>2 DEF IInv, PendingIsSomewhere
<1> QED BY <1>1, Invariant, PTL

(* A job whose caller has gone before its gate never starts.                *)
THEOREM AbandonedStaysOut == Spec => AbandonedNeverStarts
<1>1. IInv /\ [Next]_vars =>
        [\A w \in Workers :
           at[w] # "function" /\ at'[w] = "function" => caller[hand'[w]] # "gone"]_vars
  <2> SUFFICES ASSUME IInv, Next, NEW w \in Workers,
                      at[w] # "function", at'[w] = "function"
               PROVE  caller[hand'[w]] # "gone"
    OBVIOUS
  <2>1. EnterGate(w)
    BY DEF Next, Close, Worker, Accept, Answer, GiveUp, Start, BeginClose, PutStop,
           EndClose, Take, EnterGate, Return, Resume, workerVars, IInv, TypeOK, Busy
  <2>2. hand'[w] \in Jobs /\ hand'[w] \notin abandoned
    BY <2>1 DEF EnterGate, GateOpen, IInv, TypeOK, HandsHoldJobs, Busy
  <2> QED BY <2>2 DEF IInv, GoneIsAbandoned
<1> QED BY <1>1, Invariant, PTL DEF Spec, AbandonedNeverStarts

(* A job is in one slot of the queue or with one worker, and with none when *)
(* a worker has settled it: it is classified at most once.                  *)
THEOREM JobsRunOnce == Spec => []OnePlace
<1>1. IInv /\ OnePlace /\ [Next]_vars => IInv' /\ OnePlace'
  BY NextInv, NextOnePlace
<1>2. Init => IInv /\ OnePlace
  BY InitInv, InitOnePlace
<1> QED BY <1>1, <1>2, PTL DEF Spec

(* A settled future keeps its outcome: late results are ignored.            *)
THEOREM LateIsIgnored == Spec => LateResultIgnored
<1>1. IInv /\ [Next]_vars => [\A j \in Jobs : ~Pending(j) => future'[j] = future[j]]_vars
  <2> SUFFICES ASSUME IInv, Next, NEW j \in Jobs, ~Pending(j)
               PROVE  future'[j] = future[j]
    OBVIOUS
  <2>1. ASSUME NEW c \in Clients, Accept(c) PROVE future'[j] = future[j]
    BY <2>1 DEF Accept, Extend, Jobs, IInv, TypeOK
  <2>2. ASSUME NEW k \in Jobs, GiveUp(k) PROVE future'[j] = future[j]
    BY <2>2, SettleEffect DEF GiveUp, IInv
  <2>3. ASSUME NEW w \in Workers, Resume(w) PROVE future'[j] = future[j]
    <3>1. hand[w] \in Jobs /\ outcome[w] \in {"skipped", "result", "error"}
      BY <2>3 DEF IInv, TypeOK, HandsHoldJobs, Resume, Busy
    <3>2. CASE outcome[w] = "skipped"
      BY <2>3, <3>2 DEF Resume
    <3>3. CASE outcome[w] # "skipped"
      <4>1. outcome[w] \in {"result", "error", "cancelled"}
        BY <3>1, <3>3
      <4>2. future' = Settle(hand[w], outcome[w])
        BY <2>3, <3>3 DEF Resume
      <4> QED BY <3>1, <4>1, <4>2, SettleEffect DEF IInv
    <3> QED BY <3>2, <3>3
  <2> QED
    BY <2>1, <2>2, <2>3
    DEF Next, Close, Worker, Answer, Start, BeginClose, PutStop, EndClose, Take,
        EnterGate, Return
<1> QED BY <1>1, Invariant, PTL DEF Spec, LateResultIgnored
=============================================================================
