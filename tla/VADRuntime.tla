----------------------------- MODULE VADRuntime -----------------------------
(***************************************************************************)
(* The bounded dispatcher of src/app/vad/runtime.py: classifiers submitted *)
(* from the event loop run on threads, behind a bounded queue, a deadline  *)
(* and a gate that stops abandoned work which has not started.             *)
(*                                                                         *)
(* Two kinds of actors move it: coroutines on the event loop, whose steps  *)
(* are the code between two awaits, and executor threads, whose steps are  *)
(* taking the gate (EnterGate) and returning from the job (Return).        *)
(***************************************************************************)
EXTENDS Integers, Sequences, FiniteSets

CONSTANTS
  Clients,  \* who submits: the streams
  Workers,  \* the worker tasks (worker_count of them)
  Capacity, \* pending_capacity, the maxsize of the queue
  MaxJobs   \* bound on the jobs ever accepted (the code has none)

ASSUME RuntimeAssumption ==
  /\ Capacity \in Nat \ {0}
  /\ MaxJobs \in Nat
  /\ IsFiniteSet(Workers) /\ Workers # {}

VARIABLES
  phase,     \* "new", "up", "closing" (close is in progress), "down"
  count,     \* jobs accepted so far; a job is named by its number
  client,    \* job -> who submitted it
  future,    \* job -> "pending" or how _Job.future was settled
  caller,    \* job -> the coroutine inside submit
  abandoned, \* jobs whose _cancelled flag is set
  queue,     \* the asyncio queue: jobs, and the Stop sentinels of close
  unsent,    \* sentinels close has yet to put
  at,        \* worker -> where it or the thread it waits for is
  hand,      \* worker -> the job it has taken
  outcome    \* worker -> what job.run left for it

vars == <<phase, count, client, future, caller, abandoned, queue, unsent, at,
          hand, outcome>>

callVars   == <<count, client, caller, abandoned>>
workerVars == <<at, hand, outcome>>

-----------------------------------------------------------------------------
Stop == 0
Jobs == 1..count

Pending(j) == future[j] = "pending"

\* A worker that holds a job: its thread is queued in the executor, past the
\* gate inside the function, or has returned.
Busy == {"executor", "function", "returned"}

\* A future that is not done is settled; a late result is dropped.
\* (Mutant: an exception of the classifier is recorded and not passed on.)
SettleResult(j, value) ==
  IF Pending(j) /\ value # "error" THEN [future EXCEPT ![j] = value] ELSE future
Settle(j, value) ==
  IF Pending(j) THEN [future EXCEPT ![j] = value] ELSE future

Extend(f, x) == [j \in 1..(count + 1) |-> IF j \in Jobs THEN f[j] ELSE x]

-----------------------------------------------------------------------------
(* submit.                                                                  *)

\* put_nowait refuses at maxsize; with no effect, so a refusal is no step.
HasRoom == Len(queue) < Capacity

\* The runtime takes work.
Accepts == phase = "up"

Accept(c) ==
  /\ Accepts
  /\ HasRoom
  /\ count < MaxJobs
  /\ count' = count + 1
  /\ client' = Extend(client, c)
  /\ future' = Extend(future, "pending")
  /\ caller' = Extend(caller, "awaiting")
  /\ queue' = Append(queue, count + 1)
  /\ UNCHANGED <<phase, abandoned, unsent, workerVars>>

\* The shielded future is done before the deadline: submit returns or raises.
Answer(j) ==
  /\ caller[j] = "awaiting" /\ ~Pending(j)
  /\ caller' = [caller EXCEPT ![j] = "answered"]
  /\ UNCHANGED <<phase, count, client, future, abandoned, queue, unsent,
                 workerVars>>

(* The deadline passes, or the caller's task is cancelled.  The result may  *)
(* have arrived in the same turn of the loop: it is lost to this caller.    *)
GiveUp(j) ==
  /\ caller[j] = "awaiting"
  /\ caller' = [caller EXCEPT ![j] = "gone"]
  /\ abandoned' = abandoned \cup {j}
  /\ future' = Settle(j, "cancelled")
  /\ UNCHANGED <<phase, count, client, queue, unsent, workerVars>>

-----------------------------------------------------------------------------
(* _worker, and _Job.run on its thread.                                     *)

\* queue.get returned: a sentinel, a job whose future is cancelled, or work.
Take(w) ==
  /\ at[w] = "get"
  /\ queue # <<>>
  /\ queue' = Tail(queue)
  /\ LET head == Head(queue) IN
       \/ /\ head = Stop
          /\ at' = [at EXCEPT ![w] = "exited"]
          /\ UNCHANGED hand
       \/ /\ head # Stop
          /\ future[head] = "cancelled"
          /\ UNCHANGED <<at, hand>>
       \/ /\ head # Stop
          /\ future[head] # "cancelled"
          /\ at' = [at EXCEPT ![w] = "executor"]
          /\ hand' = [hand EXCEPT ![w] = head]
  /\ UNCHANGED <<phase, callVars, future, unsent, outcome>>

\* The gate of a job.  (Mutant: job.run does not look at _cancelled.)
GateIgnored(j) == TRUE
GateOpen(j)    == j \notin abandoned

\* A thread picks the job up and passes its gate, or returns _SKIPPED.
EnterGate(w) ==
  /\ at[w] = "executor"
  /\ \/ /\ GateOpen(hand[w])
        /\ at' = [at EXCEPT ![w] = "function"]
        /\ UNCHANGED outcome
     \/ /\ ~GateOpen(hand[w])
        /\ at' = [at EXCEPT ![w] = "returned"]
        /\ outcome' = [outcome EXCEPT ![w] = "skipped"]
  /\ UNCHANGED <<phase, callVars, future, queue, unsent, hand>>

\* The function returns a result or raises on its thread.
Return(w, value) ==
  /\ at[w] = "function"
  /\ at' = [at EXCEPT ![w] = "returned"]
  /\ outcome' = [outcome EXCEPT ![w] = value]
  /\ UNCHANGED <<phase, callVars, future, queue, unsent, hand>>

\* The worker resumes on the loop and settles the future, unless skipped.
Resume(w) ==
  /\ at[w] = "returned"
  /\ future' = IF outcome[w] = "skipped" THEN future
               ELSE Settle(hand[w], outcome[w])
  /\ at' = [at EXCEPT ![w] = "get"]
  /\ hand' = [hand EXCEPT ![w] = Stop]
  /\ outcome' = [outcome EXCEPT ![w] = "none"]
  /\ UNCHANGED <<phase, callVars, queue, unsent>>

-----------------------------------------------------------------------------
(* start and close.                                                         *)

Start ==
  /\ phase \in {"new", "down"}
  /\ phase' = "up"
  /\ at' = [w \in Workers |-> "get"]
  /\ UNCHANGED <<callVars, future, queue, unsent, hand, outcome>>

\* One sentinel for each worker.  (Mutant: a single one.)
OneSentinel == 1
Sentinels   == Cardinality(Workers)

BeginClose ==
  /\ phase = "up"
  /\ phase' = "closing"
  /\ unsent' = Sentinels
  /\ UNCHANGED <<callVars, future, queue, workerVars>>

\* await queue.put(None): blocks while the queue is full.
PutStop ==
  /\ phase = "closing"
  /\ unsent > 0
  /\ HasRoom
  /\ queue' = Append(queue, Stop)
  /\ unsent' = unsent - 1
  /\ UNCHANGED <<phase, callVars, future, workerVars>>

\* gather.  (Mutant: close does not wait for the workers.)
NotJoined == TRUE
Joined    == \A w \in Workers : at[w] = "exited"

EndClose ==
  /\ phase = "closing"
  /\ unsent = 0
  /\ Joined
  /\ phase' = "down"
  /\ UNCHANGED <<callVars, future, queue, unsent, workerVars>>

-----------------------------------------------------------------------------
Init ==
  /\ phase = "new"
  /\ count = 0
  /\ client = [j \in Jobs |-> Stop]
  /\ future = [j \in Jobs |-> "pending"]
  /\ caller = [j \in Jobs |-> "awaiting"]
  /\ abandoned = {}
  /\ queue = <<>>
  /\ unsent = 0
  /\ at = [w \in Workers |-> "exited"]
  /\ hand = [w \in Workers |-> Stop]
  /\ outcome = [w \in Workers |-> "none"]

Worker(w) ==
  \/ Take(w)
  \/ EnterGate(w)
  \/ \E value \in {"result", "error"} : Return(w, value)
  \/ Resume(w)

Close == BeginClose \/ PutStop \/ EndClose

Next ==
  \/ \E c \in Clients : Accept(c)
  \/ \E j \in Jobs : Answer(j) \/ GiveUp(j)
  \/ \E w \in Workers : Worker(w)
  \/ Start \/ Close

Spec == Init /\ [][Next]_vars

-----------------------------------------------------------------------------
(* Properties.                                                              *)

(* Every variable keeps its shape, the queue stays within its maxsize.      *)
TypeOK ==
  /\ phase \in {"new", "up", "closing", "down"}
  /\ count \in 0..MaxJobs
  /\ client \in [Jobs -> Clients]
  /\ future \in [Jobs -> {"pending", "result", "error", "cancelled"}]
  /\ caller \in [Jobs -> {"awaiting", "answered", "gone"}]
  /\ abandoned \subseteq Jobs
  /\ queue \in Seq(Jobs \cup {Stop}) /\ Len(queue) <= Capacity
  /\ unsent \in Nat
  /\ at \in [Workers -> Busy \cup {"get", "exited"}]
  /\ hand \in [Workers -> Jobs \cup {Stop}]
  /\ outcome \in [Workers -> {"none", "skipped", "result", "error"}]

(* "Bounds pending work without dropping accepted jobs" (the test of that   *)
(* name): an unsettled job is in the queue, in front of every sentinel of   *)
(* close, or in the hands of exactly one worker.                            *)
AcceptedIsHeld ==
  \A j \in Jobs : Pending(j) =>
    \/ \E i \in 1..Len(queue) :
         queue[i] = j /\ \A k \in 1..i : queue[k] # Stop
    \/ \E w \in Workers : at[w] \in Busy /\ hand[w] = j

(* Work whose caller has gone and that has not passed its gate never starts *)
(* (ARCHITECTURE.md, "Not started"), although it may already be in the      *)
(* executor, out of reach of the event loop.                                *)
AbandonedNeverStarts ==
  [][\A w \in Workers :
       at[w] # "function" /\ at'[w] = "function" =>
         caller[hand'[w]] # "gone"]_vars

(* A settled future keeps its outcome: "a late result is ignored if the     *)
(* Future is no longer valid" (ARCHITECTURE.md).                            *)
LateResultIgnored ==
  [][\A j \in Jobs : ~Pending(j) => future'[j] = future[j]]_vars

(* When close has returned, no thread is inside a classifier, not even one  *)
(* whose caller has given up, nothing is queued and nobody waits: the       *)
(* provider may drop its model.                                             *)
ClosedIsQuiet ==
  phase = "down" =>
    /\ \A w \in Workers : at[w] \notin Busy
    /\ queue = <<>>
    /\ \A j \in Jobs : ~Pending(j)

(* The inductive invariant behind the safety properties.                    *)

Alive == {w \in Workers : at[w] # "exited"}

(* The queue is jobs followed by sentinels.  While close is in progress,    *)
(* each worker that is still alive has one sentinel, put or unsent, and no  *)
(* worker has left before the last job was taken.                           *)
QueueShape ==
  \E n \in 0..Len(queue) :
    /\ \A i \in 1..Len(queue) : queue[i] = Stop <=> i > n
    /\ phase = "closing" => Len(queue) - n + unsent = Cardinality(Alive)
    /\ phase = "closing" /\ Alive # Workers => n = 0
    /\ phase # "closing" => n = Len(queue) /\ unsent = 0

\* Outside start and close, either every worker is alive or none is.
WorkersFollowPhase ==
  /\ phase = "up" => Alive = Workers
  /\ phase \in {"new", "down"} => Alive = {} /\ queue = <<>>

\* Unsettled jobs are in the queue or in a worker's hands.
PendingIsSomewhere ==
  \A j \in Jobs : Pending(j) =>
    \/ \E i \in 1..Len(queue) : queue[i] = j
    \/ \E w \in Workers : at[w] \in Busy /\ hand[w] = j

\* A caller that has gone has left its flag behind, and a settled future.
GoneIsAbandoned ==
  \A j \in Jobs : /\ caller[j] = "gone" <=> j \in abandoned
                  /\ j \in abandoned => ~Pending(j)

\* What workers hold; a skipped job is an abandoned one.
HandsHoldJobs ==
  \A w \in Workers :
    /\ at[w] \in Busy => hand[w] \in Jobs
    /\ at[w] = "returned" => outcome[w] # "none"
    /\ at[w] = "returned" /\ outcome[w] = "skipped" => hand[w] \in abandoned

(* The conjunction that every step preserves.                               *)
IInv ==
  /\ TypeOK
  /\ QueueShape
  /\ WorkersFollowPhase
  /\ PendingIsSomewhere
  /\ GoneIsAbandoned
  /\ HandsHoldJobs

(* A job is in one place: in one slot of the queue or in the hands of one   *)
(* worker; and in none when a worker has settled it.  So it runs once.      *)
OnePlace ==
  /\ \A i, k \in 1..Len(queue) : queue[i] = queue[k] /\ queue[i] # Stop => i = k
  /\ \A i \in 1..Len(queue), w \in Workers : at[w] \in Busy => hand[w] # queue[i]
  /\ \A v, w \in Workers : at[v] \in Busy /\ at[w] \in Busy /\ hand[v] = hand[w] => v = w
  /\ \A j \in Jobs : future[j] \in {"result", "error"} =>
       /\ \A i \in 1..Len(queue) : queue[i] # j
       /\ \A w \in Workers : at[w] \in Busy => hand[w] # j

(* Every accepted job is decided even when nobody's deadline ever passes,   *)
(* and close returns, although its sentinels queue up behind those jobs.    *)
RuntimeGoesOn ==
  /\ \A j \in 1..MaxJobs :
       (j \in Jobs /\ Pending(j)) ~> (j \in Jobs /\ ~Pending(j))
  /\ (phase = "closing") ~> (phase = "down")
=============================================================================
