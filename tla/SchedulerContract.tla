------------------------- MODULE SchedulerContract -------------------------
(***************************************************************************)
(* What the inference scheduler promises the transports that call it,      *)
(* whatever its queue, its workers and its locks look like inside: the     *)
(* class docstring of InferenceScheduler (src/app/engine/scheduler.py,     *)
(* 91-97) and the exceptions its callers handle.                           *)
(*                                                                         *)
(* A call is accepted, waits, runs, and is settled exactly once.  The      *)
(* settlement of a call is final.  Accepting something newer of the same   *)
(* session settles its partial at once.  No partial starts while a final   *)
(* waits.  After closing, what waited is refused and what ran is settled.  *)
(***************************************************************************)
EXTENDS Integers

CONSTANTS Sessions, MaxJobs

VARIABLES
  open,     \* does the scheduler accept calls?
  count,    \* calls accepted so far
  owner,    \* call -> its session
  partial,  \* call -> is it a partial?
  status    \* call -> "waiting", "running", or how it was settled

vars == <<open, count, owner, partial, status>>

Calls     == 1..count
Unsettled == {"waiting", "running"}

\* The unsettled partials of a session, which newer audio makes stale.
Outdated(s) ==
  {c \in Calls : owner[c] = s /\ partial[c] /\ status[c] \in Unsettled}

StatusWithout(S) == [c \in Calls |-> IF c \in S THEN "stale" ELSE status[c]]

Add(f, x) == [c \in 1..(count + 1) |-> IF c \in Calls THEN f[c] ELSE x]

Accept(s, isPartial) ==
  /\ open /\ count < MaxJobs
  /\ isPartial => \A c \in Outdated(s) : status[c] = "waiting"
  /\ count' = count + 1
  /\ owner' = Add(owner, s)
  /\ partial' = Add(partial, isPartial)
  /\ status' = Add(StatusWithout(Outdated(s)), "waiting")
  /\ UNCHANGED open

\* A refused final has made the session's partial stale all the same.
Refuse(s) ==
  /\ open
  /\ status' = StatusWithout(Outdated(s))
  /\ UNCHANGED <<open, count, owner, partial>>

\* A group of one kind starts; partials only when no final waits.
Begin(S) ==
  /\ \A c \in S : status[c] = "waiting"
  /\ \A c \in Calls :
       status[c] = "waiting" /\ ~partial[c] => \A d \in S : ~partial[d]
  /\ status' = [c \in Calls |-> IF c \in S THEN "running" ELSE status[c]]
  /\ UNCHANGED <<open, count, owner, partial>>

(* One engine call ends for the calls of S still unsettled: with a result,  *)
(* an engine error or, for a partial, as stale.                             *)
Settle(S) ==
  /\ \A c \in S : status[c] = "running"
  /\ \E outcome \in {"result", "error"} :
       \E spoiled \in SUBSET {c \in S : partial[c]} :
         status' = [c \in Calls |-> IF c \in spoiled THEN "stale"
                                    ELSE IF c \in S THEN outcome
                                    ELSE status[c]]
  /\ UNCHANGED <<open, count, owner, partial>>

\* The caller gives its call up.
Abandon(c) ==
  /\ status[c] \in Unsettled
  /\ status' = [status EXCEPT ![c] = "cancelled"]
  /\ UNCHANGED <<open, count, owner, partial>>

Close ==
  /\ open /\ open' = FALSE
  /\ status' = [c \in Calls |-> IF status[c] = "waiting" THEN "closed"
                                                         ELSE status[c]]
  /\ UNCHANGED <<count, owner, partial>>

\* Only when everything is settled may the scheduler open (again).
Open ==
  /\ ~open /\ open' = TRUE
  /\ \A c \in Calls : status[c] \notin Unsettled
  /\ UNCHANGED <<count, owner, partial, status>>

Init ==
  /\ open = FALSE
  /\ count = 0
  /\ owner = [c \in Calls |-> 0]
  /\ partial = [c \in Calls |-> FALSE]
  /\ status = [c \in Calls |-> "waiting"]

Next ==
  \/ \E s \in Sessions : Refuse(s) \/ \E p \in BOOLEAN : Accept(s, p)
  \/ \E S \in SUBSET Calls : Begin(S) \/ Settle(S)
  \/ \E c \in Calls : Abandon(c)
  \/ Open \/ Close

Spec == Init /\ [][Next]_vars
=============================================================================
