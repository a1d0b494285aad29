------------------------ MODULE SchedulerRefinement ------------------------
(***************************************************************************)
(* Scheduler implements SchedulerContract.  A call is waiting while its    *)
(* future is unsettled and its job is in the queue, running while it is    *)
(* unsettled and out of the queue, and settled as its future is.           *)
(***************************************************************************)
EXTENDS Scheduler

CallStatus == [j \in Jobs |-> IF ~Pending(j) THEN future[j]
                              ELSE IF j \in heap THEN "waiting" ELSE "running"]

Contract == INSTANCE SchedulerContract WITH
  open    <- phase = "up",
  count   <- sequence,
  owner   <- [j \in Jobs |-> SessionOf(j)],
  partial <- [j \in Jobs |-> IsPartial(j)],
  status  <- CallStatus

(* The scheduler keeps the promises its callers rely on, under every        *)
(* interleaving of submissions, cancellations, workers and close: each call *)
(* is settled once and for all, newer audio settles the session's partial,  *)
(* finals start first, and closing leaves nothing unsettled.                *)
ImplementsContract == Contract!Spec
=============================================================================
