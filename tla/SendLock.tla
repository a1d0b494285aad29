------------------------------ MODULE SendLock ------------------------------
(***************************************************************************)
(* The asyncio.Lock a connection's tasks send under: first come, first      *)
(* served, and who finds it free sends at once.                             *)
(***************************************************************************)
EXTENDS Integers, Sequences, SequencesExt

VARIABLES
  line,    \* who holds the lock (the head) and who waits for it
  sending  \* has the head obtained the lock?

lockVars == <<line, sending>>

\* The receive loop; partial tasks and turns have numbers from 1 on.
Serve == 0

LockInit == line = <<>> /\ sending = FALSE

\* The line becomes `rest`, a part of it.  A new head has yet to get the lock.
Shrink(rest) ==
  /\ line' = rest
  /\ sending' = (sending /\ rest # <<>> /\ Head(rest) = Head(line))

\* The line becomes `rest` with `who` behind it.
Queue(rest, who) ==
  /\ line' = Append(rest, who)
  /\ sending' = (rest = <<>> \/ (sending /\ Head(rest) = Head(line)))

\* Is the lock free for who comes next?
Free(rest) == rest = <<>>

\* The head gives the lock back.  (Mutant: it does not.)
StayInLine == line
LeaveLine  == Tail(line)

\* Cancellation takes someone out of the line, wherever it is.
Without(who) == RemoveFirst(line, who)

Sends(who) == sending /\ Head(line) = who
=============================================================================
