------------------------ MODULE NativeSessionProofs ------------------------
(***************************************************************************)
(* The safety properties of NativeSession, for any number of utterances    *)
(* and partials: each follows from SessionInv, which is inductive.          *)
(***************************************************************************)
EXTENDS NativeSession, SendLockProofs

-----------------------------------------------------------------------------
(* The partial tasks as data.                                               *)

LEMMA TaskFields ==
  ASSUME tasks \in Seq(TaskRecords), NEW t \in Tasks
  PROVE  /\ tasks[t] \in TaskRecords
         /\ tasks[t].utt \in Nat /\ tasks[t].audio \in Nat /\ tasks[t].rev \in Nat
         /\ tasks[t].at \in {"scheduler", "event", "complaint", "cancelled", "done"}
         /\ tasks[t].job \in {"pending", "result", "error", "stale", "refused"}
<1>1. tasks[t] \in TaskRecords
  BY DEF Tasks
<1> QED BY <1>1 DEF TaskRecords

LEMMA MovedTask ==
  ASSUME tasks \in Seq(TaskRecords), NEW t \in Tasks,
         NEW to \in {"scheduler", "event", "complaint", "cancelled", "done"}
  PROVE  /\ Moved(t, to) \in Seq(TaskRecords)
         /\ Len(Moved(t, to)) = Len(tasks)
         /\ \A u \in Tasks : u # t => Moved(t, to)[u] = tasks[u]
         /\ Moved(t, to)[t].at = to
         /\ Moved(t, to)[t].utt = tasks[t].utt
         /\ Moved(t, to)[t].rev = tasks[t].rev
         /\ Moved(t, to)[t].job = tasks[t].job
<1>1. tasks[t] \in TaskRecords
  BY TaskFields
<1>2. [tasks[t] EXCEPT !.at = to] \in TaskRecords
  BY <1>1 DEF TaskRecords
<1>3. Moved(t, to) = [u \in 1..Len(tasks) |->
                       IF u = t THEN [tasks[t] EXCEPT !.at = to] ELSE tasks[u]]
  BY DEF Moved, Tasks
<1>4. Moved(t, to) \in [1..Len(tasks) -> TaskRecords] /\ Len(tasks) \in Nat
  BY <1>2, <1>3, TaskFields DEF Tasks
<1>5. Moved(t, to) \in Seq(TaskRecords) /\ Len(Moved(t, to)) = Len(tasks)
  BY <1>4
<1>6. \A u \in Tasks :
        Moved(t, to)[u] = IF u = t THEN [tasks[t] EXCEPT !.at = to] ELSE tasks[u]
  BY <1>3 DEF Tasks
<1>7. Moved(t, to)[t] = [tasks[t] EXCEPT !.at = to]
  BY <1>6
<1>8. /\ Moved(t, to)[t].at = to
      /\ Moved(t, to)[t].utt = tasks[t].utt
      /\ Moved(t, to)[t].rev = tasks[t].rev
      /\ Moved(t, to)[t].job = tasks[t].job
  BY <1>1, <1>7 DEF TaskRecords
<1> QED BY <1>5, <1>6, <1>8

LEMMA NewTask ==
  ASSUME tasks \in Seq(TaskRecords), NEW r \in TaskRecords
  PROVE  /\ Append(tasks, r) \in Seq(TaskRecords)
         /\ Len(Append(tasks, r)) = Len(tasks) + 1
         /\ 1..Len(Append(tasks, r)) = Tasks \cup {Len(tasks) + 1}
         /\ Len(tasks) + 1 \notin Tasks
         /\ \A u \in Tasks : Append(tasks, r)[u] = tasks[u]
         /\ Append(tasks, r)[Len(tasks) + 1] = r
BY DEF Tasks

LEMMA SupersededTasks ==
  ASSUME tasks \in Seq(TaskRecords)
  PROVE  /\ Superseded \in Seq(TaskRecords)
         /\ Len(Superseded) = Len(tasks)
         /\ \A t \in Tasks : /\ Superseded[t].at = tasks[t].at
                             /\ Superseded[t].utt = tasks[t].utt
                             /\ Superseded[t].rev = tasks[t].rev
                             /\ Superseded[t].job # "pending"
<1>1. \A t \in Tasks : [tasks[t] EXCEPT !.job = "stale"] \in TaskRecords
  BY TaskFields DEF TaskRecords
<1>2. \A t \in Tasks : Superseded[t] \in TaskRecords
  BY <1>1, TaskFields DEF Superseded
<1>3. Superseded \in [1..Len(tasks) -> TaskRecords] /\ Len(tasks) \in Nat
  BY <1>2 DEF Superseded, Tasks
<1>4. Superseded \in Seq(TaskRecords) /\ Len(Superseded) = Len(tasks)
  BY <1>3
<1>5. ASSUME NEW t \in Tasks
      PROVE  /\ Superseded[t].at = tasks[t].at
             /\ Superseded[t].utt = tasks[t].utt
             /\ Superseded[t].rev = tasks[t].rev
             /\ Superseded[t].job # "pending"
  <2>1. tasks[t] \in TaskRecords
    BY TaskFields
  <2> QED BY <2>1 DEF Superseded, TaskRecords
<1> QED BY <1>4, <1>5

LEMMA CancelledTask ==
  ASSUME tasks \in Seq(TaskRecords), task \in 0..Len(tasks)
  PROVE  /\ CancelledTasks \in Seq(TaskRecords)
         /\ Len(CancelledTasks) = Len(tasks)
         /\ \A t \in Tasks :
              /\ CancelledTasks[t].utt = tasks[t].utt
              /\ CancelledTasks[t].rev = tasks[t].rev
              /\ \/ CancelledTasks[t].at = tasks[t].at /\ (t = task => tasks[t].at = "done")
                 \/ /\ t = task /\ tasks[t].at # "done"
                    /\ CancelledTasks[t].at = "cancelled"
<1>1. CASE PartialDone
  BY <1>1 DEF CancelledTasks, PartialDone, None, Tasks
<1>2. CASE ~PartialDone
  <2>1. task \in Tasks /\ tasks[task].at # "done"
    BY <1>2 DEF PartialDone, None, Tasks
  <2>2. CancelledTasks = Moved(task, "cancelled")
    BY <1>2 DEF CancelledTasks
  <2>3. /\ Moved(task, "cancelled") \in Seq(TaskRecords)
        /\ Len(Moved(task, "cancelled")) = Len(tasks)
        /\ \A u \in Tasks : u # task => Moved(task, "cancelled")[u] = tasks[u]
        /\ Moved(task, "cancelled")[task].at = "cancelled"
        /\ Moved(task, "cancelled")[task].utt = tasks[task].utt
        /\ Moved(task, "cancelled")[task].rev = tasks[task].rev
    <3>1. "cancelled" \in {"scheduler", "event", "complaint", "cancelled", "done"}
      OBVIOUS
    <3> QED BY <2>1, <3>1, MovedTask
  <2> QED BY <2>1, <2>2, <2>3
<1> QED BY <1>1, <1>2

-----------------------------------------------------------------------------
(* The line and the wire.                                                   *)

LEMMA LineIsTyped ==
  ASSUME SessionInv
  PROVE  LineTypeOK
BY DEF SessionInv, SessionTypeOK, LineInv, LineTypeOK

(* What a step has to keep of the line, the tasks and the wire.             *)
Flow ==
  /\ tasks \in Seq(TaskRecords) /\ task \in 0..Len(tasks)
  /\ wire \in Seq(Messages) /\ line \in Seq(Nat) /\ sending \in BOOLEAN
  /\ LineInv /\ TasksInv /\ WireInv

\* All that was said is of utterances before u; and all finals are.
SaidBefore(u)   == \A i \in 1..Len(wire) : wire[i].utt < u
FinalsBefore(u) == \A i \in 1..Len(wire) : wire[i].kind = "final" => wire[i].utt < u

\* The partial of task t, as it stands in the line, is newer than all partials sent.
IsNewest(t) ==
  /\ tasks[t].rev = revision
  /\ \A i \in 1..Len(wire) : wire[i].kind = "partial" => wire[i].rev < revision

LEMMA WireFields ==
  ASSUME wire \in Seq(Messages), NEW i \in 1..Len(wire)
  PROVE  /\ wire[i] \in Messages
         /\ wire[i].utt \in Int /\ wire[i].rev \in Nat
         /\ wire[i].kind \in {"started", "partial", "final"}
<1>1. wire[i] \in Messages
  OBVIOUS
<1> QED BY <1>1 DEF Messages

(* The invariant of the wire in terms of what was said.                     *)
LEMMA WireSays ==
  ASSUME WireInv
  PROVE  /\ Silent \/ pc \in {"final", "answer"} => SaidBefore(epoch)
         /\ pc = "started" /\ ~Sends(Serve) => SaidBefore(epoch)
         /\ pc = "final" \/ (pc = "answer" /\ ~Sends(Serve)) => FinalsBefore(epoch - 1)
         /\ \A t \in Tasks : tasks[t].at = "event" /\ ~Sends(t) => IsNewest(t)
BY DEF WireInv, SaidBefore, FinalsBefore, IsNewest

(* A step that says nothing.                                                *)
LEMMA WireStays ==
  ASSUME SessionInv, wire' = wire, pc' \in {"new", "connected"} => wire = <<>>,
         epoch' \in Nat, epoch' >= epoch, revision' \in {revision, revision + 1},
         Silent' \/ pc' \in {"final", "answer"} => SaidBefore(epoch'),
         pc' = "started" /\ ~Sends(Serve)' => SaidBefore(epoch'),
         pc' = "final" \/ (pc' = "answer" /\ ~Sends(Serve)') => FinalsBefore(epoch' - 1),
         \A t \in Tasks' : tasks'[t].at = "event" /\ ~Sends(t)' => IsNewest(t)'
  PROVE  WireInv' /\ wire' \in Seq(Messages)
<1>1. /\ wire \in Seq(Messages) /\ epoch \in Nat /\ revision \in Nat
      /\ UtterancesInOrder
      /\ \A i \in 1..Len(wire) : /\ wire[i].utt <= epoch
                                 /\ wire[i].kind = "final" => wire[i].utt < epoch
                                 /\ wire[i].kind = "partial" => wire[i].rev <= revision
  BY DEF SessionInv, SessionTypeOK, WireInv
<1>2. UtterancesInOrder'
  BY <1>1 DEF UtterancesInOrder
<1>3. \A i \in 1..Len(wire) : /\ wire[i].utt <= epoch'
                              /\ wire[i].kind = "final" => wire[i].utt < epoch'
                              /\ wire[i].kind = "partial" => wire[i].rev <= revision'
  BY <1>1, WireFields
<1>4. \A i \in 1..Len(wire) :
        /\ Silent' \/ pc' \in {"final", "answer"} => wire[i].utt < epoch'
        /\ pc' = "started" /\ ~Sends(Serve)' => wire[i].utt < epoch'
        /\ pc' = "final" \/ (pc' = "answer" /\ ~Sends(Serve)') =>
             (wire[i].kind = "final" => wire[i].utt < epoch' - 1)
  BY DEF SaidBefore, FinalsBefore
<1>5. \A t \in Tasks' : tasks'[t].at = "event" /\ ~Sends(t)' =>
        /\ tasks'[t].rev = revision'
        /\ \A i \in 1..Len(wire') : wire'[i].kind = "partial" => wire'[i].rev < revision'
  BY DEF IsNewest
<1> HIDE DEF SessionInv, SaidBefore, FinalsBefore, IsNewest
<1>6. WireInv'
  BY <1>1, <1>2, <1>3, <1>4, <1>5 DEF WireInv
<1> QED BY <1>1, <1>6

(* A step that says m, in its place.                                        *)
LEMMA WireGrows ==
  ASSUME SessionInv, NEW m \in Messages, wire' = wire \o <<m>>,
         epoch' = epoch, pc' \notin {"new", "connected"},
         revision' \in Nat, revision' >= revision,
         m.utt <= epoch, m.kind = "final" => m.utt < epoch,
         m.kind = "partial" => m.rev <= revision',
         SaidBefore(m.utt + 1), FinalsBefore(m.utt),
         m.kind = "started" => SaidBefore(m.utt),
         m.kind = "partial" =>
           \A i \in 1..Len(wire) : wire[i].kind = "partial" => wire[i].rev < m.rev,
         Silent' \/ pc' \in {"final", "answer"} => SaidBefore(epoch) /\ m.utt < epoch,
         pc' \in {"started", "answer"} => Sends(Serve)',
         pc' # "final",
         \A t \in Tasks' : tasks'[t].at = "event" => Sends(t)'
  PROVE  WireInv' /\ wire' \in Seq(Messages)
<1> DEFINE n == Len(wire)
<1>1. /\ wire \in Seq(Messages) /\ epoch \in Nat /\ revision \in Nat
      /\ UtterancesInOrder
      /\ \A i \in 1..n : /\ wire[i].utt <= epoch
                         /\ wire[i].kind = "final" => wire[i].utt < epoch
                         /\ wire[i].kind = "partial" => wire[i].rev <= revision
  BY DEF SessionInv, SessionTypeOK, WireInv
<1>2. /\ wire' \in Seq(Messages) /\ n \in Nat /\ Len(wire') = n + 1
      /\ \A i \in 1..n : wire'[i] = wire[i]
      /\ wire'[n + 1] = m
  BY <1>1
<1>3. /\ m.utt \in Int /\ m.rev \in Nat /\ m.kind \in {"started", "partial", "final"}
      /\ \A i \in 1..n : wire[i].utt \in Int /\ wire[i].rev \in Nat
  BY <1>1, WireFields DEF Messages
<1>4. UtterancesInOrder'
  <2> SUFFICES ASSUME NEW i \in 1..(n + 1), NEW j \in 1..(n + 1), i < j
               PROVE  /\ wire'[i].utt <= wire'[j].utt
                      /\ wire'[i].kind = "final" => wire'[i].utt < wire'[j].utt
                      /\ wire'[j].kind = "started" => wire'[i].utt < wire'[j].utt
                      /\ wire'[i].kind = "partial" /\ wire'[j].kind = "partial" =>
                           wire'[i].rev < wire'[j].rev
    BY <1>2 DEF UtterancesInOrder
  <2>1. i \in 1..n /\ wire'[i] = wire[i]
    BY <1>2
  <2>2. CASE j \in 1..n
    <3>1. wire'[j] = wire[j]
      BY <1>2, <2>2
    <3> QED BY <1>1, <2>1, <2>2, <3>1 DEF UtterancesInOrder
  <2>3. CASE j = n + 1
    <3>1. wire'[j] = m
      BY <1>2, <2>3
    <3>2. /\ wire[i].utt < m.utt + 1
          /\ wire[i].kind = "final" => wire[i].utt < m.utt
          /\ m.kind = "started" => wire[i].utt < m.utt
          /\ m.kind = "partial" /\ wire[i].kind = "partial" => wire[i].rev < m.rev
      BY <2>1 DEF SaidBefore, FinalsBefore
    <3>3. wire[i].utt <= m.utt
      BY <1>3, <2>1, <3>2
    <3> QED BY <2>1, <3>1, <3>2, <3>3
  <2> QED BY <1>2, <2>2, <2>3
<1>5. ASSUME NEW i \in 1..(n + 1)
      PROVE  /\ wire'[i].utt <= epoch'
             /\ wire'[i].kind = "final" => wire'[i].utt < epoch'
             /\ wire'[i].kind = "partial" => wire'[i].rev <= revision'
             /\ Silent' \/ pc' \in {"final", "answer"} => wire'[i].utt < epoch'
  <2>1. CASE i \in 1..n
    <3>1. /\ wire'[i] = wire[i]
          /\ SaidBefore(epoch) => wire[i].utt < epoch
      BY <1>2, <2>1 DEF SaidBefore
    <3>2. wire[i].kind = "partial" => wire[i].rev <= revision'
      BY <1>1, <1>3, <2>1
    <3> QED BY <1>1, <2>1, <3>1, <3>2
  <2>2. CASE i = n + 1
    BY <1>2, <2>2
  <2> QED BY <1>2, <2>1, <2>2
<1>6. WireInv'
  BY <1>2, <1>4, <1>5 DEF WireInv
<1> QED BY <1>2, <1>6

(* Serve queues up.                                                         *)
LEMMA ServeJoins ==
  ASSUME SessionInv, pc \notin Speaking, NEW m, Enter(Serve, m)
  PROVE  /\ LineTypeOK'
         /\ ToSet(line)' = ToSet(line) \cup {Serve}
         /\ \A x : Sends(x)' <=> Sends(x) \/ (line = <<>> /\ x = Serve)
         /\ line'[Len(line')] = Serve
         /\ wire' = IF line = <<>> /\ Connected THEN wire \o m ELSE wire
<1>1. LineTypeOK /\ Shortened(line, {})
  BY LineIsTyped, ShortenedNot
<1>2. Serve \notin ToSet(line) \ {} /\ Serve \in Nat
  BY DEF SessionInv, LineInv, Serve
<1>3. Queue(line, Serve) /\ wire' = IF line = <<>> /\ Connected THEN wire \o m ELSE wire
  BY DEF Enter, Join, Free
<1>4. /\ LineTypeOK'
      /\ ToSet(line)' = (ToSet(line) \ {}) \cup {Serve}
      /\ \A x : Sends(x)' <=> (Sends(x) /\ x \notin {}) \/ (line = <<>> /\ x = Serve)
      /\ line'[Len(line')] = Serve
  BY <1>1, <1>2, <1>3, AfterQueue
<1> QED BY <1>3, <1>4

(* Who is in the line has something to send.                                *)
LEMMA InLine ==
  ASSUME SessionInv
  PROVE  /\ ToSet(line) \subseteq {Serve} \cup Tasks
         /\ Serve \in ToSet(line) <=> pc \in Speaking
         /\ Serve \notin Tasks
         /\ \A t \in Tasks :
              IF t \in ToSet(line)
              THEN tasks[t].at \in {"event", "complaint", "cancelled"}
              ELSE tasks[t].at \notin {"event", "complaint"}
         /\ \A t \in Tasks : Sends(t) => t \in ToSet(line)
         /\ Sends(Serve) => pc \in Speaking
         /\ AllDone => \A t \in Tasks : t \notin ToSet(line)
<1>1. /\ ToSet(line) \subseteq {Serve} \cup Tasks
      /\ Serve \in ToSet(line) <=> pc \in Speaking
      /\ \A t \in Tasks :
           IF t \in ToSet(line)
           THEN tasks[t].at \in {"event", "complaint", "cancelled"}
           ELSE tasks[t].at \notin {"event", "complaint"}
  BY DEF SessionInv, LineInv
<1>2. Serve \notin Tasks
  BY DEF Serve, Tasks
<1>3. \A x : Sends(x) => x \in ToSet(line)
  BY LineIsTyped, SenderInLine
<1>4. AllDone => \A t \in Tasks : t \notin ToSet(line)
  BY <1>1 DEF AllDone
<1> QED BY <1>1, <1>2, <1>3, <1>4

(* Steps in which nothing moves in the line.                                *)
LEMMA StillLine ==
  ASSUME SessionInv, UNCHANGED lockVars, pc' \in Speaking <=> pc \in Speaking,
         Tasks' = Tasks, \A t \in Tasks : tasks'[t].at = tasks[t].at
  PROVE  /\ LineInv' /\ line' \in Seq(Nat) /\ sending' \in BOOLEAN
         /\ \A x : Sends(x)' <=> Sends(x)
<1>1. LineTypeOK' /\ ToSet(line)' = ToSet(line)
  BY LineIsTyped DEF lockVars, LineTypeOK, ToSet
<1>2. \A x : Sends(x)' <=> Sends(x)
  BY DEF lockVars, Sends
<1>3. LineInv'
  BY <1>1, InLine DEF LineInv, LineTypeOK
<1> QED BY <1>1, <1>2, <1>3 DEF LineTypeOK

-----------------------------------------------------------------------------
(* Every step keeps the line, the tasks and the wire.                       *)

LEMMA ConnectFlows ==
  ASSUME SessionInv, Connect
  PROVE  Flow'
<1>1. /\ pc = "new" /\ pc' \in {"connected", "done"}
      /\ UNCHANGED <<vad, active, epoch, revision, task, tasks, wire, lockVars>>
  BY DEF Connect, utteranceVars, endpointVars, partialVars, sendVars, holdVars
<1>2. tasks = <<>> /\ wire = <<>> /\ ~Silent'
  BY <1>1 DEF SessionInv, TasksInv, WireInv, Silent
<1>3. Tasks' = Tasks /\ Tasks = {}
  BY <1>1, <1>2 DEF Tasks
<1>4. LineInv' /\ line' \in Seq(Nat) /\ sending' \in BOOLEAN
  BY <1>1, <1>3, StillLine DEF Speaking
<1>5. TasksInv'
  BY <1>1, <1>2, <1>3 DEF TasksInv, AllDone
<1>6. WireInv' /\ wire' \in Seq(Messages)
  BY <1>1, <1>2, <1>3, WireStays DEF SessionInv, SessionTypeOK
<1> QED BY <1>1, <1>4, <1>5, <1>6 DEF Flow, SessionInv, SessionTypeOK

LEMMA ReleaseFlows ==
  ASSUME SessionInv, Release
  PROVE  Flow'
<1>1. /\ pc = "gather" /\ pc' = "done" /\ PartialDone
      /\ UNCHANGED <<vad, active, epoch, revision, task, tasks, wire, lockVars>>
  BY DEF Release, Gathered, utteranceVars, endpointVars, partialVars, sendVars
<1>2. Tasks' = Tasks
  BY <1>1 DEF Tasks
<1>3. /\ LineInv' /\ line' \in Seq(Nat) /\ sending' \in BOOLEAN
      /\ \A x : Sends(x)' <=> Sends(x)
  BY <1>1, <1>2, StillLine DEF Speaking
<1>4. AllDone
  BY <1>1 DEF SessionInv, TasksInv, PartialDone, AllDone, None, Tasks
<1>5. ~Silent'
  BY <1>1 DEF Silent
<1>6. TasksInv'
  BY <1>1, <1>2, <1>4, <1>5 DEF SessionInv, TasksInv, AllDone
<1>7. WireInv' /\ wire' \in Seq(Messages)
  BY <1>1, <1>2, <1>4, <1>5, WireStays DEF SessionInv, SessionTypeOK, AllDone
<1> QED BY <1>1, <1>3, <1>6, <1>7 DEF Flow, SessionInv, SessionTypeOK

LEMMA FinalSettlesFlows ==
  ASSUME SessionInv, FinalSettles
  PROVE  Flow'
<1>1. /\ pc = "final" /\ pc' = "final"
      /\ UNCHANGED <<vad, active, epoch, revision, task, tasks, wire, lockVars>>
  BY DEF FinalSettles, utteranceVars, endpointVars, partialVars, sendVars
<1>2. Tasks' = Tasks
  BY <1>1 DEF Tasks
<1>3. /\ LineInv' /\ line' \in Seq(Nat) /\ sending' \in BOOLEAN
      /\ \A x : Sends(x)' <=> Sends(x)
  BY <1>1, <1>2, StillLine
<1>4. TasksInv'
  BY <1>1, <1>2 DEF SessionInv, TasksInv, AllDone, Silent
<1>5. WireInv' /\ wire' \in Seq(Messages)
  <2>1. SaidBefore(epoch) /\ FinalsBefore(epoch - 1)
    BY <1>1, WireSays DEF SessionInv
  <2>2. SaidBefore(epoch)' /\ FinalsBefore(epoch - 1)'
    BY <1>1, <2>1 DEF SaidBefore, FinalsBefore
  <2>3. \A t \in Tasks' : tasks'[t].at = "event" /\ ~Sends(t)' => IsNewest(t)'
    BY <1>1, <1>2, <1>3, WireSays DEF SessionInv, IsNewest
  <2>4. epoch' \in Nat /\ epoch' >= epoch
    BY <1>1 DEF SessionInv, SessionTypeOK
  <2>5. SaidBefore(epoch') /\ FinalsBefore(epoch' - 1)
    BY <1>1, <2>1
  <2> QED BY <1>1, <2>3, <2>4, <2>5, WireStays
<1> QED BY <1>1, <1>3, <1>4, <1>5 DEF Flow, SessionInv, SessionTypeOK

LEMMA JobSettlesFlows ==
  ASSUME SessionInv, NEW t \in Tasks, JobSettles(t)
  PROVE  Flow'
<1>1. /\ tasks[t].at = "scheduler"
      /\ UNCHANGED <<pc, vad, active, epoch, revision, task, wire, lockVars>>
  BY DEF JobSettles, utteranceVars, endpointVars, partialVars, sendVars
<1>2. PICK outcome \in {"result", "error"} : tasks' = [tasks EXCEPT ![t].job = outcome]
  BY DEF JobSettles
<1>3. tasks \in Seq(TaskRecords) /\ task \in 0..Len(tasks)
  BY DEF SessionInv, SessionTypeOK
<1>4. tasks[t] \in TaskRecords /\ [tasks[t] EXCEPT !.job = outcome] \in TaskRecords
  BY <1>3, TaskFields DEF TaskRecords
<1>5. tasks' = [u \in 1..Len(tasks) |->
                  IF u = t THEN [tasks[t] EXCEPT !.job = outcome] ELSE tasks[u]]
  <2>1. DOMAIN tasks = 1..Len(tasks)
    BY <1>3
  <2>2. [tasks EXCEPT ![t].job = outcome] =
          [u \in DOMAIN tasks |->
             IF u = t THEN [tasks[t] EXCEPT !.job = outcome] ELSE tasks[u]]
    OBVIOUS
  <2> QED BY <1>2, <2>1, <2>2
<1>6. tasks' \in [1..Len(tasks) -> TaskRecords] /\ Len(tasks) \in Nat
  BY <1>3, <1>4, <1>5, TaskFields DEF Tasks
<1>7. tasks' \in Seq(TaskRecords) /\ Len(tasks') = Len(tasks)
  BY <1>6
<1>8. Tasks' = Tasks
  BY <1>7 DEF Tasks
<1>9. \A u \in Tasks : u # t => tasks'[u] = tasks[u]
  BY <1>5 DEF Tasks
<1>10. tasks'[t] = [tasks[t] EXCEPT !.job = outcome]
  BY <1>5 DEF Tasks
<1>11. /\ tasks'[t].at = tasks[t].at /\ tasks'[t].utt = tasks[t].utt
       /\ tasks'[t].rev = tasks[t].rev /\ tasks'[t].job # "pending"
  BY <1>4, <1>10 DEF TaskRecords
<1>12. \A u \in Tasks : /\ tasks'[u].at = tasks[u].at /\ tasks'[u].utt = tasks[u].utt
                        /\ tasks'[u].rev = tasks[u].rev
                        /\ tasks'[u].job # "pending" \/ tasks'[u].job = tasks[u].job
  BY <1>9, <1>11
<1>13. /\ LineInv' /\ line' \in Seq(Nat) /\ sending' \in BOOLEAN
       /\ \A x : Sends(x)' <=> Sends(x)
  BY <1>1, <1>8, <1>12, StillLine
<1>14. tasks # <<>>
  BY <1>3 DEF Tasks
<1>15. TasksInv'
  BY <1>1, <1>8, <1>12, <1>14 DEF SessionInv, TasksInv, AllDone, Silent, lockVars
<1>16. WireInv' /\ wire' \in Seq(Messages)
  <2>1. \A u \in Tasks' : tasks'[u].at = "event" /\ ~Sends(u)' => IsNewest(u)'
    BY <1>1, <1>8, <1>12, <1>13, WireSays DEF SessionInv, IsNewest
  <2>2. epoch' \in Nat /\ epoch' >= epoch
    BY <1>1 DEF SessionInv, SessionTypeOK
  <2>3. /\ Silent' <=> Silent
        /\ pc \in {"new", "connected"} => wire = <<>>
    BY <1>1 DEF Silent, SessionInv, WireInv
  <2> QED BY <1>1, <1>13, <2>1, <2>2, <2>3, WireStays, WireSays DEF SessionInv
<1> QED BY <1>1, <1>3, <1>7, <1>13, <1>15, <1>16 DEF Flow

(* The end of a session: Serve leaves the line, the partial task is         *)
(* cancelled.                                                               *)
LEMMA TeardownFlows ==
  ASSUME SessionInv, Teardown, wire' = wire, revision' = revision,
         pc \notin {"new", "done"},
         LineTypeOK', ToSet(line)' = ToSet(line) \ {Serve},
         \A x : Sends(x)' <=> Sends(x) /\ x # Serve
  PROVE  Flow'
<1>1. /\ pc' = "gather" /\ tasks' = CancelledTasks
      /\ UNCHANGED <<vad, active, epoch, task>>
  BY DEF Teardown, utteranceVars, endpointVars
<1>2. tasks \in Seq(TaskRecords) /\ task \in 0..Len(tasks)
  BY DEF SessionInv, SessionTypeOK
<1>3. /\ tasks' \in Seq(TaskRecords) /\ Len(tasks') = Len(tasks)
      /\ \A t \in Tasks :
           /\ tasks'[t].utt = tasks[t].utt
           /\ \/ tasks'[t].at = tasks[t].at /\ (t = task => tasks[t].at = "done")
              \/ /\ t = task /\ tasks[t].at # "done"
                 /\ tasks'[t].at = "cancelled"
  BY <1>1, <1>2, CancelledTask
<1>4. Tasks' = Tasks
  BY <1>3 DEF Tasks
<1>5. \A t \in Tasks : /\ tasks[t].at # "done" => t = task
                       /\ tasks[t].utt <= epoch
  BY DEF SessionInv, TasksInv
<1>6. \A t \in Tasks : tasks'[t].at \in {"cancelled", "done"}
  BY <1>3, <1>5
<1>7. LineInv'
  <2>1. \A t \in Tasks : t \in ToSet(line)' => tasks'[t].at = "cancelled"
    BY <1>3, <1>5, InLine
  <2>2. Serve \notin ToSet(line)' /\ ToSet(line)' \subseteq {Serve} \cup Tasks
    BY InLine
  <2> QED BY <1>1, <1>4, <1>6, <2>1, <2>2 DEF LineInv, LineTypeOK, Speaking
<1>8. TasksInv'
  <2>1. ~Silent'
    BY <1>1 DEF Silent
  <2> QED BY <1>1, <1>3, <1>4, <1>5, <2>1 DEF TasksInv
<1>9. WireInv' /\ wire' \in Seq(Messages)
  <2>1. epoch' \in Nat /\ epoch' >= epoch
    BY <1>1 DEF SessionInv, SessionTypeOK
  <2> QED BY <1>1, <1>4, <1>6, <2>1, WireStays DEF Silent
<1> QED BY <1>1, <1>2, <1>3, <1>7, <1>8, <1>9 DEF Flow, LineTypeOK

LEMMA ClosedFlows ==
  ASSUME SessionInv, Closed
  PROVE  Flow'
<1>1. pc = "closing" /\ Teardown /\ wire' = wire /\ revision' = revision
      /\ UNCHANGED lockVars
  BY DEF Closed, Teardown, sendVars
<1>2. Serve \notin ToSet(line) /\ ~Sends(Serve)
  BY <1>1, InLine DEF Speaking
<1>3. /\ LineTypeOK' /\ ToSet(line)' = ToSet(line)
      /\ \A x : Sends(x)' <=> Sends(x)
  BY <1>1, LineIsTyped DEF lockVars, LineTypeOK, ToSet, Sends
<1> QED BY <1>1, <1>2, <1>3, TeardownFlows

(* Serve, sending, leaves the line.                                         *)
LEMMA ServeLeaves ==
  ASSUME SessionInv, Sends(Serve), Rest(LeaveLine)
  PROVE  /\ LineTypeOK' /\ ToSet(line)' = ToSet(line) \ {Serve}
         /\ \A x : Sends(x)' <=> Sends(x) /\ x # Serve
         /\ \A x : ~Sends(x)'
         /\ wire' = wire
<1>1. LineTypeOK /\ line # <<>> /\ Head(line) = Serve /\ \A y : Sends(y) <=> y = Serve
  BY LineIsTyped, SenderInLine
<1>2. Shortened(LeaveLine, {Serve}) /\ Shrink(LeaveLine)
  BY <1>1, ShortenedTail DEF Rest
<1> QED BY <1>1, <1>2, AfterShrink DEF Rest

(* Serve is taken out of the line, wherever it stands.                      *)
LEMMA ServeIsTakenOut ==
  ASSUME SessionInv, Rest(Without(Serve))
  PROVE  /\ LineTypeOK' /\ ToSet(line)' = ToSet(line) \ {Serve}
         /\ \A x : Sends(x)' <=> Sends(x) /\ x # Serve
         /\ wire' = wire
<1>1. LineTypeOK /\ Shortened(Without(Serve), {Serve}) /\ Shrink(Without(Serve))
  BY LineIsTyped, ShortenedWithout DEF Rest
<1> QED BY <1>1, AfterShrink DEF Rest

LEMMA DisconnectFlows ==
  ASSUME SessionInv, Disconnect
  PROVE  Flow'
<1>1. CASE pc \in {"connected", "receive"} /\ Teardown /\ UNCHANGED <<final, sendVars>>
  <2>1. UNCHANGED lockVars /\ wire' = wire /\ revision' = revision
    BY <1>1 DEF sendVars, Teardown
  <2>2. Serve \notin ToSet(line) /\ ~Sends(Serve)
    BY <1>1, InLine DEF Speaking
  <2>3. /\ LineTypeOK' /\ ToSet(line)' = ToSet(line)
        /\ \A x : Sends(x)' <=> Sends(x)
    BY <2>1, LineIsTyped DEF lockVars, LineTypeOK, ToSet, Sends
  <2> QED BY <1>1, <2>1, <2>2, <2>3, TeardownFlows
<1>2. CASE /\ pc \in {"ready", "started", "empty", "failing"} /\ Sends(Serve)
           /\ Rest(LeaveLine) /\ Teardown
  <2>1. revision' = revision
    BY <1>2 DEF Teardown
  <2> QED BY <1>2, <2>1, ServeLeaves, TeardownFlows
<1> QED BY <1>1, <1>2 DEF Disconnect

LEMMA CancelFlows ==
  ASSUME SessionInv, Cancel
  PROVE  Flow'
<1>1. /\ pc \notin {"new", "done"} /\ Rest(Without(Serve)) /\ Teardown
      /\ revision' = revision
  BY DEF Cancel, Waits, Teardown
<1> QED BY <1>1, ServeIsTakenOut, TeardownFlows

(* Serve turns to the error that ends the session.                          *)
LEMMA FailingFlows ==
  ASSUME SessionInv, pc' = "failing", wire' = wire, revision' = revision, task' = task,
         epoch' \in Nat, epoch' >= epoch,
         tasks' \in Seq(TaskRecords), Len(tasks') = Len(tasks), pc # "gather",
         \A t \in Tasks : /\ tasks'[t].at = tasks[t].at /\ tasks'[t].utt = tasks[t].utt
                          /\ tasks'[t].rev = tasks[t].rev,
         LineTypeOK', ToSet(line)' = ToSet(line) \cup {Serve},
         \A x : Sends(x) /\ x # Serve => Sends(x)'
  PROVE  Flow'
<1>1. Tasks' = Tasks /\ task \in 0..Len(tasks) /\ ~Silent'
  BY DEF Tasks, SessionInv, SessionTypeOK, Silent
<1>2. LineInv'
  <2>1. \A t \in Tasks : t # Serve /\ (t \in ToSet(line)' <=> t \in ToSet(line))
    BY InLine
  <2> QED BY <1>1, <2>1, InLine DEF LineInv, LineTypeOK, Speaking
<1>3. TasksInv'
  <2>1. \A t \in Tasks : /\ tasks[t].at # "done" => t = task
                         /\ tasks[t].utt <= epoch
                         /\ tasks[t].at # "cancelled"
    BY DEF SessionInv, TasksInv
  <2>2. \A t \in Tasks : tasks'[t].utt <= epoch'
    BY <2>1, TaskFields DEF SessionInv, SessionTypeOK
  <2> QED BY <1>1, <2>1, <2>2 DEF TasksInv
<1>4. WireInv' /\ wire' \in Seq(Messages)
  <2>1. ASSUME NEW t \in Tasks', tasks'[t].at = "event", ~Sends(t)' PROVE IsNewest(t)'
    <3>1. t \in Tasks /\ t # Serve /\ tasks[t].at = "event" /\ ~Sends(t)
      BY <1>1, <2>1, InLine
    <3> QED BY <3>1, WireSays DEF SessionInv, IsNewest
  <2> QED BY <1>1, <2>1, WireStays
<1> QED BY <1>1, <1>2, <1>3, <1>4 DEF Flow, LineTypeOK

LEMMA NothingSaid ==
  ASSUME SessionInv
  PROVE  wire \o NoMessage = wire
BY DEF SessionInv, SessionTypeOK, NoMessage

LEMMA DeadlineFlows ==
  ASSUME SessionInv, Deadline
  PROVE  Flow'
<1>1. /\ pc \in Waits /\ pc' = "failing" /\ Join(Without(Serve), Serve, NoMessage)
      /\ UNCHANGED <<epoch, revision, task, tasks>>
  BY DEF Deadline, utteranceVars, partialVars
<1>2. LineTypeOK /\ Shortened(Without(Serve), {Serve}) /\ Queue(Without(Serve), Serve)
  BY <1>1, LineIsTyped, ShortenedWithout DEF Join
<1>3. wire' = wire
  BY <1>1, NothingSaid DEF Join
<1>4. /\ LineTypeOK'
      /\ ToSet(line)' = (ToSet(line) \ {Serve}) \cup {Serve}
      /\ \A x : Sends(x)' <=>
           (Sends(x) /\ x \notin {Serve}) \/ (Without(Serve) = <<>> /\ x = Serve)
  BY <1>2, AfterQueue DEF Serve
<1>5. pc # "gather" /\ epoch' \in Nat /\ epoch' >= epoch /\ tasks' \in Seq(TaskRecords)
  BY <1>1 DEF Waits, SessionInv, SessionTypeOK
<1> QED BY <1>1, <1>3, <1>4, <1>5, FailingFlows

\* Fail, whatever became of the epoch and of the calls in the scheduler.
LEMMA FailFlows ==
  ASSUME SessionInv, pc \notin Speaking, pc # "gather", Fail,
         revision' = revision, task' = task,
         epoch' \in Nat, epoch' >= epoch,
         tasks' \in Seq(TaskRecords), Len(tasks') = Len(tasks),
         \A t \in Tasks : /\ tasks'[t].at = tasks[t].at /\ tasks'[t].utt = tasks[t].utt
                          /\ tasks'[t].rev = tasks[t].rev
  PROVE  Flow'
<1>1. pc' = "failing" /\ Enter(Serve, NoMessage)
  BY DEF Fail
<1>2. /\ LineTypeOK' /\ ToSet(line)' = ToSet(line) \cup {Serve}
      /\ \A x : Sends(x)' <=> Sends(x) \/ (line = <<>> /\ x = Serve)
      /\ wire' = IF line = <<>> /\ Connected THEN wire \o NoMessage ELSE wire
  BY <1>1, ServeJoins
<1>3. wire' = wire
  BY <1>2, NothingSaid
<1> QED BY <1>1, <1>2, <1>3, FailingFlows

LEMMA RejectFlows ==
  ASSUME SessionInv, Reject
  PROVE  Flow'
<1>1. /\ pc \in {"connected", "receive"} /\ Fail
      /\ UNCHANGED <<epoch, revision, task, tasks>>
  BY DEF Reject, utteranceVars, partialVars
<1>2. epoch' \in Nat /\ epoch' >= epoch /\ tasks' \in Seq(TaskRecords)
  BY <1>1 DEF SessionInv, SessionTypeOK
<1> QED BY <1>1, <1>2, FailFlows DEF Speaking

(* Serve has an answer to the client that is no transcription event.        *)
LEMMA StartFlows ==
  ASSUME SessionInv, Start
  PROVE  Flow'
<1>1. /\ pc = "connected" /\ pc' = "ready" /\ Enter(Serve, NoMessage)
      /\ UNCHANGED <<active, epoch, revision, task, tasks>>
  BY DEF Start, utteranceVars, endpointVars, partialVars
<1>2. tasks = <<>> /\ wire = <<>>
  BY <1>1 DEF SessionInv, TasksInv, WireInv
<1>3. /\ LineTypeOK' /\ ToSet(line)' = ToSet(line) \cup {Serve}
      /\ wire' = IF line = <<>> /\ Connected THEN wire \o NoMessage ELSE wire
  BY <1>1, ServeJoins DEF Speaking
<1>4. wire' = wire
  BY <1>3, NothingSaid
<1>5. Tasks = {} /\ Tasks' = Tasks
  BY <1>1, <1>2 DEF Tasks
<1>6. LineInv'
  BY <1>1, <1>3, <1>5, InLine DEF LineInv, LineTypeOK, Speaking
<1>7. TasksInv'
  BY <1>1, <1>5 DEF TasksInv, AllDone
<1>8. WireInv' /\ wire' \in Seq(Messages)
  <2>1. SaidBefore(epoch')
    BY <1>2 DEF SaidBefore
  <2>2. epoch' \in Nat /\ epoch' >= epoch
    BY <1>1 DEF SessionInv, SessionTypeOK
  <2> QED BY <1>1, <1>4, <1>5, <2>1, <2>2, WireStays
<1> QED BY <1>1, <1>3, <1>6, <1>7, <1>8 DEF Flow, LineTypeOK, SessionInv, SessionTypeOK

\* An empty commit: the client is told.
LEMMA EmptyCommitFlows ==
  ASSUME SessionInv, pc = "receive", pc' = "empty", Enter(Serve, NoMessage),
         UNCHANGED <<vad, utteranceVars, partialVars>>
  PROVE  Flow'
<1>1. UNCHANGED <<vad, active, epoch, revision, task, tasks>>
  BY DEF utteranceVars, endpointVars, partialVars
<1>2. /\ LineTypeOK' /\ ToSet(line)' = ToSet(line) \cup {Serve}
      /\ \A x : Sends(x)' <=> Sends(x) \/ (line = <<>> /\ x = Serve)
      /\ wire' = IF line = <<>> /\ Connected THEN wire \o NoMessage ELSE wire
  BY ServeJoins DEF Speaking
<1>3. wire' = wire
  BY <1>2, NothingSaid
<1>4. Tasks' = Tasks /\ (Silent' <=> Silent)
  BY <1>1 DEF Tasks, Silent
<1>5. LineInv'
  <2>1. \A t \in Tasks : t # Serve /\ (t \in ToSet(line)' <=> t \in ToSet(line))
    BY <1>2, InLine
  <2> QED BY <1>1, <1>2, <1>4, <2>1, InLine DEF LineInv, LineTypeOK, Speaking
<1>6. TasksInv'
  BY <1>1, <1>4 DEF SessionInv, TasksInv, AllDone
<1>7. WireInv' /\ wire' \in Seq(Messages)
  <2>1. \A t \in Tasks' : tasks'[t].at = "event" /\ ~Sends(t)' => IsNewest(t)'
    BY <1>1, <1>2, <1>3, <1>4, WireSays DEF SessionInv, IsNewest
  <2>2. epoch' \in Nat /\ epoch' >= epoch /\ (Silent' => SaidBefore(epoch'))
    BY <1>1, <1>4, WireSays DEF SessionInv, SessionTypeOK
  <2> QED BY <1>1, <1>3, <2>1, <2>2, WireStays
<1> QED BY <1>1, <1>2, <1>5, <1>6, <1>7 DEF Flow, LineTypeOK, SessionInv, SessionTypeOK

(* _finalize: the epoch moves on, so all that was said is of an utterance   *)
(* before it, and all finals of one before that.                            *)
LEMMA FinalizeFlows ==
  ASSUME SessionInv, pc = "receive", Finalize
  PROVE  Flow'
<1>1. /\ epoch' = epoch + 1 /\ active' = FALSE
      /\ UNCHANGED <<vad, revision, task>>
  BY DEF Finalize, EndpointReset
<1>2. /\ tasks \in Seq(TaskRecords) /\ task \in 0..Len(tasks) /\ epoch \in Nat
      /\ wire \in Seq(Messages)
  BY DEF SessionInv, SessionTypeOK
<1>3. epoch' \in Nat /\ epoch' >= epoch
  BY <1>1, <1>2
<1>4. CASE Fail /\ (tasks' = Superseded \/ tasks' = tasks)
  <2>1. /\ tasks' \in Seq(TaskRecords) /\ Len(tasks') = Len(tasks)
        /\ \A t \in Tasks : /\ tasks'[t].at = tasks[t].at /\ tasks'[t].utt = tasks[t].utt
                            /\ tasks'[t].rev = tasks[t].rev
    BY <1>2, <1>4, SupersededTasks
  <2> QED BY <1>1, <1>3, <1>4, <2>1, FailFlows DEF Speaking
<1>5. CASE pc' = "final" /\ tasks' = Superseded /\ UNCHANGED sendVars
  <2>1. /\ tasks' \in Seq(TaskRecords) /\ Len(tasks') = Len(tasks)
        /\ \A t \in Tasks : /\ tasks'[t].at = tasks[t].at /\ tasks'[t].utt = tasks[t].utt
                            /\ tasks'[t].rev = tasks[t].rev
                            /\ tasks'[t].job # "pending"
    BY <1>2, <1>5, SupersededTasks
  <2>2. Tasks' = Tasks /\ UNCHANGED lockVars /\ wire' = wire
    BY <1>5, <2>1 DEF Tasks, sendVars
  <2>3. /\ LineInv' /\ line' \in Seq(Nat) /\ sending' \in BOOLEAN
        /\ \A x : Sends(x)' <=> Sends(x)
    BY <1>5, <2>1, <2>2, StillLine DEF Speaking
  <2>4. TasksInv'
    <3>1. \A t \in Tasks : /\ tasks[t].at # "done" => t = task
                           /\ tasks[t].utt <= epoch
                           /\ tasks[t].at # "cancelled"
      BY DEF SessionInv, TasksInv
    <3>2. \A t \in Tasks : tasks'[t].utt < epoch' /\ tasks'[t].utt <= epoch'
      BY <1>1, <1>2, <2>1, <3>1, TaskFields
    <3>3. ~Silent'
      BY <1>1, <1>5 DEF Silent
    <3> QED BY <1>1, <1>5, <2>1, <2>2, <3>1, <3>2, <3>3 DEF TasksInv
  <2>5. WireInv' /\ wire' \in Seq(Messages)
    <3>1. \A i \in 1..Len(wire) : /\ wire[i].utt <= epoch
                                  /\ wire[i].kind = "final" => wire[i].utt < epoch
      BY DEF SessionInv, WireInv
    <3>2. SaidBefore(epoch')
      BY <1>1, <1>2, <3>1, WireFields DEF SaidBefore
    <3>3. FinalsBefore(epoch' - 1)
      BY <1>1, <1>2, <3>1, WireFields DEF FinalsBefore
    <3>4. \A t \in Tasks' : tasks'[t].at = "event" /\ ~Sends(t)' => IsNewest(t)'
      BY <1>1, <2>1, <2>2, <2>3, WireSays DEF SessionInv, IsNewest
    <3> QED BY <1>1, <1>3, <1>5, <2>2, <3>2, <3>3, <3>4, WireStays
  <2> QED BY <1>1, <1>2, <2>1, <2>3, <2>4, <2>5 DEF Flow
<1> QED BY <1>4, <1>5 DEF Finalize

LEMMA CommitFlows ==
  ASSUME SessionInv, Commit
  PROVE  Flow'
BY FinalizeFlows, EmptyCommitFlows DEF Commit

(* A frame that opens an utterance: nothing was said of it before.          *)
LEMMA SpeechStartedFlows ==
  ASSUME SessionInv, pc = "receive", vad, ~active, active', pc' = "started",
         Enter(Serve, Message("started", epoch, 0)),
         UNCHANGED <<vad, epoch, partialVars>>
  PROVE  Flow'
<1>1. UNCHANGED <<revision, task, tasks>> /\ Tasks' = Tasks
  BY DEF partialVars, Tasks
<1> DEFINE m == [kind |-> "started", utt |-> epoch, rev |-> 0]
<1>2. /\ LineTypeOK' /\ ToSet(line)' = ToSet(line) \cup {Serve}
      /\ \A x : Sends(x)' <=> Sends(x) \/ (line = <<>> /\ x = Serve)
      /\ wire' = IF line = <<>> /\ Connected THEN wire \o <<m>> ELSE wire
  BY ServeJoins DEF Speaking, Message
<1>3. Silent /\ AllDone /\ SaidBefore(epoch) /\ Connected
  BY WireSays DEF Silent, SessionInv, TasksInv, Connected
<1>4. LineInv'
  <2>1. \A t \in Tasks : t # Serve /\ t \notin ToSet(line)'
    BY <1>2, <1>3, InLine
  <2> QED BY <1>1, <1>2, <1>3, <2>1, InLine DEF LineInv, LineTypeOK, Speaking, AllDone
<1>5. ~Silent'
  BY DEF Silent
<1>6. TasksInv'
  BY <1>1, <1>3, <1>5 DEF SessionInv, TasksInv, AllDone
<1>7. WireInv' /\ wire' \in Seq(Messages)
  <2>1. epoch \in Nat /\ revision \in Nat /\ wire \in Seq(Messages)
    BY DEF SessionInv, SessionTypeOK
  <2>2. CASE line = <<>>
    <3>1. m \in Messages
      BY <2>1 DEF Messages
    <3>2. SaidBefore(m.utt + 1) /\ FinalsBefore(m.utt) /\ SaidBefore(m.utt)
      BY <1>3, <2>1, WireFields DEF SaidBefore, FinalsBefore
    <3>3. Sends(Serve)' /\ wire' = wire \o <<m>>
      BY <1>2, <1>3, <2>2
    <3>4. m.kind = "started" /\ m.utt = epoch
      OBVIOUS
    <3> HIDE DEF m
    <3> QED BY <1>1, <1>3, <1>5, <2>1, <3>1, <3>2, <3>3, <3>4, WireGrows DEF AllDone
  <2>3. CASE line # <<>>
    <3>1. wire' = wire
      BY <1>2, <2>3
    <3>2. epoch' \in Nat /\ epoch' >= epoch /\ SaidBefore(epoch')
      BY <1>3, <2>1
    <3> QED BY <1>1, <1>3, <1>5, <3>1, <3>2, WireStays DEF AllDone
  <2> QED BY <2>2, <2>3
<1> QED BY <1>1, <1>2, <1>4, <1>6, <1>7 DEF Flow, LineTypeOK, SessionInv, SessionTypeOK

(* The final of the utterance just ended: of what was said, only finals     *)
(* could be as late, and they are not.  No partial can follow it, since the *)
(* partial task has left the scheduler.                                     *)
LEMMA FinalReturnsFlows ==
  ASSUME SessionInv, FinalReturns
  PROVE  Flow'
<1>1. /\ pc = "final" /\ UNCHANGED <<vad, active, epoch, revision, task, tasks>>
      /\ \A t \in Tasks : ~Ready(t)
  BY DEF FinalReturns, utteranceVars, endpointVars, partialVars
<1>2. /\ tasks \in Seq(TaskRecords) /\ task \in 0..Len(tasks) /\ epoch \in Nat
      /\ wire \in Seq(Messages) /\ revision \in Nat
  BY DEF SessionInv, SessionTypeOK
<1>3. CASE Fail
  BY <1>1, <1>2, <1>3, FailFlows DEF Speaking
<1>4. CASE pc' = "answer" /\ Enter(Serve, Message("final", epoch - 1, 0))
  <2> DEFINE m == [kind |-> "final", utt |-> epoch - 1, rev |-> 0]
  <2>1. /\ LineTypeOK' /\ ToSet(line)' = ToSet(line) \cup {Serve}
        /\ \A x : Sends(x)' <=> Sends(x) \/ (line = <<>> /\ x = Serve)
        /\ line'[Len(line')] = Serve
        /\ wire' = IF line = <<>> /\ Connected THEN wire \o <<m>> ELSE wire
    BY <1>1, <1>4, ServeJoins DEF Speaking, Message
  <2>2. Tasks' = Tasks /\ ~Silent' /\ Connected
    BY <1>1, <1>4 DEF Tasks, Silent, Connected
  <2>3. \A t \in Tasks : tasks[t].at # "scheduler"
    BY <1>1 DEF Ready, SessionInv, TasksInv
  <2>4. LineInv'
    <3>1. \A t \in Tasks : t # Serve /\ (t \in ToSet(line)' <=> t \in ToSet(line))
      BY <2>1, InLine
    <3> QED BY <1>1, <1>4, <2>1, <2>2, <3>1, InLine DEF LineInv, LineTypeOK, Speaking
  <2>5. TasksInv'
    BY <1>1, <1>4, <2>1, <2>2, <2>3 DEF SessionInv, TasksInv
  <2>6. SaidBefore(epoch) /\ FinalsBefore(epoch - 1)
    BY <1>1, WireSays DEF SessionInv
  <2>7. WireInv' /\ wire' \in Seq(Messages)
    <3>1. CASE line = <<>>
      <4>1. m \in Messages /\ m.kind = "final" /\ m.utt = epoch - 1
        BY <1>2 DEF Messages
      <4>2. Sends(Serve)' /\ wire' = wire \o <<m>>
        BY <2>1, <2>2, <3>1
      <4>3. \A t \in Tasks : tasks[t].at # "event"
        <5>1. ToSet(line) = {}
          BY <3>1 DEF ToSet
        <5> QED BY <5>1, InLine
      <4> HIDE DEF m
      <4>4. m.utt + 1 = epoch /\ m.utt < epoch /\ m.utt <= epoch /\ revision' >= revision
        BY <1>1, <1>2, <4>1
      <4> QED BY <1>1, <1>2, <1>4, <2>2, <2>6, <4>1, <4>2, <4>3, <4>4, WireGrows
    <3>2. CASE line # <<>>
      <4>1. wire' = wire
        BY <2>1, <3>2
      <4>2. \A t \in Tasks' : tasks'[t].at = "event" /\ ~Sends(t)' => IsNewest(t)'
        BY <1>1, <2>1, <2>2, <4>1, WireSays DEF SessionInv, IsNewest
      <4>3. /\ epoch' \in Nat /\ epoch' >= epoch
            /\ SaidBefore(epoch') /\ FinalsBefore(epoch' - 1)
        BY <1>1, <1>2, <2>6
      <4> QED BY <1>1, <1>4, <4>1, <4>2, <4>3, WireStays
    <3> QED BY <3>1, <3>2
  <2> QED BY <1>1, <1>2, <2>1, <2>4, <2>5, <2>7 DEF Flow, LineTypeOK
<1> QED BY <1>3, <1>4 DEF FinalReturns

(* After a frame, or after speech.started: a partial may be submitted, or   *)
(* be refused and queue up to say so.  There was no other.                  *)
LEMMA MaybePartialFlows ==
  ASSUME SessionInv, pc \in {"receive", "started"}, pc' = "receive",
         UNCHANGED <<vad, epoch>>, Silent' => Silent,
         NEW speaking, NEW audio \in Nat, speaking => ~Silent',
         NEW rest, Shortened(rest, {Serve}), MaybePartial(speaking, audio, rest)
  PROVE  Flow'
<1> DEFINE t == Len(tasks) + 1
           new == [utt |-> epoch, audio |-> audio, at |-> "scheduler",
                   job |-> "pending", rev |-> 0]
<1>1. /\ tasks \in Seq(TaskRecords) /\ task \in 0..Len(tasks) /\ epoch \in Nat
      /\ wire \in Seq(Messages) /\ LineTypeOK
  BY LineIsTyped DEF SessionInv, SessionTypeOK
<1>2. /\ epoch' \in Nat /\ epoch' >= epoch
      /\ Silent' \/ pc' \in {"final", "answer"} => SaidBefore(epoch')
  BY <1>1, WireSays DEF SessionInv
<1>3. CASE ~Wanted(speaking, audio) /\ Rest(rest) /\ UNCHANGED partialVars
  <2>1. UNCHANGED <<revision, task, tasks, wire>> /\ Shrink(rest) /\ Tasks' = Tasks
    BY <1>3 DEF partialVars, Rest, Tasks
  <2>2. /\ LineTypeOK' /\ ToSet(line)' = ToSet(line) \ {Serve}
        /\ \A x : Sends(x)' <=> Sends(x) /\ x \notin {Serve}
    BY <1>1, <2>1, AfterShrink
  <2>3. \A u \in Tasks : /\ u # Serve /\ (u \in ToSet(line)' <=> u \in ToSet(line))
                         /\ Sends(u)' <=> Sends(u)
    BY <2>2, InLine
  <2>4. LineInv'
    BY <2>1, <2>2, <2>3, InLine DEF LineInv, LineTypeOK, Speaking
  <2>5. TasksInv'
    BY <2>1 DEF SessionInv, TasksInv, AllDone
  <2>6. WireInv' /\ wire' \in Seq(Messages)
    <3>1. \A u \in Tasks' : tasks'[u].at = "event" /\ ~Sends(u)' => IsNewest(u)'
      BY <2>1, <2>3, WireSays DEF SessionInv, IsNewest
    <3> QED BY <1>2, <2>1, <3>1, WireStays
  <2> QED BY <1>1, <2>1, <2>2, <2>4, <2>5, <2>6 DEF Flow, LineTypeOK
<1>4. CASE Wanted(speaking, audio) /\ SubmitPartial(audio, rest)
  <2>1. /\ task' = t /\ revision' = revision
        /\ \/ tasks' = Append(tasks, new) /\ Rest(rest)
           \/ /\ tasks' = Append(tasks, [new EXCEPT !.at = "complaint", !.job = "refused"])
              /\ Join(rest, t, NoMessage)
    BY <1>4 DEF SubmitPartial
  <2>2. AllDone /\ ~Silent'
    <3>1. speaking /\ PartialDone
      BY <1>4 DEF Wanted
    <3> QED BY <3>1 DEF PartialDone, AllDone, None, Tasks, SessionInv, TasksInv
  <2>3. PICK r \in TaskRecords :
          /\ tasks' = Append(tasks, r) /\ r.utt = epoch
          /\ \/ r.at = "scheduler" /\ Rest(rest)
             \/ r.at = "complaint" /\ Join(rest, t, NoMessage)
    <3>1. /\ new \in TaskRecords
          /\ [new EXCEPT !.at = "complaint", !.job = "refused"] \in TaskRecords
      BY <1>1 DEF TaskRecords
    <3>2. /\ new.utt = epoch /\ new.at = "scheduler"
          /\ [new EXCEPT !.at = "complaint", !.job = "refused"].utt = epoch
          /\ [new EXCEPT !.at = "complaint", !.job = "refused"].at = "complaint"
      OBVIOUS
    <3> HIDE DEF new
    <3> QED BY <2>1, <3>1, <3>2
  <2>4. /\ tasks' \in Seq(TaskRecords) /\ Len(tasks') = t
        /\ Tasks' = Tasks \cup {t} /\ t \notin Tasks /\ t \in Nat /\ t # Serve
        /\ \A u \in Tasks : tasks'[u] = tasks[u]
        /\ tasks'[t] = r
    BY <1>1, <2>3, NewTask DEF Tasks, Serve
  <2> HIDE DEF t
  <2>5. t \notin ToSet(line) /\ \A u \in Tasks : u \notin ToSet(line) /\ u # t
    BY <2>2, <2>4, InLine
  <2>6. /\ LineTypeOK' /\ wire' = wire
        /\ \/ r.at = "scheduler" /\ ToSet(line)' = ToSet(line) \ {Serve}
           \/ r.at = "complaint" /\ ToSet(line)' = (ToSet(line) \ {Serve}) \cup {t}
    <3>1. CASE r.at = "scheduler" /\ Rest(rest)
      BY <1>1, <3>1, AfterShrink DEF Rest
    <3>2. CASE r.at = "complaint" /\ Join(rest, t, NoMessage)
      <4>1. Queue(rest, t) /\ wire' = wire
        BY <3>2, NothingSaid DEF Join
      <4> QED BY <1>1, <2>4, <2>5, <3>2, <4>1, AfterQueue
    <3> QED BY <2>3, <3>1, <3>2
  <2>7. LineInv'
    <3>1. ToSet(line) \subseteq {Serve}
      BY <2>5, InLine
    <3>2. \A u \in Tasks : u \notin ToSet(line)' /\ tasks'[u].at = "done"
      BY <2>2, <2>4, <2>5, <2>6, InLine DEF AllDone
    <3>3. IF t \in ToSet(line)' THEN r.at = "complaint" ELSE r.at = "scheduler"
      BY <2>5, <2>6
    <3>4. Serve \notin ToSet(line)' /\ ToSet(line)' \subseteq {Serve} \cup Tasks'
      BY <2>4, <2>6, <3>1
    <3> QED BY <2>4, <2>6, <3>2, <3>3, <3>4 DEF LineInv, LineTypeOK, Speaking
  <2>8. TasksInv'
    <3>1. \A u \in Tasks : tasks'[u].at = "done" /\ tasks'[u].utt <= epoch
      BY <2>2, <2>4 DEF AllDone, SessionInv, TasksInv
    <3>2. r.at # "cancelled" /\ r.utt <= epoch
      BY <1>1, <2>3
    <3> QED BY <2>1, <2>2, <2>4, <3>1, <3>2 DEF TasksInv, t
  <2>9. WireInv' /\ wire' \in Seq(Messages)
    <3>1. \A u \in Tasks' : tasks'[u].at # "event"
      BY <2>2, <2>3, <2>4 DEF AllDone
    <3> QED BY <1>2, <2>1, <2>6, <3>1, WireStays
  <2>10. task' \in 0..Len(tasks')
    BY <2>1, <2>4 DEF t
  <2> QED BY <2>4, <2>6, <2>7, <2>8, <2>9, <2>10 DEF Flow, LineTypeOK
<1> QED BY <1>3, <1>4 DEF MaybePartial

LEMMA FrameLength ==
  ASSUME NEW n \in Nat
  PROVE  n * FrameMs \in Nat
BY SessionAssumption

LEMMA VoiceFrameFlows ==
  ASSUME SessionInv, NEW isSpeech \in BOOLEAN, VoiceFrame(isSpeech)
  PROVE  Flow'
<1> DEFINE kept == IF Keeps(isSpeech) THEN frames + 1 ELSE 0
<1>1. pc = "receive" /\ vad
  BY DEF VoiceFrame
<1>2. kept \in Nat
  BY DEF SessionInv, SessionTypeOK
<1>3. CASE /\ Process(isSpeech, "none") /\ MaybePartial(active', kept * FrameMs, line)
           /\ UNCHANGED <<pc, vad, epoch>>
  <2>1. kept * FrameMs \in Nat
    BY <1>2, FrameLength
  <2>2. active' = active
    BY <1>3 DEF Process, Listen, Follow
  <2>3. (Silent' => Silent) /\ (active' => ~Silent')
    BY <1>1, <1>3, <2>2 DEF Silent
  <2>4. Shortened(line, {Serve})
    <3>1. Serve \notin ToSet(line) /\ Shortened(line, {})
      BY <1>1, InLine, LineIsTyped, ShortenedNot DEF Speaking
    <3> QED BY <3>1 DEF Shortened
  <2> HIDE DEF kept
  <2> QED BY <1>1, <1>3, <2>1, <2>3, <2>4, MaybePartialFlows
<1>4. CASE /\ Process(isSpeech, "started") /\ pc' = "started"
           /\ Enter(Serve, Message("started", epoch, 0))
           /\ UNCHANGED <<vad, epoch, partialVars>>
  <2>1. ~active /\ active'
    BY <1>4 DEF Process, Listen, Follow
  <2> QED BY <1>1, <1>4, <2>1, SpeechStartedFlows
<1>5. CASE Finalize
  BY <1>1, <1>5, FinalizeFlows
<1> QED BY <1>3, <1>4, <1>5 DEF VoiceFrame

LEMMA PlainFrameFlows ==
  ASSUME SessionInv, PlainFrame
  PROVE  Flow'
<1>1. pc = "receive" /\ ~vad
  BY DEF PlainFrame
<1>2. CASE Finalize
  BY <1>1, <1>2, FinalizeFlows
<1>3. CASE /\ frames' = frames + 1 /\ MaybePartial(TRUE, frames' * FrameMs, line)
           /\ UNCHANGED <<pc, vad, epoch>>
  <2>1. PICK n \in Nat : n = frames'
    BY <1>3 DEF SessionInv, SessionTypeOK
  <2>5. n * FrameMs \in Nat
    BY FrameLength
  <2>2. ~Silent'
    BY <1>1, <1>3 DEF Silent
  <2>3. Shortened(line, {Serve})
    <3>1. Serve \notin ToSet(line) /\ Shortened(line, {})
      BY <1>1, InLine, LineIsTyped, ShortenedNot DEF Speaking
    <3> QED BY <3>1 DEF Shortened
  <2>4. MaybePartial(TRUE, n * FrameMs, line)
    BY <1>3, <2>1
  <2> QED BY <1>1, <1>3, <2>2, <2>3, <2>4, <2>5, MaybePartialFlows
<1> QED BY <1>2, <1>3 DEF PlainFrame

(* What Serve sent is out.  After a final nobody else is in the line, so    *)
(* the partial task, which had left the scheduler, is over.                 *)
LEMMA ServeSentFlows ==
  ASSUME SessionInv, ServeSent
  PROVE  Flow'
<1>1. Sends(Serve) /\ UNCHANGED <<vad, active, epoch>>
  BY DEF ServeSent, utteranceVars, endpointVars
<1>2. /\ tasks \in Seq(TaskRecords) /\ task \in 0..Len(tasks) /\ epoch \in Nat
      /\ wire \in Seq(Messages) /\ LineTypeOK
  BY LineIsTyped DEF SessionInv, SessionTypeOK
<1>3. /\ line # <<>> /\ Head(line) = Serve /\ \A t \in Tasks : ~Sends(t) /\ t # Serve
  BY <1>1, <1>2, SenderInLine, InLine
<1>4. epoch' \in Nat /\ epoch' >= epoch
  BY <1>1, <1>2
<1>5. CASE /\ pc \in {"ready", "empty"} /\ pc' = "receive"
           /\ Rest(LeaveLine) /\ UNCHANGED partialVars
  <2>1. /\ LineTypeOK' /\ ToSet(line)' = ToSet(line) \ {Serve} /\ wire' = wire
    BY <1>1, <1>5, ServeLeaves
  <2>2. UNCHANGED <<revision, task, tasks>> /\ Tasks' = Tasks /\ (Silent' <=> Silent)
    BY <1>1, <1>5 DEF partialVars, Tasks, Silent
  <2>3. LineInv'
    <3>1. \A u \in Tasks : u \in ToSet(line)' <=> u \in ToSet(line)
      BY <1>3, <2>1
    <3> QED BY <1>5, <2>1, <2>2, <3>1, InLine DEF LineInv, LineTypeOK, Speaking
  <2>4. TasksInv'
    BY <1>1, <1>5, <2>2 DEF SessionInv, TasksInv, AllDone
  <2>5. WireInv' /\ wire' \in Seq(Messages)
    <3>1. \A u \in Tasks' : tasks'[u].at = "event" => IsNewest(u)'
      BY <1>3, <2>1, <2>2, WireSays DEF SessionInv, IsNewest
    <3>2. Silent' => SaidBefore(epoch')
      BY <1>1, <2>2, WireSays DEF SessionInv
    <3> QED BY <1>4, <1>5, <2>1, <2>2, <3>1, <3>2, WireStays
  <2> QED BY <1>2, <2>1, <2>2, <2>3, <2>4, <2>5 DEF Flow, LineTypeOK
<1>6. CASE /\ pc = "started" /\ pc' = "receive"
           /\ MaybePartial(active, frames * FrameMs, LeaveLine)
  <2>1. active /\ frames \in Nat
    BY <1>6 DEF SessionInv, SessionTypeOK, BufferInv
  <2>2. frames * FrameMs \in Nat
    BY <2>1, FrameLength
  <2>3. ~Silent'
    BY <1>1, <2>1 DEF Silent
  <2>4. Shortened(LeaveLine, {Serve})
    BY <1>2, <1>3, ShortenedTail
  <2> QED BY <1>1, <1>6, <2>2, <2>3, <2>4, MaybePartialFlows
<1>7. CASE /\ pc = "answer" /\ pc' = "receive" /\ task' = None
           /\ Rest(LeaveLine) /\ UNCHANGED <<revision, tasks>>
  <2>1. /\ LineTypeOK' /\ ToSet(line)' = ToSet(line) \ {Serve} /\ wire' = wire
    BY <1>1, <1>7, ServeLeaves
  <2>2. Tasks' = Tasks
    BY <1>7 DEF Tasks
  <2>3. ToSet(line) = {Serve}
    <3>1. line[Len(line)] = Serve
      BY <1>7 DEF SessionInv, TasksInv
    <3> QED BY <1>2, <1>3, <3>1, LastIsAlone
  <2>4. AllDone
    <3>1. ASSUME NEW u \in Tasks PROVE tasks[u].at = "done"
      <4>1. tasks[u].at \notin {"event", "complaint"}
        BY <1>3, <2>3, InLine
      <4>2. tasks[u].at \notin {"scheduler", "cancelled"}
        BY <1>7 DEF SessionInv, TasksInv
      <4> QED BY <1>2, <4>1, <4>2, TaskFields
    <3> QED BY <3>1 DEF AllDone
  <2>5. LineInv'
    <3>1. ToSet(line)' = {}
      BY <2>1, <2>3
    <3> QED BY <1>7, <2>1, <2>2, <2>4, <3>1 DEF LineInv, LineTypeOK, Speaking, AllDone
  <2>6. TasksInv'
    BY <1>1, <1>7, <2>2, <2>4 DEF SessionInv, TasksInv, AllDone
  <2>7. WireInv' /\ wire' \in Seq(Messages)
    <3>1. SaidBefore(epoch')
      BY <1>1, <1>7, WireSays DEF SessionInv
    <3> QED BY <1>4, <1>7, <2>1, <2>2, <2>4, <3>1, WireStays DEF AllDone
  <2> QED BY <1>2, <1>7, <2>1, <2>5, <2>6, <2>7 DEF Flow, LineTypeOK, None
<1>8. CASE /\ pc = "failing" /\ pc' = "closing"
           /\ Rest(LeaveLine) /\ UNCHANGED partialVars
  <2>1. /\ LineTypeOK' /\ ToSet(line)' = ToSet(line) \ {Serve} /\ wire' = wire
    BY <1>1, <1>8, ServeLeaves
  <2>2. UNCHANGED <<revision, task, tasks>> /\ Tasks' = Tasks /\ ~Silent'
    BY <1>8 DEF partialVars, Tasks, Silent
  <2>3. LineInv'
    <3>1. \A u \in Tasks : u \in ToSet(line)' <=> u \in ToSet(line)
      BY <1>3, <2>1
    <3> QED BY <1>8, <2>1, <2>2, <3>1, InLine DEF LineInv, LineTypeOK, Speaking
  <2>4. TasksInv'
    BY <1>1, <1>8, <2>2 DEF SessionInv, TasksInv, AllDone
  <2>5. WireInv' /\ wire' \in Seq(Messages)
    <3>1. \A u \in Tasks' : tasks'[u].at = "event" => IsNewest(u)'
      BY <1>3, <2>1, <2>2, WireSays DEF SessionInv, IsNewest
    <3> QED BY <1>4, <1>8, <2>1, <2>2, <3>1, WireStays
  <2> QED BY <1>2, <2>1, <2>2, <2>3, <2>4, <2>5 DEF Flow, LineTypeOK
<1> QED BY <1>5, <1>6, <1>7, <1>8 DEF ServeSent

(* The partial task ends, and leaves the line.                              *)
LEMMA TaskLeaves ==
  ASSUME SessionInv, NEW t \in Tasks, NEW rest, Shortened(rest, {t}), Rest(rest),
         tasks' = Moved(t, "done"),
         UNCHANGED <<pc, vad, active, epoch, revision, task>>
  PROVE  Flow'
<1>1. /\ tasks \in Seq(TaskRecords) /\ task \in 0..Len(tasks) /\ epoch \in Nat
      /\ wire \in Seq(Messages) /\ LineTypeOK
  BY LineIsTyped DEF SessionInv, SessionTypeOK
<1>2. /\ tasks' \in Seq(TaskRecords) /\ Len(tasks') = Len(tasks)
      /\ tasks'[t].at = "done" /\ tasks'[t].utt = tasks[t].utt
      /\ \A u \in Tasks : u # t => tasks'[u] = tasks[u]
  <2>1. "done" \in {"scheduler", "event", "complaint", "cancelled", "done"}
    OBVIOUS
  <2> QED BY <1>1, <2>1, MovedTask
<1>3. Tasks' = Tasks /\ (Silent' <=> Silent)
  BY <1>2 DEF Tasks, Silent
<1>4. /\ LineTypeOK' /\ ToSet(line)' = ToSet(line) \ {t} /\ wire' = wire
      /\ \A x : Sends(x)' <=> Sends(x) /\ x \notin {t}
      /\ line # <<>> /\ line[Len(line)] \notin {t} => line'[Len(line')] = line[Len(line)]
  BY <1>1, AfterShrink DEF Rest
<1>5. t # Serve /\ (Sends(Serve)' <=> Sends(Serve))
  BY <1>4, InLine
<1>6. LineInv'
  <2>1. ASSUME NEW u \in Tasks
        PROVE  IF u \in ToSet(line)'
               THEN tasks'[u].at \in {"event", "complaint", "cancelled"}
               ELSE tasks'[u].at \notin {"event", "complaint"}
    BY <1>2, <1>4, InLine
  <2>2. Serve \in ToSet(line)' <=> Serve \in ToSet(line)
    BY <1>4, <1>5
  <2> QED BY <1>3, <1>4, <2>1, <2>2, InLine DEF LineInv, LineTypeOK
<1>7. TasksInv'
  <2>1. \A u \in Tasks : /\ tasks'[u].at = tasks[u].at \/ tasks'[u].at = "done"
                         /\ tasks'[u].utt = tasks[u].utt
                         /\ tasks'[u].job = tasks[u].job \/ tasks'[u].at = "done"
    BY <1>2
  <2>2. pc = "answer" => line'[Len(line')] = Serve
    <3>1. pc = "answer" => line # <<>> /\ line[Len(line)] = Serve
      <4>1. pc = "answer" => Serve \in ToSet(line)
        BY InLine DEF Speaking
      <4>2. line = <<>> => ToSet(line) = {}
        BY DEF ToSet
      <4> QED BY <4>1, <4>2 DEF SessionInv, TasksInv
    <3> QED BY <1>4, <1>5, <3>1
  <2>3. tasks # <<>>
    BY <1>1 DEF Tasks
  <2> QED BY <1>3, <2>1, <2>2, <2>3 DEF SessionInv, TasksInv, AllDone
<1>8. WireInv' /\ wire' \in Seq(Messages)
  <2>1. ASSUME NEW u \in Tasks', tasks'[u].at = "event", ~Sends(u)' PROVE IsNewest(u)'
    <3>1. u \in Tasks /\ u # t /\ tasks'[u] = tasks[u] /\ ~Sends(u)
      BY <1>2, <1>3, <1>4, <2>1
    <3> QED BY <1>4, <2>1, <3>1, WireSays DEF SessionInv, IsNewest
  <2>2. epoch' \in Nat /\ epoch' >= epoch
    BY <1>1
  <2>3. pc \in {"new", "connected"} => wire = <<>>
    BY DEF SessionInv, WireInv
  <2>4. /\ Silent' \/ pc' \in {"final", "answer"} => SaidBefore(epoch')
        /\ pc' = "started" /\ ~Sends(Serve)' => SaidBefore(epoch')
        /\ pc' = "final" \/ (pc' = "answer" /\ ~Sends(Serve)') => FinalsBefore(epoch' - 1)
    BY <1>3, <1>5, WireSays DEF SessionInv
  <2> QED BY <1>4, <2>1, <2>2, <2>3, <2>4, WireStays
<1> QED BY <1>1, <1>2, <1>4, <1>6, <1>7, <1>8 DEF Flow, LineTypeOK

LEMMA TaskSentFlows ==
  ASSUME SessionInv, NEW t \in Tasks, TaskSent(t)
  PROVE  Flow'
<1>1. /\ Sends(t) /\ Rest(LeaveLine) /\ tasks' = Moved(t, "done")
      /\ UNCHANGED <<pc, vad, active, epoch, revision, task>>
  BY DEF TaskSent, utteranceVars, endpointVars
<1>2. Shortened(LeaveLine, {t})
  BY <1>1, LineIsTyped, SenderInLine, ShortenedTail
<1> QED BY <1>1, <1>2, TaskLeaves

LEMMA TaskEndsFlows ==
  ASSUME SessionInv, NEW t \in Tasks, TaskEnds(t)
  PROVE  Flow'
<1>1. /\ Rest(Without(t)) /\ tasks' = Moved(t, "done")
      /\ UNCHANGED <<pc, vad, active, epoch, revision, task>>
  BY DEF TaskEnds, utteranceVars, endpointVars
<1>2. Shortened(Without(t), {t})
  BY LineIsTyped, ShortenedWithout
<1> QED BY <1>1, <1>2, TaskLeaves

(* A task, alone unfinished, comes from the scheduler.  Nothing was         *)
(* announced or answered meanwhile, unless its utterance is over.           *)
LEMMA AtScheduler ==
  ASSUME SessionInv, NEW t \in Tasks, tasks[t].at = "scheduler"
  PROVE  /\ \A u \in Tasks : u # t => tasks[u].at = "done"
         /\ t = task /\ tasks[t].utt <= epoch
         /\ ~Silent /\ pc \notin {"new", "connected", "started", "answer", "done"}
         /\ pc = "final" => tasks[t].utt < epoch /\ tasks[t].job # "pending"
         /\ t \in Nat /\ t # Serve /\ t \notin ToSet(line)
<1>1. \A u \in Tasks : /\ tasks[u].at # "done" => u = task
                       /\ tasks[u].utt <= epoch
  BY DEF SessionInv, TasksInv
<1>2. ~Silent /\ pc \notin {"started", "done", "answer"}
  BY DEF SessionInv, TasksInv, AllDone
<1>3. pc \notin {"new", "connected"}
  BY DEF SessionInv, TasksInv, Tasks
<1>4. pc = "final" => tasks[t].utt < epoch /\ tasks[t].job # "pending"
  BY DEF SessionInv, TasksInv
<1>5. t \in Nat /\ t # Serve /\ t \notin ToSet(line)
  BY InLine DEF Tasks
<1> QED BY <1>1, <1>2, <1>3, <1>4, <1>5

(* It queues up with what it has to say (m) or is over.                     *)
LEMMA TaskQueuesUp ==
  ASSUME SessionInv, NEW t \in Tasks, tasks[t].at = "scheduler",
         NEW m, Enter(t, m), UNCHANGED <<pc, vad, active, epoch, task>>,
         tasks' \in Seq(TaskRecords), Len(tasks') = Len(tasks),
         \A u \in Tasks : u # t => tasks'[u] = tasks[u],
         tasks'[t].at \in {"event", "complaint"}, tasks'[t].utt = tasks[t].utt
  PROVE  /\ LineInv' /\ TasksInv' /\ Tasks' = Tasks
         /\ line' \in Seq(Nat) /\ sending' \in BOOLEAN /\ ~Silent'
         /\ \A u \in Tasks : u # t => tasks'[u].at = "done"
         /\ line = <<>> => Sends(t)'
         /\ wire' = IF line = <<>> /\ Connected THEN wire \o m ELSE wire
<1>1. LineTypeOK /\ Shortened(line, {})
  BY LineIsTyped, ShortenedNot
<1>2. Queue(line, t) /\ wire' = IF line = <<>> /\ Connected THEN wire \o m ELSE wire
  BY DEF Enter, Join, Free
<1>3. /\ LineTypeOK'
      /\ ToSet(line)' = (ToSet(line) \ {}) \cup {t}
      /\ \A x : Sends(x)' <=> (Sends(x) /\ x \notin {}) \/ (line = <<>> /\ x = t)
  BY <1>1, <1>2, AtScheduler, AfterQueue
<1>4. Tasks' = Tasks /\ ~Silent'
  BY AtScheduler DEF Tasks, Silent
<1>5. \A u \in Tasks : u # t => tasks'[u].at = "done"
  BY AtScheduler
<1>6. LineInv'
  <2>1. \A u \in Tasks : u # t => u \notin ToSet(line)'
    BY <1>3, AtScheduler, InLine
  <2>2. t \in ToSet(line)' /\ (Serve \in ToSet(line)' <=> Serve \in ToSet(line))
    BY <1>3, AtScheduler
  <2>3. ToSet(line)' \subseteq {Serve} \cup Tasks
    BY <1>3, InLine
  <2> QED BY <1>3, <1>4, <1>5, <2>1, <2>2, <2>3, InLine DEF LineInv, LineTypeOK
<1>7. TasksInv'
  <2>1. \A u \in Tasks : tasks'[u].at = "done" \/ u = t
    BY <1>5
  <2>2. \A u \in Tasks : tasks'[u].utt <= epoch
    BY DEF SessionInv, TasksInv
  <2> QED BY <1>4, <2>1, <2>2, AtScheduler DEF TasksInv
<1> QED BY <1>2, <1>3, <1>4, <1>5, <1>6, <1>7 DEF LineTypeOK

LEMMA PartialResumesFlows ==
  ASSUME SessionInv, NEW t \in Tasks, PartialResumes(t)
  PROVE  Flow'
<1>1. /\ tasks[t].at = "scheduler"
      /\ UNCHANGED <<pc, vad, active, epoch, task>>
  BY DEF PartialResumes, utteranceVars, endpointVars
<1>2. /\ tasks \in Seq(TaskRecords) /\ task \in 0..Len(tasks) /\ epoch \in Nat
      /\ wire \in Seq(Messages) /\ revision \in Nat /\ tasks[t] \in TaskRecords
  BY TaskFields DEF SessionInv, SessionTypeOK
<1>3. epoch' \in Nat /\ epoch' >= epoch
  BY <1>1, <1>2
<1>4. CASE /\ Current(t) /\ revision' = revision + 1
           /\ tasks' = [tasks EXCEPT ![t].at = "event", ![t].rev = revision']
           /\ Enter(t, Message("partial", tasks[t].utt, revision'))
  <2> DEFINE m == [kind |-> "partial", utt |-> epoch, rev |-> revision + 1]
             r == [tasks[t] EXCEPT !.at = "event", !.rev = revision + 1]
  <2>1. tasks[t].utt = epoch
    BY <1>4 DEF Current
  <2>2. r \in TaskRecords /\ r.at = "event" /\ r.utt = epoch /\ r.rev = revision + 1
    <3> DEFINE q == [tasks[t] EXCEPT !.at = "event"]
    <3>1. q \in TaskRecords /\ q.at = "event" /\ q.utt = epoch
      BY <1>2, <2>1 DEF TaskRecords
    <3>2. r = [q EXCEPT !.rev = revision + 1]
      OBVIOUS
    <3>3. q.rev \in Nat /\ revision + 1 \in Nat
      BY <1>2, <3>1 DEF TaskRecords
    <3> HIDE DEF q, r
    <3>4. /\ [q EXCEPT !.rev = revision + 1] \in TaskRecords
          /\ [q EXCEPT !.rev = revision + 1].at = q.at
          /\ [q EXCEPT !.rev = revision + 1].utt = q.utt
          /\ [q EXCEPT !.rev = revision + 1].rev = revision + 1
      BY <3>1, <3>3 DEF TaskRecords
    <3> QED BY <3>1, <3>2, <3>4
  <2>3. /\ tasks' \in Seq(TaskRecords) /\ Len(tasks') = Len(tasks)
        /\ tasks'[t] = r /\ \A u \in Tasks : u # t => tasks'[u] = tasks[u]
    <3>1. DOMAIN tasks = 1..Len(tasks) /\ Len(tasks) \in Nat
      BY <1>2
    <3>2. [tasks EXCEPT ![t].at = "event", ![t].rev = revision + 1] =
            [u \in DOMAIN tasks |-> IF u = t THEN r ELSE tasks[u]]
      BY <1>2, <3>1 DEF Tasks
    <3>3. tasks' = [u \in 1..Len(tasks) |-> IF u = t THEN r ELSE tasks[u]]
      BY <1>4, <3>1, <3>2
    <3> HIDE DEF r
    <3>4. tasks' \in [1..Len(tasks) -> TaskRecords]
      BY <1>2, <2>2, <3>3, TaskFields DEF Tasks
    <3>5. tasks' \in Seq(TaskRecords) /\ Len(tasks') = Len(tasks)
      BY <3>1, <3>4
    <3> QED BY <3>3, <3>5 DEF Tasks
  <2>4. Enter(t, <<m>>)
    BY <1>4, <2>1 DEF Message
  <2> HIDE DEF r, m
  <2>5. /\ LineInv' /\ TasksInv' /\ Tasks' = Tasks
        /\ line' \in Seq(Nat) /\ sending' \in BOOLEAN /\ ~Silent'
        /\ \A u \in Tasks : u # t => tasks'[u].at = "done"
        /\ line = <<>> => Sends(t)'
        /\ wire' = IF line = <<>> /\ Connected THEN wire \o <<m>> ELSE wire
    BY <1>1, <2>1, <2>2, <2>3, <2>4, TaskQueuesUp
  <2>6. pc \notin {"final", "answer", "started", "new", "connected"}
    BY <1>1, <1>2, <2>1, AtScheduler
  <2>7. WireInv' /\ wire' \in Seq(Messages)
    <3>1. \A i \in 1..Len(wire) : /\ wire[i].utt <= epoch
                                  /\ wire[i].kind = "final" => wire[i].utt < epoch
                                  /\ wire[i].kind = "partial" => wire[i].rev <= revision
      BY DEF SessionInv, WireInv
    <3>2. CASE line = <<>> /\ Connected
      <4>1. m \in Messages /\ m.kind = "partial" /\ m.utt = epoch /\ m.rev = revision + 1
        BY <1>2 DEF Messages, m
      <4>2. SaidBefore(m.utt + 1) /\ FinalsBefore(m.utt)
        BY <1>2, <3>1, <4>1, WireFields DEF SaidBefore, FinalsBefore
      <4>3. \A i \in 1..Len(wire) : wire[i].kind = "partial" => wire[i].rev < m.rev
        BY <1>2, <3>1, <4>1, WireFields
      <4>4. wire' = wire \o <<m>> /\ Sends(t)'
        BY <2>5, <3>2
      <4>5. \A u \in Tasks' : tasks'[u].at = "event" => Sends(u)'
        BY <2>5, <4>4
      <4>6. m.utt <= epoch /\ m.rev <= revision' /\ revision' \in Nat /\ revision' >= revision
        BY <1>2, <1>4, <4>1
      <4> QED BY <1>1, <2>5, <2>6, <4>1, <4>2, <4>3, <4>4, <4>5, <4>6, WireGrows
    <3>3. CASE ~(line = <<>> /\ Connected)
      <4>1. wire' = wire
        BY <2>5, <3>3
      <4>2. IsNewest(t)'
        BY <1>2, <1>4, <2>2, <2>3, <3>1, <4>1, WireFields DEF IsNewest
      <4>3. \A u \in Tasks' : tasks'[u].at = "event" => IsNewest(u)'
        BY <2>5, <4>2
      <4> QED BY <1>1, <1>3, <1>4, <2>5, <2>6, <4>1, <4>3, WireStays
    <3> QED BY <3>2, <3>3
  <2> QED BY <1>1, <1>2, <2>3, <2>5, <2>7 DEF Flow
<1>5. CASE /\ tasks' = Moved(t, "complaint") /\ Enter(t, NoMessage)
           /\ UNCHANGED revision
  <2>1. /\ tasks' \in Seq(TaskRecords) /\ Len(tasks') = Len(tasks)
        /\ tasks'[t].at = "complaint" /\ tasks'[t].utt = tasks[t].utt
        /\ \A u \in Tasks : u # t => tasks'[u] = tasks[u]
    <3>1. "complaint" \in {"scheduler", "event", "complaint", "cancelled", "done"}
      OBVIOUS
    <3> QED BY <1>2, <1>5, <3>1, MovedTask
  <2>2. /\ LineInv' /\ TasksInv' /\ Tasks' = Tasks
        /\ line' \in Seq(Nat) /\ sending' \in BOOLEAN /\ ~Silent'
        /\ \A u \in Tasks : u # t => tasks'[u].at = "done"
        /\ wire' = IF line = <<>> /\ Connected THEN wire \o NoMessage ELSE wire
    BY <1>1, <1>5, <2>1, TaskQueuesUp
  <2>3. wire' = wire
    BY <2>2, NothingSaid
  <2>4. WireInv' /\ wire' \in Seq(Messages)
    <3>1. \A u \in Tasks' : tasks'[u].at # "event"
      BY <2>1, <2>2
    <3>2. pc = "final" => SaidBefore(epoch') /\ FinalsBefore(epoch' - 1)
      BY <1>1, WireSays DEF SessionInv
    <3> QED BY <1>1, <1>3, <1>5, <2>2, <2>3, <3>1, <3>2, AtScheduler, WireStays
  <2> QED BY <1>1, <1>2, <2>1, <2>2, <2>4 DEF Flow
<1>6. CASE /\ tasks' = Moved(t, "done") /\ UNCHANGED <<revision, sendVars>>
  <2>1. Shortened(line, {t})
    <3>1. t \notin ToSet(line) /\ Shortened(line, {})
      BY <1>1, AtScheduler, LineIsTyped, ShortenedNot
    <3> QED BY <3>1 DEF Shortened
  <2>2. Rest(line)
    <3>1. sending => line # <<>> /\ Head(line) = Head(line)
      BY LineIsTyped DEF LineTypeOK
    <3>2. sending \in BOOLEAN /\ UNCHANGED <<line, sending, wire>>
      BY <1>6 DEF sendVars, lockVars, SessionInv, SessionTypeOK
    <3> QED BY <3>1, <3>2 DEF Rest, Shrink
  <2> QED BY <1>1, <1>6, <2>1, <2>2, TaskLeaves
<1> QED BY <1>4, <1>5, <1>6 DEF PartialResumes, NextRevision

(* Serve has obtained the lock; it says what it waited to say.              *)
LEMMA ServeObtainsFlows ==
  ASSUME SessionInv, ~sending, line # <<>>, Head(line) = Serve,
         NEW m, m = CASE pc = "started" -> Message("started", epoch, 0)
                      [] pc = "answer"  -> Message("final", epoch - 1, 0)
                      [] OTHER          -> NoMessage,
         sending', UNCHANGED <<line, tasks, pc, vad, active, epoch, revision, task>>,
         wire' = IF ~Connected THEN wire ELSE wire \o m
  PROVE  WireInv' /\ wire' \in Seq(Messages)
<1>1. /\ tasks \in Seq(TaskRecords) /\ epoch \in Nat /\ pc \in Phases
      /\ wire \in Seq(Messages) /\ revision \in Nat /\ LineTypeOK
  BY LineIsTyped DEF SessionInv, SessionTypeOK
<1>2. Tasks' = Tasks /\ (Silent' <=> Silent)
  BY DEF Tasks, Silent
<1>3. Serve \in ToSet(line) /\ pc \in Speaking /\ Connected
  <2>1. Serve \in ToSet(line)
    BY <1>1 DEF LineTypeOK, ToSet
  <2> QED BY <2>1, InLine DEF Speaking, Connected
<1>4. Sends(Serve)' /\ ~Sends(Serve) /\ \A t \in Tasks : ~Sends(t)
  BY DEF Sends
<1>5. epoch' \in Nat /\ epoch' >= epoch /\ revision' \in Nat /\ revision' >= revision
  BY <1>1
<1>6. CASE pc = "started"
  <2> DEFINE s == [kind |-> "started", utt |-> epoch, rev |-> 0]
  <2>1. wire' = wire \o <<s>>
    BY <1>3, <1>6 DEF Message
  <2>2. s \in Messages /\ s.kind = "started" /\ s.utt = epoch
    BY <1>1 DEF Messages
  <2> HIDE DEF s
  <2>3. AllDone /\ SaidBefore(epoch)
    BY <1>4, <1>6, WireSays DEF SessionInv, TasksInv
  <2>4. SaidBefore(s.utt + 1) /\ FinalsBefore(s.utt) /\ SaidBefore(s.utt)
    BY <1>1, <2>2, <2>3, WireFields DEF SaidBefore, FinalsBefore
  <2>5. ~Silent' /\ s.utt <= epoch
    BY <1>1, <1>6, <2>2 DEF Silent
  <2> QED BY <1>2, <1>4, <1>5, <1>6, <2>1, <2>2, <2>3, <2>4, <2>5, WireGrows DEF AllDone
<1>7. CASE pc = "answer"
  <2> DEFINE f == [kind |-> "final", utt |-> epoch - 1, rev |-> 0]
  <2>1. wire' = wire \o <<f>>
    BY <1>3, <1>7 DEF Message
  <2>2. f \in Messages /\ f.kind = "final" /\ f.utt = epoch - 1
    BY <1>1 DEF Messages
  <2> HIDE DEF f
  <2>3. SaidBefore(epoch) /\ FinalsBefore(epoch - 1)
    BY <1>4, <1>7, WireSays DEF SessionInv
  <2>4. \A t \in Tasks : tasks[t].at # "event"
    <3>1. line[Len(line)] = Serve
      BY <1>7 DEF SessionInv, TasksInv
    <3>2. ToSet(line) = {Serve}
      BY <1>1, <3>1, LastIsAlone
    <3> QED BY <3>2, InLine
  <2>5. ~Silent' /\ f.utt <= epoch /\ f.utt < epoch /\ f.utt + 1 = epoch
    BY <1>1, <1>7, <2>2 DEF Silent
  <2> QED BY <1>2, <1>4, <1>5, <1>7, <2>1, <2>2, <2>3, <2>4, <2>5, WireGrows
<1>8. CASE pc \in {"ready", "empty", "failing"}
  <2>1. wire' = wire
    BY <1>3, <1>8, NothingSaid
  <2>2. \A t \in Tasks' : tasks'[t].at = "event" => IsNewest(t)'
    BY <1>2, <1>4, <2>1, WireSays DEF SessionInv, IsNewest
  <2>3. Silent' => SaidBefore(epoch')
    BY <1>2, WireSays DEF SessionInv
  <2> QED BY <1>5, <1>8, <2>1, <2>2, <2>3, WireStays
<1> QED BY <1>3, <1>6, <1>7, <1>8 DEF Speaking

(* A partial has obtained the lock; it is sent if its utterance is open.    *)
LEMMA TaskObtainsFlows ==
  ASSUME SessionInv, ~sending, line # <<>>, NEW t \in Tasks, Head(line) = t,
         tasks[t].at = "event" => Current(t),
         sending', UNCHANGED <<line, tasks, pc, vad, active, epoch, revision, task>>,
         wire' = IF ~Connected THEN wire
                 ELSE wire \o (IF tasks[t].at = "event"
                               THEN Message("partial", tasks[t].utt, tasks[t].rev)
                               ELSE NoMessage)
  PROVE  WireInv' /\ wire' \in Seq(Messages)
<1>1. /\ tasks \in Seq(TaskRecords) /\ epoch \in Nat /\ tasks[t] \in TaskRecords
      /\ wire \in Seq(Messages) /\ revision \in Nat
  BY TaskFields DEF SessionInv, SessionTypeOK
<1>2. Tasks' = Tasks /\ (Silent' <=> Silent) /\ t # Serve
  BY InLine DEF Tasks, Silent
<1>3. Sends(t)' /\ ~Sends(Serve)' /\ ~Sends(Serve) /\ \A u \in Tasks : ~Sends(u)
  BY <1>2 DEF Sends
<1>4. epoch' \in Nat /\ epoch' >= epoch /\ revision' \in Nat /\ revision' >= revision
  BY <1>1
<1>5. CASE wire' = wire
  <2>1. \A u \in Tasks' : tasks'[u].at = "event" => IsNewest(u)'
    BY <1>2, <1>3, <1>5, WireSays DEF SessionInv, IsNewest
  <2>2. pc \in {"new", "connected"} => wire = <<>>
    BY DEF SessionInv, WireInv
  <2>3. /\ Silent' \/ pc' \in {"final", "answer"} => SaidBefore(epoch')
        /\ pc' = "started" => SaidBefore(epoch')
        /\ pc' \in {"final", "answer"} => FinalsBefore(epoch' - 1)
    BY <1>2, <1>3, WireSays DEF SessionInv
  <2> QED BY <1>4, <1>5, <2>1, <2>2, <2>3, WireStays
<1>6. CASE tasks[t].at = "event" /\ Connected
  <2> DEFINE m == [kind |-> "partial", utt |-> tasks[t].utt, rev |-> tasks[t].rev]
  <2>1. wire' = wire \o <<m>>
    BY <1>6 DEF Message
  <2>2. tasks[t].utt = epoch /\ IsNewest(t)
    BY <1>3, <1>6, WireSays DEF SessionInv, Current
  <2>3. m \in Messages /\ m.kind = "partial" /\ m.utt = epoch /\ m.rev = revision
    BY <1>1, <2>2 DEF Messages, TaskRecords, IsNewest
  <2> HIDE DEF m
  <2>4. /\ \A u \in Tasks : tasks[u].at # "done" => u = task
        /\ pc \notin {"new", "connected", "final", "answer", "started"} /\ ~Silent
    <3>1. pc \notin {"new", "connected"}
      BY DEF SessionInv, TasksInv, Tasks
    <3>2. pc \notin {"final", "answer"}
      BY <1>1, <1>6, <2>2 DEF SessionInv, TasksInv
    <3> QED BY <1>6, <3>1, <3>2 DEF SessionInv, TasksInv, AllDone
  <2>5. \A u \in Tasks' : tasks'[u].at = "event" => Sends(u)'
    BY <1>2, <1>3, <1>6, <2>4
  <2>6. \A i \in 1..Len(wire) : /\ wire[i].utt <= epoch
                                /\ wire[i].kind = "final" => wire[i].utt < epoch
    BY DEF SessionInv, WireInv
  <2>7. SaidBefore(m.utt + 1) /\ FinalsBefore(m.utt)
    BY <1>1, <2>3, <2>6, WireFields DEF SaidBefore, FinalsBefore
  <2>8. \A i \in 1..Len(wire) : wire[i].kind = "partial" => wire[i].rev < m.rev
    BY <2>2, <2>3 DEF IsNewest
  <2>9. m.utt <= epoch /\ m.rev <= revision'
    BY <1>1, <2>3
  <2> QED BY <1>2, <1>4, <2>1, <2>3, <2>4, <2>5, <2>7, <2>8, <2>9, WireGrows
<1> QED BY <1>5, <1>6, NothingSaid

LEMMA ObtainFlows ==
  ASSUME SessionInv, Obtain
  PROVE  Flow'
<1> DEFINE who == Head(line)
<1>1. /\ line # <<>> /\ ~sending
      /\ UNCHANGED <<pc, vad, active, epoch, revision, task>>
      /\ who # Serve => tasks[who].at # "cancelled"
  BY DEF Obtain, utteranceVars, endpointVars
<1>2. /\ tasks \in Seq(TaskRecords) /\ task \in 0..Len(tasks) /\ LineTypeOK
      /\ sending \in BOOLEAN
  BY LineIsTyped DEF SessionInv, SessionTypeOK
<1>3. who \in ToSet(line) /\ who \in {Serve} \cup Tasks
  <2>1. who \in ToSet(line)
    BY <1>1, <1>2 DEF LineTypeOK, ToSet
  <2> QED BY <2>1, InLine
<1>4. CASE who # Serve /\ tasks[who].at = "event" /\ ~Current(who)
  <2>1. /\ sending' = FALSE /\ line' = Tail(line)
        /\ tasks' = Moved(who, "done") /\ wire' = wire
    BY <1>4 DEF Obtain
  <2>2. Rest(LeaveLine)
    BY <1>1, <1>2, <2>1 DEF Rest, Shrink, LeaveLine
  <2>3. Shortened(LeaveLine, {who}) /\ who \in Tasks
    BY <1>1, <1>2, <1>3, <1>4, ShortenedTail
  <2> QED BY <1>1, <2>1, <2>2, <2>3, TaskLeaves
<1>5. CASE ~(who # Serve /\ tasks[who].at = "event" /\ ~Current(who))
  <2>1. sending' /\ line' = line /\ tasks' = tasks
    BY <1>5 DEF Obtain
  <2>2. LineTypeOK' /\ ToSet(line)' = ToSet(line) /\ Tasks' = Tasks /\ sending' \in BOOLEAN
    BY <1>1, <1>2, <2>1 DEF Obtain, LineTypeOK, ToSet, Tasks
  <2>3. LineInv'
    BY <1>1, <2>1, <2>2, InLine DEF LineInv, LineTypeOK
  <2>4. TasksInv'
    BY <1>1, <2>1, <2>2 DEF SessionInv, TasksInv, AllDone, Silent
  <2>5. WireInv' /\ wire' \in Seq(Messages)
    <3>1. CASE who = Serve
      <4>1. PICK m : /\ m = CASE pc = "started" -> Message("started", epoch, 0)
                              [] pc = "answer"  -> Message("final", epoch - 1, 0)
                              [] OTHER          -> NoMessage
                     /\ wire' = IF ~Connected THEN wire ELSE wire \o m
        BY <3>1 DEF Obtain
      <4> QED BY <1>1, <2>1, <3>1, <4>1, ServeObtainsFlows
    <3>2. CASE who # Serve
      <4>1. PICK t \in Tasks : t = who
        BY <1>3, <3>2
      <4>2. wire' = IF ~Connected THEN wire
                    ELSE wire \o (IF tasks[t].at = "event"
                                  THEN Message("partial", tasks[t].utt, tasks[t].rev)
                                  ELSE NoMessage)
        BY <1>5, <3>2, <4>1 DEF Obtain
      <4>3. tasks[t].at = "event" => Current(t)
        BY <1>5, <3>2, <4>1
      <4> QED BY <1>1, <2>1, <4>1, <4>2, <4>3, TaskObtainsFlows
    <3> QED BY <3>1, <3>2
  <2> QED BY <1>1, <1>2, <2>1, <2>2, <2>3, <2>4, <2>5 DEF Flow, LineTypeOK
<1> QED BY <1>4, <1>5

-----------------------------------------------------------------------------
(* Every step keeps the buffer, the place and the stream, and the texts.    *)

\* What a step has to keep of the rest.
Control ==
  /\ pc \in Phases
  /\ slot \in BOOLEAN /\ lease \in BOOLEAN /\ vad \in BOOLEAN
  /\ epoch \in Nat /\ frames \in Nat /\ revision \in Nat
  /\ active \in BOOLEAN
  /\ speechRun \in Nat /\ silentRun \in Nat /\ uttered \in Nat
  /\ BufferInv /\ HoldInv /\ TextsInv

\* The phases of TextsInv: the session starts, listens, or is about to.
Listening == {"new", "connected", "ready", "receive", "started", "empty"}

LEMMA ControlParts ==
  ASSUME SessionInv
  PROVE  /\ Control
         /\ pc \in Phases /\ slot \in BOOLEAN /\ lease \in BOOLEAN /\ vad \in BOOLEAN
         /\ epoch \in Nat /\ frames \in Nat /\ revision \in Nat /\ active \in BOOLEAN
         /\ speechRun \in Nat /\ silentRun \in Nat /\ uttered \in Nat
BY DEF SessionInv, SessionTypeOK, Control

(* Steps that leave the buffer alone.                                       *)
LEMMA SameBuffer ==
  ASSUME SessionInv, UNCHANGED <<vad, utteranceVars>>,
         pc' \in {"new", "connected"} => pc \in {"new", "connected"},
         pc' = "started" => pc = "started"
  PROVE  /\ epoch' \in Nat /\ frames' \in Nat /\ active' \in BOOLEAN /\ vad' \in BOOLEAN
         /\ speechRun' \in Nat /\ silentRun' \in Nat /\ uttered' \in Nat
         /\ BufferInv'
<1>1. UNCHANGED <<vad, epoch, frames, active, speechRun, silentRun, uttered>>
  BY DEF utteranceVars, endpointVars
<1> QED BY <1>1, ControlParts DEF Control, BufferInv, BufferMatchesEndpoint

(* A session that goes on keeps its place and its stream.                   *)
LEMMA SameHold ==
  ASSUME SessionInv, UNCHANGED holdVars,
         pc \notin {"new", "connected", "gather", "done"},
         pc' \notin {"new", "connected", "gather", "done"}
  PROVE  HoldInv' /\ slot' \in BOOLEAN /\ lease' \in BOOLEAN
BY ControlParts DEF holdVars, Control, HoldInv

LEMMA SameTexts ==
  ASSUME SessionInv, UNCHANGED <<epoch, cadence, texts, task>>,
         pc' \in Listening => pc \in Listening
  PROVE  TextsInv'
BY ControlParts DEF Control, TextsInv, Listening

LEMMA MaybePartialKeeps ==
  ASSUME NEW speaking, NEW audio, NEW rest, MaybePartial(speaking, audio, rest),
         tasks \in Seq(TaskRecords)
  PROVE  /\ UNCHANGED <<texts, revision>>
         /\ UNCHANGED <<cadence, task>> \/ task' # None
<1>1. Len(tasks) + 1 # None
  BY DEF None
<1> QED BY <1>1 DEF MaybePartial, SubmitPartial, partialVars

LEMMA FinalizeControl ==
  ASSUME SessionInv, pc = "receive", Finalize
  PROVE  Control'
<1>1. /\ pc' \in {"final", "failing"} /\ epoch' = epoch + 1 /\ frames' = 0
      /\ active' = FALSE /\ speechRun' = 0 /\ silentRun' = 0 /\ uttered' = 0
      /\ UNCHANGED <<vad, holdVars, revision>>
  BY DEF Finalize, Fail, EndpointReset
<1>2. /\ {StartFrames, EndFrames, MinFrames, MaxFrames} \subseteq Nat \ {0}
  BY EndpointAssumption
<1>3. BufferInv'
  BY <1>1, <1>2 DEF BufferInv, BufferMatchesEndpoint
<1>4. HoldInv' /\ slot' \in BOOLEAN /\ lease' \in BOOLEAN
  BY <1>1, SameHold
<1>5. TextsInv'
  BY <1>1 DEF TextsInv
<1>6. pc' \in Phases
  BY <1>1 DEF Phases, Waits
<1>7. /\ epoch' \in Nat /\ frames' \in Nat
      /\ speechRun' \in Nat /\ silentRun' \in Nat /\ uttered' \in Nat
  <2>1. epoch \in Nat
    BY ControlParts
  <2> QED BY <1>1, <2>1
<1>8. active' \in BOOLEAN
  BY <1>1
<1>9. vad' \in BOOLEAN /\ revision' \in Nat
  BY <1>1, ControlParts
<1> QED BY <1>3, <1>4, <1>5, <1>6, <1>7, <1>8, <1>9 DEF Control

(* The detector and the buffer move in step.                                *)
LEMMA VoiceFrameControl ==
  ASSUME SessionInv, NEW isSpeech \in BOOLEAN, VoiceFrame(isSpeech)
  PROVE  Control'
<1> DEFINE kept == IF Keeps(isSpeech) THEN frames + 1 ELSE 0
<1>1. pc = "receive" /\ vad
  BY DEF VoiceFrame
<1>2. /\ epoch \in Nat /\ frames \in Nat /\ active \in BOOLEAN /\ speechRun \in Nat
      /\ silentRun \in Nat /\ uttered \in Nat /\ revision \in Nat /\ vad \in BOOLEAN
      /\ frames = IF active THEN uttered ELSE speechRun
      /\ frames < MaxFrames /\ speechRun < StartFrames /\ (active => uttered < MaxFrames)
  BY <1>1, ControlParts DEF Control, BufferInv, BufferMatchesEndpoint
<1>3. /\ StartFrames \in Nat /\ MaxFrames \in Nat /\ StartFrames < MaxFrames
      /\ 0 < StartFrames
  BY EndpointAssumption
<1>4. tasks \in Seq(TaskRecords)
  BY DEF SessionInv, SessionTypeOK
<1>5. CASE /\ Process(isSpeech, "none") /\ frames' = kept
           /\ MaybePartial(active', kept * FrameMs, line)
           /\ UNCHANGED <<pc, expired, vad, final, holdVars, epoch>>
  <2>1. /\ UNCHANGED <<texts, revision>> /\ (UNCHANGED <<cadence, task>> \/ task' # None)
    BY <1>4, <1>5, MaybePartialKeeps
  <2>2. TextsInv'
    BY <1>1, <1>5, <2>1, ControlParts DEF Control, TextsInv
  <2>3. HoldInv' /\ slot' \in BOOLEAN /\ lease' \in BOOLEAN
    BY <1>1, <1>5, SameHold
  <2>4. /\ active' = active /\ silentRun' \in Nat /\ frames' \in Nat
        /\ speechRun' \in Nat /\ uttered' \in Nat
        /\ frames' = (IF active THEN uttered' ELSE speechRun')
        /\ frames' < MaxFrames /\ speechRun' < StartFrames
        /\ (active => uttered' < MaxFrames)
    <3>1. CASE Listen(isSpeech, "none")
      <4>1. ~active /\ UNCHANGED <<active, silentRun, uttered>>
        BY <3>1 DEF Listen
      <4>2. CASE isSpeech
        <5>1. speechRun' = speechRun + 1 /\ speechRun + 1 < StartFrames /\ kept = frames + 1
          BY <3>1, <4>2 DEF Listen, Keeps
        <5> QED BY <1>2, <1>3, <1>5, <4>1, <5>1
      <4>3. CASE ~isSpeech
        <5>1. speechRun' = 0 /\ kept = 0
          BY <3>1, <4>1, <4>3 DEF Listen, Keeps
        <5> QED BY <1>2, <1>3, <1>5, <4>1, <5>1
      <4> QED BY <4>2, <4>3
    <3>2. CASE Follow(isSpeech, "none")
      <4>1. /\ active /\ uttered' = uttered + 1 /\ uttered + 1 < MaxFrames
            /\ silentRun' = (IF isSpeech THEN 0 ELSE silentRun + 1)
            /\ UNCHANGED <<active, speechRun>>
        BY <3>2 DEF Follow
      <4>2. kept = frames + 1
        BY <4>1 DEF Keeps
      <4>3. silentRun' \in Nat
        BY <1>2, <4>1
      <4> QED BY <1>2, <1>3, <1>5, <4>1, <4>2, <4>3
    <3> QED BY <1>5, <3>1, <3>2 DEF Process
  <2>5. BufferInv'
    BY <1>1, <1>2, <1>5, <2>4 DEF BufferInv, BufferMatchesEndpoint
  <2> QED BY <1>2, <1>5, <2>1, <2>2, <2>3, <2>4, <2>5, ControlParts DEF Control
<1>6. CASE /\ Process(isSpeech, "started") /\ frames' = kept /\ pc' = "started"
           /\ UNCHANGED <<expired, vad, final, holdVars, epoch, partialVars>>
  <2>1. /\ ~active /\ isSpeech /\ active' = TRUE /\ uttered' = speechRun + 1
        /\ silentRun' = 0 /\ speechRun' = 0
    BY <1>6 DEF Process, Listen, Follow
  <2>2. frames' = uttered' /\ frames' \in Nat /\ frames' <= StartFrames
    BY <1>2, <1>3, <1>6, <2>1 DEF Keeps
  <2>3. frames' < MaxFrames
    BY <1>3, <2>2
  <2>4. BufferInv'
    BY <1>1, <1>3, <1>6, <2>1, <2>2, <2>3 DEF BufferInv, BufferMatchesEndpoint
  <2>5. HoldInv' /\ slot' \in BOOLEAN /\ lease' \in BOOLEAN
    BY <1>1, <1>6, SameHold
  <2>6. TextsInv' /\ revision' = revision
    BY <1>1, <1>6, SameTexts DEF partialVars, Listening
  <2>7. pc' \in Phases
    BY <1>6 DEF Phases, Waits
  <2> QED BY <1>2, <1>6, <2>1, <2>2, <2>4, <2>5, <2>6, <2>7 DEF Control
<1>7. CASE Finalize
  BY <1>1, <1>7, FinalizeControl
<1> QED BY <1>5, <1>6, <1>7 DEF VoiceFrame

LEMMA PlainFrameControl ==
  ASSUME SessionInv, PlainFrame
  PROVE  Control'
<1>1. pc = "receive" /\ ~vad
  BY DEF PlainFrame
<1>2. CASE Finalize
  BY <1>1, <1>2, FinalizeControl
<1>3. CASE /\ frames + 1 < MaxFrames /\ frames' = frames + 1
           /\ MaybePartial(TRUE, frames' * FrameMs, line)
           /\ UNCHANGED <<pc, expired, vad, final, holdVars, epoch, endpointVars>>
  <2>1. tasks \in Seq(TaskRecords)
    BY DEF SessionInv, SessionTypeOK
  <2>2. UNCHANGED <<texts, revision>> /\ (UNCHANGED <<cadence, task>> \/ task' # None)
    BY <1>3, <2>1, MaybePartialKeeps
  <2>3. TextsInv'
    BY <1>1, <1>3, <2>2, ControlParts DEF Control, TextsInv
  <2>4. HoldInv' /\ slot' \in BOOLEAN /\ lease' \in BOOLEAN
    BY <1>1, <1>3, SameHold
  <2>5. frames' \in Nat /\ UNCHANGED <<active, speechRun, silentRun, uttered>>
    BY <1>3, ControlParts DEF endpointVars
  <2>6. BufferInv'
    BY <1>1, <1>3, <2>5, ControlParts DEF Control, BufferInv, BufferMatchesEndpoint
  <2> QED BY <1>3, <2>2, <2>3, <2>4, <2>5, <2>6, ControlParts DEF Control
<1> QED BY <1>2, <1>3 DEF PlainFrame

(* The steps of Serve between frames.                                       *)
LEMMA SessionControl ==
  ASSUME SessionInv, Connect \/ Start \/ Release
  PROVE  Control'
<1>1. CASE Connect
  <2>1. /\ pc = "new" /\ revision' = revision /\ UNCHANGED <<lease, vad, utteranceVars>>
        /\ \/ pc' = "connected" /\ slot' = TRUE
           \/ pc' = "done" /\ slot' = slot
        /\ UNCHANGED <<epoch, cadence, texts, task>>
    BY <1>1 DEF Connect, partialVars, utteranceVars
  <2>2. BufferInv' /\ TextsInv'
    BY <2>1, SameBuffer, SameTexts DEF Listening
  <2>3. HoldInv'
    BY <2>1, ControlParts DEF Control, HoldInv
  <2>4. pc' \in Phases /\ slot' \in BOOLEAN
    BY <2>1, ControlParts DEF Phases, Waits
  <2> QED BY <2>1, <2>2, <2>3, <2>4, SameBuffer, ControlParts DEF Control
<1>2. CASE Start
  <2>1. PICK detects \in BOOLEAN : vad' = detects /\ lease' = detects
    BY <1>2 DEF Start
  <2>2. /\ pc = "connected" /\ pc' = "ready" /\ UNCHANGED <<slot, revision>>
        /\ UNCHANGED <<epoch, frames, active, speechRun, silentRun, uttered>>
        /\ UNCHANGED <<cadence, texts, task>>
    BY <1>2 DEF Start, utteranceVars, endpointVars, partialVars
  <2>3. BufferInv'
    BY <2>1, <2>2, ControlParts DEF Control, BufferInv, BufferMatchesEndpoint
  <2>4. HoldInv' /\ pc' \in Phases
    BY <2>1, <2>2, ControlParts DEF Control, HoldInv, Phases, Waits
  <2>5. TextsInv'
    BY <2>2, SameTexts DEF Listening
  <2> QED BY <2>1, <2>2, <2>3, <2>4, <2>5, ControlParts DEF Control
<1>3. CASE Release
  <2>1. /\ pc = "gather" /\ pc' = "done" /\ slot' = FALSE
        /\ UNCHANGED <<lease, vad, utteranceVars, revision>>
    BY <1>3 DEF Release, partialVars
  <2>2. BufferInv' /\ TextsInv' /\ HoldInv'
    BY <2>1, SameBuffer, ControlParts DEF Control, TextsInv, HoldInv
  <2> QED BY <2>1, <2>2, SameBuffer, ControlParts DEF Control, Phases
<1> QED BY <1>1, <1>2, <1>3

LEMMA TeardownControl ==
  ASSUME SessionInv, Teardown, pc \notin {"new", "done"}
  PROVE  Control'
<1>1. /\ pc' = "gather" /\ lease' = FALSE
      /\ UNCHANGED <<slot, vad, utteranceVars, revision>>
  BY DEF Teardown
<1>2. BufferInv' /\ TextsInv' /\ HoldInv'
  BY <1>1, SameBuffer, ControlParts DEF Control, TextsInv, HoldInv
<1> QED BY <1>1, <1>2, SameBuffer, ControlParts DEF Control, Phases

\* The steps in which only what Serve waits for changes.
LEMMA PhaseControl ==
  ASSUME SessionInv, UNCHANGED <<vad, holdVars, utteranceVars, revision>>,
         pc \notin {"new", "gather", "done"},
         pc' \in {"failing", "answer", "empty", "receive", "closing"},
         \/ UNCHANGED <<cadence, texts, task>> /\ pc \in Listening
         \/ pc' \notin Listening
  PROVE  Control'
<1>1. BufferInv'
  BY SameBuffer
<1>2. HoldInv' /\ slot' \in BOOLEAN /\ lease' \in BOOLEAN
  BY ControlParts DEF holdVars, Control, HoldInv
<1>3. TextsInv'
  BY ControlParts DEF Control, TextsInv, Listening, utteranceVars
<1>4. pc' \in Phases
  BY DEF Phases, Waits
<1> QED BY <1>1, <1>2, <1>3, <1>4, SameBuffer, ControlParts DEF Control

LEMMA ServeSentControl ==
  ASSUME SessionInv, ServeSent
  PROVE  Control'
<1>1. UNCHANGED <<vad, holdVars, utteranceVars>>
  BY DEF ServeSent
<1>2. CASE pc \in {"ready", "empty"} /\ pc' = "receive" /\ UNCHANGED partialVars
  BY <1>1, <1>2, PhaseControl DEF partialVars, Listening
<1>3. CASE /\ pc = "started" /\ pc' = "receive"
           /\ MaybePartial(active, frames * FrameMs, LeaveLine)
  <2>1. tasks \in Seq(TaskRecords)
    BY DEF SessionInv, SessionTypeOK
  <2>2. UNCHANGED <<texts, revision>> /\ (UNCHANGED <<cadence, task>> \/ task' # None)
    BY <1>3, <2>1, MaybePartialKeeps
  <2>3. TextsInv'
    BY <1>1, <1>3, <2>2, ControlParts DEF Control, TextsInv, utteranceVars
  <2>4. BufferInv'
    BY <1>1, <1>3, SameBuffer
  <2>5. HoldInv' /\ slot' \in BOOLEAN /\ lease' \in BOOLEAN
    BY <1>1, <1>3, SameHold
  <2> QED BY <1>1, <1>3, <2>2, <2>3, <2>4, <2>5, SameBuffer, ControlParts
          DEF Control, Phases, Waits
<1>4. CASE /\ pc = "answer" /\ pc' = "receive" /\ cadence' = FreshCadence
           /\ texts' = ForgotTexts /\ UNCHANGED revision
  <2>1. TextsInv'
    BY <1>4 DEF TextsInv, ForgotTexts
  <2>2. BufferInv'
    BY <1>1, <1>4, SameBuffer
  <2>3. HoldInv' /\ slot' \in BOOLEAN /\ lease' \in BOOLEAN
    BY <1>1, <1>4, SameHold
  <2> QED BY <1>1, <1>4, <2>1, <2>2, <2>3, SameBuffer, ControlParts
          DEF Control, Phases, Waits
<1>5. CASE pc = "failing" /\ pc' = "closing" /\ UNCHANGED partialVars
  BY <1>1, <1>5, PhaseControl DEF partialVars, Listening
<1> QED BY <1>2, <1>3, <1>4, <1>5 DEF ServeSent

(* The steps of the partial task and of the lock.  A result taken over is   *)
(* of the open utterance, and its task is the session's.                    *)
LEMMA PartialControl ==
  ASSUME SessionInv, UNCHANGED <<pc, vad, holdVars, utteranceVars, task>>,
         \/ UNCHANGED <<cadence, texts, revision>>
         \/ /\ task # None /\ revision' \in Nat
            /\ texts' = texts \/ texts' = texts \cup {epoch}
  PROVE  Control'
<1>1. BufferInv'
  BY SameBuffer
<1>2. HoldInv' /\ slot' \in BOOLEAN /\ lease' \in BOOLEAN
  BY ControlParts DEF holdVars, Control, HoldInv
<1>3. TextsInv'
  BY ControlParts DEF Control, TextsInv, utteranceVars
<1> QED BY <1>1, <1>2, <1>3, SameBuffer, ControlParts DEF Control

LEMMA PartialResumesControl ==
  ASSUME SessionInv, NEW t \in Tasks, PartialResumes(t)
  PROVE  Control'
<1>1. task # None
  <2>1. tasks[t].at = "scheduler"
    BY DEF PartialResumes
  <2> QED BY <2>1, AtScheduler DEF None, Serve
<1>2. UNCHANGED <<pc, vad, holdVars, utteranceVars, task>>
  BY DEF PartialResumes
<1>3. \/ revision' = revision /\ texts' = texts
      \/ revision' = revision + 1 /\ texts' = texts \cup {epoch}
  BY DEF PartialResumes, Current, NextRevision
<1>4. revision' \in Nat
  BY <1>3, ControlParts
<1> QED BY <1>1, <1>2, <1>3, <1>4, PartialControl

-----------------------------------------------------------------------------
(* The invariant.                                                           *)

LEMMA FlowAndControl ==
  ASSUME Flow', Control'
  PROVE  SessionInv'
BY DEF Flow, Control, SessionInv, SessionTypeOK

LEMMA SessionInvInit ==
  ASSUME SessionInit
  PROVE  SessionInv
<1>1. /\ pc = "new" /\ slot = FALSE /\ lease = FALSE /\ vad = FALSE
      /\ epoch = 0 /\ frames = 0 /\ active = FALSE
      /\ speechRun = 0 /\ silentRun = 0 /\ uttered = 0
      /\ cadence = FreshCadence /\ texts = {} /\ revision = 0
      /\ task = 0 /\ tasks = <<>> /\ line = <<>> /\ sending = FALSE /\ wire = <<>>
  BY DEF SessionInit, EndpointInit, LockInit, None
<1>2. {StartFrames, EndFrames, MinFrames, MaxFrames} \subseteq Nat \ {0}
  BY EndpointAssumption
<1>3. SessionTypeOK
  <2>1. /\ slot \in BOOLEAN /\ lease \in BOOLEAN /\ vad \in BOOLEAN
        /\ active \in BOOLEAN /\ sending \in BOOLEAN
    BY <1>1
  <2>2. /\ tasks \in Seq(TaskRecords) /\ Len(tasks) = 0 /\ wire \in Seq(Messages)
        /\ line \in Seq(Nat)
    BY <1>1
  <2>3. task \in 0..Len(tasks) /\ pc \in Phases
    BY <1>1, <2>2 DEF Phases
  <2>4. /\ epoch \in Nat /\ frames \in Nat /\ revision \in Nat
        /\ speechRun \in Nat /\ silentRun \in Nat /\ uttered \in Nat
    BY <1>1
  <2> QED BY <2>1, <2>2, <2>3, <2>4 DEF SessionTypeOK
<1>4. BufferInv /\ HoldInv /\ TextsInv
  BY <1>1, <1>2 DEF BufferInv, BufferMatchesEndpoint, HoldInv, TextsInv
<1>5. Tasks = {} /\ ToSet(line) = {} /\ IsInjective(line)
  BY <1>1 DEF Tasks, ToSet, IsInjective
<1>6. LineInv /\ TasksInv
  BY <1>1, <1>5 DEF LineInv, TasksInv, AllDone, Speaking
<1>7. WireInv
  BY <1>1, <1>5 DEF WireInv, UtterancesInOrder
<1> QED BY <1>3, <1>4, <1>6, <1>7 DEF SessionInv

LEMMA SessionInvNext ==
  ASSUME SessionInv, Next
  PROVE  SessionInv'
<1>1. CASE Connect
  BY <1>1, ConnectFlows, SessionControl, FlowAndControl
<1>2. CASE Start
  BY <1>2, StartFlows, SessionControl, FlowAndControl
<1>3. CASE Reject
  <2>1. Control'
    BY <1>3, PhaseControl DEF Reject, Fail, partialVars, Listening
  <2> QED BY <1>3, <2>1, RejectFlows, FlowAndControl
<1>4. CASE Disconnect
  <2>1. Control'
    BY <1>4, TeardownControl DEF Disconnect
  <2> QED BY <1>4, <2>1, DisconnectFlows, FlowAndControl
<1>5. CASE Commit
  <2>1. Control'
    <3>1. CASE pc = "receive" /\ Finalize
      BY <3>1, FinalizeControl
    <3>2. CASE /\ pc = "receive" /\ pc' = "empty"
               /\ UNCHANGED <<vad, holdVars, utteranceVars, partialVars>>
      BY <3>2, PhaseControl DEF partialVars, Listening
    <3> QED BY <1>5, <3>1, <3>2 DEF Commit
  <2> QED BY <1>5, <2>1, CommitFlows, FlowAndControl
<1>6. CASE PlainFrame
  BY <1>6, PlainFrameFlows, PlainFrameControl, FlowAndControl
<1>7. ASSUME NEW isSpeech \in BOOLEAN, VoiceFrame(isSpeech) PROVE SessionInv'
  BY <1>7, VoiceFrameFlows, VoiceFrameControl, FlowAndControl
<1>8. CASE Deadline
  <2>1. Control'
    BY <1>8, PhaseControl DEF Deadline, Waits, partialVars, Listening
  <2> QED BY <1>8, <2>1, DeadlineFlows, FlowAndControl
<1>9. CASE Cancel
  <2>1. Control'
    BY <1>9, TeardownControl DEF Cancel, Waits
  <2> QED BY <1>9, <2>1, CancelFlows, FlowAndControl
<1>10. CASE FinalReturns
  <2>1. Control'
    BY <1>10, PhaseControl DEF FinalReturns, Fail, partialVars, Listening
  <2> QED BY <1>10, <2>1, FinalReturnsFlows, FlowAndControl
<1>11. CASE ServeSent
  BY <1>11, ServeSentFlows, ServeSentControl, FlowAndControl
<1>12. CASE Closed
  <2>1. Control'
    BY <1>12, TeardownControl DEF Closed
  <2> QED BY <1>12, <2>1, ClosedFlows, FlowAndControl
<1>13. CASE Release
  BY <1>13, ReleaseFlows, SessionControl, FlowAndControl
<1>14. CASE Obtain
  <2>1. Control'
    BY <1>14, PartialControl DEF Obtain
  <2> QED BY <1>14, <2>1, ObtainFlows, FlowAndControl
<1>15. CASE FinalSettles
  <2>1. Control'
    BY <1>15, PartialControl DEF FinalSettles, partialVars
  <2> QED BY <1>15, <2>1, FinalSettlesFlows, FlowAndControl
<1>16. ASSUME NEW t \in Tasks, JobSettles(t) PROVE SessionInv'
  <2>1. Control'
    BY <1>16, PartialControl DEF JobSettles
  <2> QED BY <1>16, <2>1, JobSettlesFlows, FlowAndControl
<1>17. ASSUME NEW t \in Tasks, PartialTask(t) PROVE SessionInv'
  <2>1. CASE PartialResumes(t)
    BY <2>1, PartialResumesFlows, PartialResumesControl, FlowAndControl
  <2>2. CASE TaskSent(t)
    <3>1. Control'
      BY <2>2, PartialControl DEF TaskSent
    <3> QED BY <2>2, <3>1, TaskSentFlows, FlowAndControl
  <2>3. CASE TaskEnds(t)
    <3>1. Control'
      BY <2>3, PartialControl DEF TaskEnds
    <3> QED BY <2>3, <3>1, TaskEndsFlows, FlowAndControl
  <2> QED BY <1>17, <2>1, <2>2, <2>3 DEF PartialTask
<1> QED BY <1>1, <1>2, <1>3, <1>4, <1>5, <1>6, <1>7, <1>8, <1>9, <1>10, <1>11, <1>12,
           <1>13, <1>14, <1>15, <1>16, <1>17 DEF Next, Outside

(* SessionInv holds in every reachable state of a connection, however many  *)
(* utterances it carries and however the client, the scheduler, the lock    *)
(* and the time limit interleave.                                           *)
THEOREM SessionInvariant == Spec => []SessionInv
<1>1. SessionInv /\ UNCHANGED vars => SessionInv'
  <2> SUFFICES ASSUME SessionInv, UNCHANGED vars PROVE SessionInv'
    OBVIOUS
  <2>1. /\ UNCHANGED <<pc, vad, slot, lease, epoch, frames, active, speechRun>>
        /\ UNCHANGED <<silentRun, uttered, cadence, texts, revision, task, tasks>>
        /\ UNCHANGED <<line, sending, wire>>
    BY DEF vars, holdVars, utteranceVars, endpointVars, partialVars, sendVars, lockVars
  <2> QED BY <2>1 DEF SessionInv, SessionTypeOK, BufferInv, BufferMatchesEndpoint, HoldInv,
             LineInv, TasksInv, AllDone, Silent, TextsInv, WireInv, UtterancesInOrder,
             Sends, Tasks
<1> QED BY <1>1, SessionInvInit, SessionInvNext, PTL DEF Spec

(* _handle_audio_frame and EndpointDetector.process count the same frames,  *)
(* and PCM16Buffer.append never meets its limit.                            *)
THEOREM BufferNeverOverflows == Spec => []BufferMatchesEndpoint
<1>1. SessionInv => BufferMatchesEndpoint
  BY DEF SessionInv, BufferInv
<1> QED BY <1>1, SessionInvariant, PTL

(* The finally block of _serve_websocket leaves no task, no VAD stream and  *)
(* nobody at the lock when the place in the registry is given back.         *)
THEOREM SessionLeavesNothing == Spec => []NothingOutlivesSession
<1>1. SessionInv => NothingOutlivesSession
  <2> SUFFICES ASSUME SessionInv PROVE NothingOutlivesSession
    OBVIOUS
  <2>1. /\ slot <=> pc \notin {"new", "done"}
        /\ lease => pc \notin {"new", "connected", "gather", "done"}
    BY DEF SessionInv, HoldInv
  <2>2. ASSUME pc = "done" PROVE AllDone /\ line = <<>>
    <3>1. AllDone
      BY <2>2 DEF SessionInv, TasksInv
    <3>2. ToSet(line) = {}
      BY <2>2, <3>1, InLine DEF Speaking
    <3>3. line # <<>> => Head(line) \in ToSet(line)
      BY LineIsTyped DEF LineTypeOK, ToSet
    <3> QED BY <3>1, <3>2, <3>3
  <2> QED BY <2>1, <2>2 DEF NothingOutlivesSession, AllDone
<1> QED BY <1>1, SessionInvariant, PTL

(* _finalize forgets a partial task only when it is over, and no late       *)
(* partial touches stable_prefix, last_partial or the cadence of the next   *)
(* utterance.                                                               *)
THEOREM UtterancesDoNotMix == Spec => []UtterancesAreSeparate
<1>1. SessionInv => UtterancesAreSeparate
  BY DEF SessionInv, TasksInv, TextsInv, UtterancesAreSeparate
<1> QED BY <1>1, SessionInvariant, PTL

(* What _emit_partial and _finalize send under the lock reaches the client  *)
(* in the order of the utterances, and within one in theirs.                *)
THEOREM ClientReadsInOrder == Spec => []UtterancesInOrder
<1>1. SessionInv => UtterancesInOrder
  BY DEF SessionInv, WireInv
<1> QED BY <1>1, SessionInvariant, PTL

\* What a step says: nothing, or a message, which is current if it is a partial.
Says ==
  \/ wire' = wire
  \/ \E m \in Messages : /\ wire' = wire \o <<m>>
                         /\ m.kind = "partial" => m.utt = epoch

LEMMA SaysMessage ==
  ASSUME SessionInv, NEW kind \in {"started", "partial", "final"}, NEW utt \in Int,
         NEW rev \in Nat, kind = "partial" => utt = epoch,
         wire' = wire \o Message(kind, utt, rev)
  PROVE  Says
<1> DEFINE m == [kind |-> kind, utt |-> utt, rev |-> rev]
<1>1. m \in Messages /\ m.kind = kind /\ m.utt = utt
  BY DEF Messages
<1>2. wire' = wire \o <<m>>
  BY DEF Message
<1> HIDE DEF m
<1> QED BY <1>1, <1>2 DEF Says

LEMMA SaysNothing ==
  ASSUME SessionInv, NEW rest, NEW who, Join(rest, who, NoMessage) \/ Rest(rest)
                                        \/ UNCHANGED sendVars
  PROVE  wire' = wire
BY NothingSaid DEF Join, Rest, sendVars

LEMMA SaysCurrent ==
  ASSUME SessionInv, Next
  PROVE  Says
<1>1. /\ epoch \in Int /\ epoch - 1 \in Int /\ 0 \in Nat
      /\ "started" \in {"started", "partial", "final"} /\ "started" # "partial"
      /\ "final" \in {"started", "partial", "final"} /\ "final" # "partial"
      /\ "partial" \in {"started", "partial", "final"}
  BY ControlParts
<1>2. ASSUME NEW speaking, NEW audio, NEW rest, MaybePartial(speaking, audio, rest)
      PROVE  wire' = wire
  BY <1>2, SaysNothing DEF MaybePartial, SubmitPartial
<1>3. ASSUME Fail PROVE wire' = wire
  BY <1>3, SaysNothing DEF Fail, Enter
<1>4. ASSUME Finalize PROVE wire' = wire
  BY <1>3, <1>4 DEF Finalize, sendVars
<1>5. CASE Connect \/ Start \/ Reject \/ Disconnect \/ Deadline \/ Cancel
  BY <1>3, <1>5, SaysNothing
     DEF Connect, Start, Enter, Reject, Disconnect, Deadline, Cancel, Says, sendVars
<1>6. CASE Commit \/ PlainFrame
  BY <1>2, <1>4, <1>6, SaysNothing DEF Commit, PlainFrame, Enter, Says
<1>7. ASSUME NEW isSpeech \in BOOLEAN, VoiceFrame(isSpeech) PROVE Says
  <2>1. CASE Enter(Serve, Message("started", epoch, 0))
    <3>1. wire' = wire \/ wire' = wire \o Message("started", epoch, 0)
      BY <2>1 DEF Enter, Join
    <3>2. wire' = wire \o Message("started", epoch, 0) => Says
      BY <1>1, SaysMessage
    <3> QED BY <3>1, <3>2 DEF Says
  <2> QED BY <1>2, <1>4, <1>7, <2>1 DEF VoiceFrame, Says
<1>8. CASE FinalReturns
  <2>1. CASE Enter(Serve, Message("final", epoch - 1, 0))
    <3>1. wire' = wire \/ wire' = wire \o Message("final", epoch - 1, 0)
      BY <2>1 DEF Enter, Join
    <3>2. wire' = wire \o Message("final", epoch - 1, 0) => Says
      BY <1>1, SaysMessage
    <3> QED BY <3>1, <3>2 DEF Says
  <2> QED BY <1>3, <1>8, <2>1 DEF FinalReturns, Says
<1>9. CASE ServeSent
  BY <1>2, <1>9, SaysNothing DEF ServeSent, Says
<1>10. CASE Closed \/ Release \/ FinalSettles
  BY <1>10 DEF Closed, Release, FinalSettles, sendVars, Says
<1>11. CASE Obtain
  <2> DEFINE who == Head(line)
  <2>1. CASE wire' = wire
    BY <2>1 DEF Says
  <2>2. CASE who # Serve /\ wire' # wire
    <3>1. /\ tasks[who].at = "event" /\ Current(who)
          /\ wire' = wire \o Message("partial", tasks[who].utt, tasks[who].rev)
      BY <1>11, <2>2, NothingSaid DEF Obtain
    <3>2. who \in Tasks
      <4>1. line # <<>>
        BY <1>11 DEF Obtain
      <4>2. who \in ToSet(line)
        BY <4>1, LineIsTyped DEF LineTypeOK, ToSet
      <4> QED BY <2>2, <4>2, InLine
    <3>3. tasks[who].utt \in Int /\ tasks[who].rev \in Nat
      BY <3>2, TaskFields DEF SessionInv, SessionTypeOK
    <3> QED BY <1>1, <3>1, <3>3, SaysMessage DEF Current
  <2>3. CASE who = Serve /\ wire' # wire
    <3>1. \/ wire' = wire \o Message("started", epoch, 0)
          \/ wire' = wire \o Message("final", epoch - 1, 0)
      <4>1. wire' = wire \o CASE pc = "started" -> Message("started", epoch, 0)
                              [] pc = "answer"  -> Message("final", epoch - 1, 0)
                              [] OTHER          -> NoMessage
        BY <1>11, <2>3 DEF Obtain
      <4> QED BY <2>3, <4>1, NothingSaid
    <3>2. wire' = wire \o Message("started", epoch, 0) => Says
      BY <1>1, SaysMessage
    <3>3. wire' = wire \o Message("final", epoch - 1, 0) => Says
      BY <1>1, SaysMessage
    <3> QED BY <3>1, <3>2, <3>3
  <2> QED BY <2>1, <2>2, <2>3
<1>12. ASSUME NEW t \in Tasks, JobSettles(t) PROVE Says
  BY <1>12 DEF JobSettles, sendVars, Says
<1>13. ASSUME NEW t \in Tasks, PartialTask(t) PROVE Says
  <2>1. CASE TaskSent(t) \/ TaskEnds(t)
    BY <2>1, SaysNothing DEF TaskSent, TaskEnds, Says
  <2>2. CASE PartialResumes(t)
    <3>1. CASE wire' = wire
      BY <3>1 DEF Says
    <3>2. CASE wire' # wire
      <4>1. /\ Current(t) /\ revision' = revision + 1
            /\ wire' = wire \o Message("partial", tasks[t].utt, revision')
        BY <2>2, <3>2, SaysNothing
           DEF PartialResumes, Enter, Join, NextRevision, sendVars
      <4>2. PICK rev \in Nat : rev = revision'
        BY <4>1, ControlParts
      <4>3. wire' = wire \o Message("partial", epoch, rev)
        BY <4>1, <4>2 DEF Current
      <4> QED BY <1>1, <4>2, <4>3, SaysMessage
    <3> QED BY <3>1, <3>2
  <2> QED BY <1>13, <2>1, <2>2 DEF PartialTask
<1> QED BY <1>5, <1>6, <1>7, <1>8, <1>9, <1>10, <1>11, <1>12, <1>13 DEF Next, Outside

(* _emit_partial looks at the epoch again once it has the lock: a partial   *)
(* of an utterance that has ended meanwhile is not sent.                    *)
THEOREM PartialsAreCurrent == Spec => PartialsOfOpenUtterance
<1> DEFINE Step == Len(wire') > Len(wire) /\ wire'[Len(wire')].kind = "partial" =>
                     wire'[Len(wire')].utt = epoch
<1>1. SessionInv /\ [Next]_vars => Step
  <2> SUFFICES ASSUME SessionInv, [Next]_vars PROVE Step
    OBVIOUS
  <2>1. wire \in Seq(Messages)
    BY DEF SessionInv, SessionTypeOK
  <2>2. CASE wire' = wire
    BY <2>1, <2>2
  <2>3. ASSUME NEW m \in Messages, wire' = wire \o <<m>>, m.kind = "partial" => m.utt = epoch
        PROVE  Step
    BY <2>1, <2>3
  <2>4. CASE UNCHANGED vars
    BY <2>2, <2>4 DEF vars, sendVars
  <2> QED BY <2>2, <2>3, <2>4, SaysCurrent DEF Says
<1> QED BY <1>1, SessionInvariant, PTL DEF Spec, PartialsOfOpenUtterance
=============================================================================
