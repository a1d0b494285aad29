------------------------ MODULE OpenAISessionProofs ------------------------
(***************************************************************************)
(* The safety properties of OpenAISession, for any sizes and any number of *)
(* turns.  SessionInv is proved in four layers, each on top of the ones    *)
(* before it: the line and the tasks; the stream and the buffer; what was  *)
(* told of the items; what the turns hold.                                 *)
(***************************************************************************)
EXTENDS OpenAISession, SendLockProofs, FiniteSetTheorems

-----------------------------------------------------------------------------
(* Turns as data, and who stands in the line.                               *)

LEMMA TurnFields ==
  ASSUME turns \in Seq(TurnRecords), NEW t \in Turns
  PROVE  /\ turns[t] \in TurnRecords
         /\ turns[t].item \in Nat /\ turns[t].after \in Nat
         /\ turns[t].from \in Nat /\ turns[t].to \in Nat
         /\ turns[t].at \in Places
<1>1. turns[t] \in TurnRecords
  BY DEF Turns
<1> QED BY <1>1 DEF TurnRecords

LEMMA TurnNumbers == Serve \notin Turns /\ Turns \subseteq Nat
BY DEF Serve, Turns

LEMMA MovedTurn ==
  ASSUME turns \in Seq(TurnRecords), NEW t \in Turns, NEW place \in Places
  PROVE  /\ At(t, place) \in Seq(TurnRecords)
         /\ Len(At(t, place)) = Len(turns)
         /\ \A u \in Turns : u # t => At(t, place)[u] = turns[u]
         /\ At(t, place)[t].at = place
         /\ \A u \in Turns : /\ At(t, place)[u].item = turns[u].item
                             /\ At(t, place)[u].after = turns[u].after
                             /\ At(t, place)[u].from = turns[u].from
                             /\ At(t, place)[u].to = turns[u].to
<1>1. turns[t] \in TurnRecords
  BY TurnFields
<1>2. [turns[t] EXCEPT !.at = place] \in TurnRecords
  BY <1>1 DEF TurnRecords
<1>3. At(t, place) = [u \in 1..Len(turns) |->
                       IF u = t THEN [turns[t] EXCEPT !.at = place] ELSE turns[u]]
  BY DEF At, Turns
<1>4. At(t, place) \in [1..Len(turns) -> TurnRecords] /\ Len(turns) \in Nat
  BY <1>2, <1>3, TurnFields DEF Turns
<1>5. At(t, place) \in Seq(TurnRecords) /\ Len(At(t, place)) = Len(turns)
  BY <1>4
<1>6. \A u \in Turns :
        At(t, place)[u] = IF u = t THEN [turns[t] EXCEPT !.at = place] ELSE turns[u]
  BY <1>3 DEF Turns
<1>7. At(t, place)[t] = [turns[t] EXCEPT !.at = place]
  BY <1>6
<1>8. /\ At(t, place)[t].at = place
      /\ At(t, place)[t].item = turns[t].item
      /\ At(t, place)[t].after = turns[t].after
      /\ At(t, place)[t].from = turns[t].from
      /\ At(t, place)[t].to = turns[t].to
  BY <1>1, <1>7 DEF TurnRecords
<1> QED BY <1>5, <1>6, <1>8

LEMMA LineIsTyped ==
  ASSUME LineInv
  PROVE  LineTypeOK
BY DEF LineInv, LineTypeOK

LEMMA InLine ==
  ASSUME LineInv
  PROVE  /\ \A x : Sends(x) => x \in ToSet(line)
         /\ Sends(Serve) => pc \in SendsAt
         /\ \A t \in Turns : Sends(t) => turns[t].at \in Speaks \cup {"cancelled"}
<1>1. \A x : Sends(x) => x \in ToSet(line)
  BY LineIsTyped, SenderInLine
<1> QED BY <1>1 DEF LineInv

\* Nothing moves in the line.
LEMMA StillLine ==
  ASSUME LineInv, UNCHANGED lockVars
  PROVE  Shortened(line, {}) /\ Shrink(line)
BY LineIsTyped, ShortenedNot DEF LineTypeOK, lockVars, Shrink

(* A step of Serve takes nobody but itself out of the line, and puts nobody *)
(* but itself there; turns that are in the line may be cancelled.           *)
LEMMA ServeMoves ==
  ASSUME LineInv, NEW rest, NEW gone, gone \subseteq {Serve}, Shortened(rest, gone),
         \/ /\ Queue(rest, Serve) /\ pc' \in SendsAt
            /\ Serve \notin ToSet(line) \ gone
         \/ /\ Shrink(rest)
            /\ pc' \in SendsAt <=> Serve \in ToSet(line) \ gone,
         Turns \subseteq Turns',
         \A t \in Turns : turns'[t].at # turns[t].at =>
           /\ turns'[t].at \notin Speaks
           /\ t \in ToSet(line) => turns'[t].at = "cancelled",
         \A t \in Turns' \ Turns : turns'[t].at \notin Speaks
  PROVE  /\ LineInv'
         /\ \A t \in Turns : Sends(t)' <=> Sends(t)
<1>1. LineTypeOK /\ Serve \in Nat
  BY LineIsTyped DEF Serve
<1>2. /\ LineTypeOK'
      /\ ToSet(line)' \ {Serve} = ToSet(line) \ {Serve}
      /\ Serve \in ToSet(line)' <=> pc' \in SendsAt
      /\ \A x : x # Serve => (Sends(x)' <=> Sends(x))
  <2>1. CASE Queue(rest, Serve) /\ pc' \in SendsAt /\ Serve \notin ToSet(line) \ gone
    <3>1. /\ LineTypeOK' /\ ToSet(line)' = (ToSet(line) \ gone) \cup {Serve}
          /\ \A x : Sends(x)' <=> (Sends(x) /\ x \notin gone) \/ (rest = <<>> /\ x = Serve)
      BY <1>1, <2>1, AfterQueue
    <3> QED BY <2>1, <3>1
  <2>2. CASE Shrink(rest) /\ (pc' \in SendsAt <=> Serve \in ToSet(line) \ gone)
    <3>1. /\ LineTypeOK' /\ ToSet(line)' = ToSet(line) \ gone
          /\ \A x : Sends(x)' <=> Sends(x) /\ x \notin gone
      BY <1>1, <2>2, AfterShrink
    <3> QED BY <2>2, <3>1
  <2> QED BY <2>1, <2>2
<1>3. Serve \notin Turns'
  BY DEF Serve, Turns
<1>4. ToSet(line)' \subseteq {Serve} \cup Turns'
  BY <1>2 DEF LineInv
<1>5. ASSUME NEW t \in Turns'
      PROVE  IF t \in ToSet(line)' THEN turns'[t].at \in Speaks \cup {"cancelled"}
                                   ELSE turns'[t].at \notin Speaks
  <2>1. t \in ToSet(line)' <=> t \in ToSet(line)
    BY <1>2, <1>3
  <2>2. CASE t \in Turns
    BY <2>1, <2>2 DEF LineInv
  <2>3. CASE t \notin Turns
    <3>1. t \notin ToSet(line)
      BY <1>3, <2>3 DEF LineInv
    <3> QED BY <2>1, <2>3, <3>1
  <2> QED BY <2>2, <2>3
<1>6. \A t \in Turns : Sends(t)' <=> Sends(t)
  BY <1>2, <1>3
<1> QED BY <1>2, <1>4, <1>5, <1>6 DEF LineInv, LineTypeOK

\* A step of a turn's task takes it out of the line, puts it there, or both.
LEMMA TurnMoves ==
  ASSUME LineInv, NEW t \in Turns, NEW rest, NEW gone, gone \subseteq {t},
         Shortened(rest, gone), t \notin ToSet(line) \ gone, pc' = pc,
         \/ Queue(rest, t) /\ turns'[t].at \in Speaks
         \/ Shrink(rest) /\ turns'[t].at \notin Speaks,
         Turns' = Turns, \A u \in Turns : u # t => turns'[u] = turns[u]
  PROVE  /\ LineInv'
         /\ Sends(Serve)' <=> Sends(Serve)
         /\ \A u \in Turns : u # t => (Sends(u)' <=> Sends(u))
         /\ Sends(t)' <=> Queue(rest, t) /\ rest = <<>> /\ turns'[t].at \in Speaks
<1>1. LineTypeOK /\ t \in Nat /\ t # Serve
  BY LineIsTyped, TurnNumbers
<1>2. /\ LineTypeOK'
      /\ ToSet(line)' \ {t} = ToSet(line) \ {t}
      /\ t \in ToSet(line)' <=> turns'[t].at \in Speaks
      /\ \A x : x # t => (Sends(x)' <=> Sends(x))
      /\ Sends(t)' <=> Queue(rest, t) /\ rest = <<>> /\ turns'[t].at \in Speaks
  <2>1. CASE Queue(rest, t) /\ turns'[t].at \in Speaks
    <3>1. /\ LineTypeOK' /\ ToSet(line)' = (ToSet(line) \ gone) \cup {t}
          /\ \A x : Sends(x)' <=> (Sends(x) /\ x \notin gone) \/ (rest = <<>> /\ x = t)
      BY <1>1, <2>1, AfterQueue
    <3>2. Sends(t) => t \in ToSet(line)
      BY InLine
    <3> QED BY <2>1, <3>1, <3>2
  <2>2. CASE Shrink(rest) /\ turns'[t].at \notin Speaks
    <3>1. /\ LineTypeOK' /\ ToSet(line)' = ToSet(line) \ gone
          /\ \A x : Sends(x)' <=> Sends(x) /\ x \notin gone
      BY <1>1, <2>2, AfterShrink
    <3>2. Sends(t) => t \in ToSet(line)
      BY InLine
    <3> QED BY <2>2, <3>1, <3>2
  <2> QED BY <2>1, <2>2
<1>3. Serve \in ToSet(line)' <=> pc' \in SendsAt
  BY <1>1, <1>2 DEF LineInv
<1>4. ToSet(line)' \subseteq {Serve} \cup Turns'
  BY <1>2 DEF LineInv
<1>5. \A u \in Turns' : IF u \in ToSet(line)' THEN turns'[u].at \in Speaks \cup {"cancelled"}
                                              ELSE turns'[u].at \notin Speaks
  BY <1>2 DEF LineInv
<1> QED BY <1>1, <1>2, <1>3, <1>4, <1>5 DEF LineInv, LineTypeOK

-----------------------------------------------------------------------------
(* The first layer: the line and the tasks.                                 *)

Flow == LineInv /\ TasksInv

LEMMA HeldIsFinite ==
  ASSUME TasksInv
  PROVE  /\ IsFiniteSet(Turns) /\ IsFiniteSet(held)
         /\ Cardinality(held) \in Nat
<1>1. IsFiniteSet(Turns)
  <2>1. Len(turns) \in Int /\ 1 \in Int
    BY DEF TasksInv
  <2> QED BY <2>1, FS_Interval DEF Turns
<1>2. IsFiniteSet(held)
  BY <1>1, FS_Subset DEF TasksInv
<1> QED BY <1>1, <1>2, FS_CardinalityType

\* The phases between which Serve moves without touching a turn.
Going == (Waits \ {"committed"}) \cup {"closing"}

LEMMA TasksSame ==
  ASSUME TasksInv, UNCHANGED turnVars, pc # "gather", pc' \in Going
  PROVE  TasksInv' /\ Turns' = Turns
<1>1. pc' \in Phases \ {"committed", "gather", "new", "done"}
  BY DEF Going, Waits, SendsAt, Phases
<1> QED BY <1>1 DEF TasksInv, turnVars, Turns

\* A step of Serve that leaves the turns alone.
LEMMA ServeGoesOn ==
  ASSUME Flow, UNCHANGED turnVars, pc # "gather", pc' \in Going,
         \/ Say(reply') /\ pc \notin SendsAt /\ pc' \in SendsAt
         \/ UNCHANGED sendVars /\ (pc' \in SendsAt <=> pc \in SendsAt)
         \/ Rest(LeaveLine) /\ Sends(Serve) /\ pc' \notin SendsAt
         \/ SayBehind(LeaveLine, reply') /\ Sends(Serve) /\ pc' \in SendsAt
         \/ SayBehind(Without(Serve), reply') /\ pc' \in SendsAt
  PROVE  Flow' /\ \A t \in Turns : Sends(t)' <=> Sends(t)
<1>1. TasksInv' /\ Turns' = Turns /\ turns' = turns
  BY TasksSame DEF Flow, turnVars
<1>2. LineInv /\ LineTypeOK /\ (Serve \in ToSet(line) <=> pc \in SendsAt)
  BY LineIsTyped DEF Flow, LineInv
<1>3. CASE Say(reply') /\ pc \notin SendsAt /\ pc' \in SendsAt
  <2>1. Queue(line, Serve) /\ Shortened(line, {})
    BY <1>2, <1>3, ShortenedNot DEF Say, SayBehind, Join
  <2> QED BY <1>1, <1>2, <1>3, <2>1, ServeMoves DEF Flow
<1>4. CASE UNCHANGED sendVars /\ (pc' \in SendsAt <=> pc \in SendsAt)
  <2>1. Shrink(line) /\ Shortened(line, {})
    BY <1>2, <1>4, StillLine DEF sendVars
  <2> QED BY <1>1, <1>2, <1>4, <2>1, ServeMoves DEF Flow
<1>5. CASE Rest(LeaveLine) /\ Sends(Serve) /\ pc' \notin SendsAt
  <2>1. Shrink(LeaveLine) /\ Shortened(LeaveLine, {Serve})
    BY <1>2, <1>5, SenderInLine, ShortenedTail DEF Rest
  <2> QED BY <1>1, <1>2, <1>5, <2>1, ServeMoves DEF Flow
<1>6. CASE SayBehind(LeaveLine, reply') /\ Sends(Serve) /\ pc' \in SendsAt
  <2>1. Queue(LeaveLine, Serve) /\ Shortened(LeaveLine, {Serve})
    BY <1>2, <1>6, SenderInLine, ShortenedTail DEF SayBehind, Join
  <2> QED BY <1>1, <1>2, <1>6, <2>1, ServeMoves DEF Flow
<1>7. CASE SayBehind(Without(Serve), reply') /\ pc' \in SendsAt
  <2>1. Queue(Without(Serve), Serve) /\ Shortened(Without(Serve), {Serve})
    BY <1>2, <1>7, ShortenedWithout DEF SayBehind, Join
  <2> QED BY <1>1, <1>2, <1>7, <2>1, ServeMoves DEF Flow
<1> QED BY <1>3, <1>4, <1>5, <1>6, <1>7

LEMMA ConnectFlows ==
  ASSUME Flow, Connect
  PROVE  Flow' /\ \A t \in Turns : Sends(t)' <=> Sends(t)
<1>1. CASE pc' = "created" /\ Say(OtherEvent)
  <2>1. Say(reply') /\ pc \notin SendsAt /\ pc' \in SendsAt /\ pc' \in Going /\ pc # "gather"
    BY <1>1 DEF Connect, Say, SayBehind, SendsAt, Waits, Going
  <2> QED BY <1>1, <2>1, ServeGoesOn DEF Connect
<1>2. CASE pc' = "done" /\ UNCHANGED sendVars
  <2>1. /\ UNCHANGED lockVars /\ pc \notin SendsAt /\ pc' \notin SendsAt /\ pc = "new"
        /\ turns' = turns /\ held' = held /\ Turns' = Turns
    BY <1>2 DEF Connect, sendVars, SendsAt, turnVars, Turns
  <2>2. TasksInv'
    BY <1>2, <2>1 DEF Flow, TasksInv, Phases
  <2>3. Shrink(line) /\ Shortened(line, {}) /\ (Serve \in ToSet(line) <=> pc \in SendsAt)
    BY <2>1, StillLine DEF Flow, LineInv
  <2> QED BY <2>1, <2>2, <2>3, ServeMoves DEF Flow
<1> QED BY <1>1, <1>2 DEF Connect

\* Answers, configuration and errors: Serve says something.
LEMMA SpeaksFlow ==
  ASSUME Flow, UNCHANGED turnVars, pc \in {"receive", "score"}, pc' \in SendsAt \ {"committed"},
         NEW event, Say(event)
  PROVE  Flow' /\ \A t \in Turns : Sends(t)' <=> Sends(t)
<1>1. Say(reply') /\ pc \notin SendsAt /\ pc' \in Going /\ pc # "gather"
  BY DEF Say, SayBehind, SendsAt, Waits, Going
<1> QED BY <1>1, ServeGoesOn

LEMMA SilentFlow ==
  ASSUME Flow, UNCHANGED turnVars, UNCHANGED sendVars,
         pc \in {"receive", "score"}, pc' \in {"receive", "score"}
  PROVE  Flow' /\ \A t \in Turns : Sends(t)' <=> Sends(t)
<1>1. /\ pc \notin SendsAt /\ pc' \notin SendsAt /\ pc' \in Going /\ pc # "gather"
  BY DEF SendsAt, Waits, Going
<1> QED BY <1>1, ServeGoesOn

LEMMA DeadlineFlows ==
  ASSUME Flow, Deadline
  PROVE  Flow' /\ \A t \in Turns : Sends(t)' <=> Sends(t)
<1>1. /\ SayBehind(Without(Serve), reply') /\ pc' \in SendsAt /\ pc' \in Going /\ pc # "gather"
      /\ UNCHANGED turnVars
  BY DEF Deadline, SayBehind, SendsAt, Waits, Going
<1> QED BY <1>1, ServeGoesOn

(* gather: every task in `tasks` that is not over is cancelled.             *)
LEMMA CancelledTurns ==
  ASSUME TasksInv, Teardown
  PROVE  /\ turns' \in Seq(TurnRecords) /\ Len(turns') = Len(turns) /\ Turns' = Turns
         /\ \A t \in Turns :
              /\ turns'[t].at = IF t \in held /\ turns[t].at # "done"
                                THEN "cancelled" ELSE turns[t].at
              /\ turns'[t].item = turns[t].item /\ turns'[t].after = turns[t].after
              /\ turns'[t].from = turns[t].from /\ turns'[t].to = turns[t].to
<1>1. turns \in Seq(TurnRecords)
  BY DEF TasksInv
<1>2. ASSUME NEW t \in Turns
      PROVE  /\ [turns[t] EXCEPT !.at = "cancelled"] \in TurnRecords
             /\ [turns[t] EXCEPT !.at = "cancelled"].at = "cancelled"
             /\ [turns[t] EXCEPT !.at = "cancelled"].item = turns[t].item
             /\ [turns[t] EXCEPT !.at = "cancelled"].after = turns[t].after
             /\ [turns[t] EXCEPT !.at = "cancelled"].from = turns[t].from
             /\ [turns[t] EXCEPT !.at = "cancelled"].to = turns[t].to
  <2>1. turns[t] \in TurnRecords /\ "cancelled" \in Places
    BY <1>1, TurnFields DEF Places
  <2> QED BY <2>1 DEF TurnRecords
<1>3. turns' = [t \in 1..Len(turns) |-> IF t \in held /\ turns[t].at # "done"
                                        THEN [turns[t] EXCEPT !.at = "cancelled"] ELSE turns[t]]
  BY DEF Teardown, Cancels, Turns
<1>4. turns' \in [1..Len(turns) -> TurnRecords] /\ Len(turns) \in Nat
  BY <1>1, <1>2, <1>3, TurnFields DEF Turns
<1>5. turns' \in Seq(TurnRecords) /\ Len(turns') = Len(turns)
  BY <1>4
<1>6. \A t \in Turns : turns'[t] = IF t \in held /\ turns[t].at # "done"
                                   THEN [turns[t] EXCEPT !.at = "cancelled"] ELSE turns[t]
  BY <1>3 DEF Turns
<1> QED BY <1>2, <1>5, <1>6 DEF Turns

LEMMA TeardownFlow ==
  ASSUME Flow, Teardown, pc \in Waits \cup {"closing"},
         \/ UNCHANGED sendVars /\ pc \notin SendsAt
         \/ Rest(LeaveLine) /\ Sends(Serve)
         \/ Rest(Without(Serve))
  PROVE  Flow' /\ \A t \in Turns : Sends(t)' <=> Sends(t)
<1>1. /\ Turns' = Turns /\ held' = held /\ pc' = "gather"
      /\ \A t \in Turns : turns'[t].at = IF t \in held /\ turns[t].at # "done"
                                         THEN "cancelled" ELSE turns[t].at
      /\ turns' \in Seq(TurnRecords)
  BY CancelledTurns DEF Flow, Teardown
<1>2. LineInv /\ LineTypeOK /\ pc' \notin SendsAt /\ (Serve \in ToSet(line) <=> pc \in SendsAt)
  BY <1>1, LineIsTyped DEF Flow, LineInv, SendsAt
<1>3. pc \notin {"gather", "new", "done"}
  BY DEF Waits, SendsAt
<1>4. TasksInv'
  BY <1>1, <1>3 DEF Flow, TasksInv, Phases
<1>5. \A t \in Turns : turns'[t].at # turns[t].at =>
        turns'[t].at \notin Speaks /\ turns'[t].at = "cancelled"
  BY <1>1 DEF Speaks
<1>6. PICK rest, gone : /\ Shrink(rest) /\ Shortened(rest, gone) /\ gone \subseteq {Serve}
                        /\ Serve \notin ToSet(line) \ gone
  <2>1. CASE UNCHANGED sendVars /\ pc \notin SendsAt
    BY <1>2, <2>1, StillLine DEF sendVars
  <2>2. CASE Rest(LeaveLine) /\ Sends(Serve)
    BY <1>2, <2>2, SenderInLine, ShortenedTail DEF Rest
  <2>3. CASE Rest(Without(Serve))
    BY <1>2, <2>3, ShortenedWithout DEF Rest
  <2> QED BY <2>1, <2>2, <2>3
<1>7. LineInv' /\ \A t \in Turns : Sends(t)' <=> Sends(t)
  BY <1>1, <1>2, <1>5, <1>6, ServeMoves
<1> QED BY <1>4, <1>7 DEF Flow

LEMMA ReleaseFlows ==
  ASSUME Flow, Release
  PROVE  Flow' /\ \A t \in Turns : Sends(t)' <=> Sends(t)
<1>1. /\ UNCHANGED lockVars /\ pc \notin SendsAt /\ pc' \notin SendsAt
      /\ pc = "gather" /\ pc' = "done" /\ turns' = turns /\ held' = held /\ Turns' = Turns
      /\ \A t \in held : turns[t].at = "done"
  BY DEF Release, sendVars, SendsAt, turnVars, Turns, Cancels
<1>2. TasksInv'
  BY <1>1 DEF Flow, TasksInv, Phases
<1>3. Shrink(line) /\ Shortened(line, {}) /\ (Serve \in ToSet(line) <=> pc \in SendsAt)
  BY <1>1, StillLine DEF Flow, LineInv
<1> QED BY <1>1, <1>2, <1>3, ServeMoves DEF Flow

\* Where Serve may queue up: at the end of the line, or behind those it leaves.
MayQueue(rest) ==
  \/ rest = line /\ pc \notin SendsAt
  \/ rest = LeaveLine /\ Sends(Serve)

LEMMA QueuesUp ==
  ASSUME LineInv, NEW rest, MayQueue(rest)
  PROVE  \E gone : /\ gone \subseteq {Serve} /\ Shortened(rest, gone)
                   /\ Serve \notin ToSet(line) \ gone
<1>1. LineTypeOK /\ (Serve \in ToSet(line) <=> pc \in SendsAt)
  BY LineIsTyped DEF LineInv
<1>2. CASE rest = line /\ pc \notin SendsAt
  BY <1>1, <1>2, ShortenedNot
<1>3. CASE rest = LeaveLine /\ Sends(Serve)
  BY <1>1, <1>3, SenderInLine, ShortenedTail
<1> QED BY <1>2, <1>3 DEF MayQueue

\* What _commit takes out of the buffer, and the item it becomes.
Size(b, byDetection) == IF byDetection THEN b.scan ELSE b.len
TakenItem            == IF buf.pending # None THEN buf.pending ELSE NewItem
NewTurn(size)        == [item |-> TakenItem, after |-> cut, from |-> buf.start,
                         to |-> buf.start + size, at |-> "snapshot"]

LEMMA BufferFields ==
  ASSUME NEW b, Fits(b)
  PROVE  /\ b \in Buffers
         /\ b.start \in Nat /\ b.len \in Nat /\ b.total \in Nat /\ b.scan \in Nat
         /\ b.speech \in Nat /\ b.silence \in Nat /\ b.active \in BOOLEAN /\ b.pending \in Nat
         /\ b.start + b.len = b.total /\ b.scan <= b.len /\ b.scan % 2 = 0
<1>1. b \in Buffers
  BY DEF Fits
<1>2. b.start + b.len = b.total /\ b.scan <= b.len /\ b.scan % 2 = 0
  BY DEF Fits
<1> QED BY <1>1, <1>2 DEF Buffers

LEMMA NewTurnFields ==
  ASSUME SessionInv, NEW size \in Nat
  PROVE  /\ NewTurn(size) \in TurnRecords
         /\ NewTurn(size).item = TakenItem /\ NewTurn(size).after = cut
         /\ NewTurn(size).from = buf.start /\ NewTurn(size).to = buf.start + size
         /\ NewTurn(size).at = "snapshot"
         /\ TakenItem \in Nat /\ TakenItem # None
         /\ NewItem \in Nat /\ Len(told) \in Nat
<1>1. Fits(buf) /\ cut \in Nat /\ Len(told) \in Nat
  BY DEF SessionInv, BufferInv, ItemsInv
<1>2. TakenItem \in Nat /\ TakenItem # None /\ NewItem \in Nat
  BY <1>1, BufferFields DEF TakenItem, NewItem, None
<1>3. buf.start \in Nat /\ buf.start + size \in Nat
  BY <1>1, BufferFields
<1>4. "snapshot" \in Places
  BY DEF Places
<1> QED BY <1>1, <1>2, <1>3, <1>4 DEF NewTurn, TurnRecords

LEMMA AnotherTurn ==
  ASSUME turns \in Seq(TurnRecords), NEW r \in TurnRecords
  PROVE  /\ Append(turns, r) \in Seq(TurnRecords)
         /\ Len(Append(turns, r)) = Len(turns) + 1
         /\ 1..Len(Append(turns, r)) = Turns \cup {Len(turns) + 1}
         /\ Len(turns) + 1 \notin Turns /\ Len(turns) \in Nat
         /\ \A u \in Turns : Append(turns, r)[u] = turns[u]
         /\ Append(turns, r)[Len(turns) + 1] = r
BY DEF Turns

\* The turn is taken, or dropped with the session, or the client is told that
\* it cannot be taken.
LEMMA SnapshotCases ==
  ASSUME SessionInv, auto' \in BOOLEAN, NEW rest, Snapshot(rest)
  PROVE  \/ /\ Whole(buf, Size(buf, auto')) /\ Size(buf, auto') \in Nat
            /\ turns' = Append(turns, NewTurn(Size(buf, auto')))
            /\ turns' \in Seq(TurnRecords) /\ Turns' = Turns \cup {Len(turns')}
            /\ Len(turns') = Len(turns) + 1 /\ Len(turns') \notin Turns
            /\ \A u \in Turns : turns'[u] = turns[u]
            /\ turns'[Len(turns')] = NewTurn(Size(buf, auto'))
            /\ buf' = Remainder(buf, Size(buf, auto'))
            /\ cut' = buf.start + Size(buf, auto') /\ heard' = AfterReset
            /\ pc' = "committed"
            /\ SayBehind(rest, Event("committed", TakenItem, 0))
         \/ /\ Whole(buf, Size(buf, auto')) /\ Size(buf, auto') \in Nat
            /\ buf' = Remainder(buf, Size(buf, auto'))
            /\ cut' = buf.start + Size(buf, auto')
            /\ pc' = "failing"
            /\ SayBehind(rest, OtherEvent)
            /\ UNCHANGED <<turns, heard>>
         \/ /\ ~Whole(buf, Size(buf, auto'))
            /\ pc' = "reply"
            /\ SayBehind(rest, OtherEvent)
            /\ UNCHANGED <<turns, buf, heard, cut>>
<1>1. Fits(buf) /\ turns \in Seq(TurnRecords)
  BY DEF SessionInv, BufferInv, TasksInv
<1>2. Size(buf, auto') \in Nat
  BY <1>1, BufferFields DEF Size
<1>3. CASE ~Whole(buf, Size(buf, auto'))
  BY <1>3 DEF Snapshot, Size
<1>4. CASE Whole(buf, Size(buf, auto')) /\ pc' = "failing"
  BY <1>2, <1>4 DEF Snapshot, Size
<1>5. CASE Whole(buf, Size(buf, auto')) /\ pc' # "failing"
  <2>1. NewTurn(Size(buf, auto')) \in TurnRecords
    BY <1>2, NewTurnFields
  <2>2. /\ turns' = Append(turns, NewTurn(Size(buf, auto')))
        /\ buf' = Remainder(buf, Size(buf, auto'))
        /\ cut' = buf.start + Size(buf, auto') /\ heard' = AfterReset
        /\ pc' = "committed"
        /\ SayBehind(rest, Event("committed", TakenItem, 0))
    BY <1>5 DEF Snapshot, Size, NewTurn, TakenItem
  <2>3. /\ turns' \in Seq(TurnRecords) /\ Turns' = Turns \cup {Len(turns')}
        /\ Len(turns') = Len(turns) + 1 /\ Len(turns') \notin Turns
        /\ \A u \in Turns : turns'[u] = turns[u]
        /\ turns'[Len(turns')] = NewTurn(Size(buf, auto'))
    BY <1>1, <2>1, <2>2, AnotherTurn DEF Turns
  <2> QED BY <1>2, <1>5, <2>2, <2>3
<1> QED BY <1>3, <1>4, <1>5

LEMMA SnapshotFlows ==
  ASSUME SessionInv, auto' \in BOOLEAN, NEW rest, MayQueue(rest), Snapshot(rest),
         pc \in {"receive", "stopped", "slot"},
         held' \subseteq held, \A t \in held \ held' : turns[t].at = "done",
         Cardinality(held') < MaxPending
  PROVE  Flow' /\ \A t \in Turns : Sends(t)' <=> Sends(t)
<1>1. LineInv /\ TasksInv
  BY DEF SessionInv
<1>2. /\ pc' \in SendsAt /\ pc' \in {"committed", "reply", "failing"}
      /\ Queue(rest, Serve)
  BY SnapshotCases DEF SayBehind, Join, SendsAt
<1>3. PICK gone : /\ gone \subseteq {Serve} /\ Shortened(rest, gone)
                  /\ Serve \notin ToSet(line) \ gone
  BY <1>1, QueuesUp
<1>4. /\ Turns \subseteq Turns' /\ turns' \in Seq(TurnRecords)
      /\ \A t \in Turns : turns'[t] = turns[t]
      /\ \A t \in Turns' \ Turns : turns'[t].at = "snapshot"
      /\ pc' = "committed" => Len(turns') \in Turns' /\ turns'[Len(turns')].at = "snapshot"
  <2>1. CASE pc' = "committed"
    <3>1. Size(buf, auto') \in Nat
      BY <2>1, SnapshotCases
    <3>2. NewTurn(Size(buf, auto')).at = "snapshot"
      BY <3>1, NewTurnFields
    <3> QED BY <2>1, <3>2, SnapshotCases
  <2>2. CASE pc' \in {"reply", "failing"}
    BY <1>1, <2>2, SnapshotCases DEF TasksInv, Turns
  <2> QED BY <1>2, <2>1, <2>2
<1>5. LineInv' /\ \A t \in Turns : Sends(t)' <=> Sends(t)
  BY <1>1, <1>2, <1>3, <1>4, ServeMoves DEF Speaks
<1>6. TasksInv'
  <2>1. Cardinality(held') <= MaxPending
    <3>1. IsFiniteSet(held')
      BY <1>1, HeldIsFinite, FS_Subset
    <3>2. Cardinality(held') \in Nat /\ MaxPending \in Nat
      BY <3>1, FS_CardinalityType, SessionAssumption DEF SessionAssumption
    <3> QED BY <3>2
  <2>2. held' \subseteq Turns' /\ pc' \in Phases /\ pc' \notin {"gather", "new", "done"}
    BY <1>1, <1>2, <1>4 DEF TasksInv, Phases, Waits, SendsAt
  <2>3. ASSUME NEW t \in Turns'
        PROVE  /\ IF t \in held' THEN turns'[t].at # "snapshot"
                                 ELSE turns'[t].at \in {"snapshot", "done"}
               /\ turns'[t].at # "cancelled"
    <3>1. CASE t \in Turns
      BY <1>1, <1>4, <3>1 DEF TasksInv
    <3>2. CASE t \notin Turns
      BY <1>1, <1>4, <3>2 DEF TasksInv
    <3> QED BY <3>1, <3>2
  <2> QED BY <1>4, <2>1, <2>2, <2>3 DEF TasksInv
<1> QED BY <1>5, <1>6 DEF Flow

LEMMA CommitFlows ==
  ASSUME SessionInv, auto' \in BOOLEAN, NEW rest, MayQueue(rest), Commit(rest),
         pc \in {"receive", "stopped"}
  PROVE  Flow' /\ \A t \in Turns : Sends(t)' <=> Sends(t)
<1>1. CASE HasPlace /\ Snapshot(rest)
  <2>1. held' = held /\ Cardinality(held') < MaxPending
    BY <1>1 DEF Commit, HasPlace
  <2> QED BY <1>1, <2>1, SnapshotFlows
<1>2. CASE ~HasPlace /\ pc' = "slot" /\ Rest(rest) /\ UNCHANGED turns
  <2>1. UNCHANGED turnVars /\ pc' \in Going /\ pc # "gather" /\ pc' \notin SendsAt
    BY <1>2 DEF Commit, turnVars, Going, Waits, SendsAt
  <2>2. TasksInv' /\ Turns' = Turns /\ turns' = turns
    BY <1>2, <2>1, TasksSame DEF SessionInv
  <2>3. PICK gone : /\ gone \subseteq {Serve} /\ Shortened(rest, gone)
                    /\ Serve \notin ToSet(line) \ gone
    BY QueuesUp DEF SessionInv
  <2>4. Shrink(rest)
    BY <1>2 DEF Rest
  <2> QED BY <2>1, <2>2, <2>3, <2>4, ServeMoves DEF Flow, SessionInv
<1> QED BY <1>1, <1>2 DEF Commit

LEMMA StoppedSentFlows ==
  ASSUME SessionInv, StoppedSent
  PROVE  Flow' /\ \A t \in Turns : Sends(t)' <=> Sends(t)
<1>1. /\ pc = "stopped" /\ MayQueue(LeaveLine) /\ Commit(LeaveLine) /\ auto' = auto
  BY DEF StoppedSent, MayQueue
<1> QED BY <1>1, CommitFlows DEF SessionInv, BufferInv

LEMMA SlotFreesFlows ==
  ASSUME SessionInv, SlotFrees
  PROVE  Flow' /\ \A t \in Turns : Sends(t)' <=> Sends(t)
<1> DEFINE over == {t \in held : turns[t].at = "done"}
<1>1. /\ pc = "slot" /\ over # {} /\ held' = held \ over /\ Snapshot(line) /\ auto' = auto
  BY DEF SlotFrees
<1>2. Cardinality(held') < MaxPending
  <2>1. /\ IsFiniteSet(held) /\ Cardinality(held) \in Nat /\ Cardinality(held) <= MaxPending
    BY HeldIsFinite DEF SessionInv, TasksInv
  <2>2. PICK t : t \in over
    BY <1>1
  <2>3. held' \subseteq held /\ held' # held
    BY <1>1, <2>2
  <2>4. Cardinality(held') < Cardinality(held) /\ Cardinality(held') \in Nat
    BY <2>1, <2>3, FS_Subset, FS_CardinalityType
  <2> QED BY <2>1, <2>4, SessionAssumption DEF SessionAssumption
<1>3. MayQueue(line)
  BY <1>1 DEF MayQueue, SendsAt
<1>4. auto' \in BOOLEAN
  BY <1>1 DEF SessionInv, BufferInv
<1>5. held' \subseteq held /\ \A t \in held \ held' : turns[t].at = "done"
  BY <1>1
<1> QED BY <1>1, <1>2, <1>3, <1>4, <1>5, SnapshotFlows

LEMMA ManualCommitFlows ==
  ASSUME SessionInv, ManualCommit
  PROVE  Flow' /\ \A t \in Turns : Sends(t)' <=> Sends(t)
<1>1. pc = "receive"
  BY DEF ManualCommit
<1>2. CASE Stop(buf, buf.total, FALSE)
  <2>1. /\ Say(Event("stopped", buf.pending, buf.total)) /\ UNCHANGED turnVars
        /\ pc' \in SendsAt \ {"committed"}
    BY <1>2 DEF Stop, SendsAt
  <2> QED BY <1>1, <2>1, SpeaksFlow DEF SessionInv, Flow
<1>3. CASE auto' = FALSE /\ Commit(line)
  <2>1. MayQueue(line)
    BY <1>1 DEF MayQueue, SendsAt
  <2> QED BY <1>1, <1>3, <2>1, CommitFlows
<1> QED BY <1>2, <1>3 DEF ManualCommit

\* Detect goes on to score a frame, or to receive.
LEMMA DetectPhases ==
  ASSUME NEW b, Detect(b)
  PROVE  pc' \in {"score", "receive"}
BY DEF Detect

LEMMA FrameScoredFlows ==
  ASSUME SessionInv, NEW isSpeech \in BOOLEAN, FrameScored(isSpeech)
  PROVE  Flow' /\ \A t \in Turns : Sends(t)' <=> Sends(t)
<1> DEFINE b == Judged(isSpeech)
<1> HIDE DEF b
<1>1. pc = "score" /\ Flow
  BY DEF FrameScored, SessionInv, Flow
<1>2. CASE GoesOn(Trimmed(b)) \/ GoesOn(b)
  <2>1. UNCHANGED turnVars /\ UNCHANGED sendVars /\ pc' \in {"receive", "score"}
    BY <1>2, DetectPhases DEF GoesOn
  <2> QED BY <1>1, <2>1, SilentFlow
<1>3. CASE SpeechStarts(b)
  <2>1. /\ Say(Event("started", NewItem, AnnouncedStart(b))) /\ UNCHANGED turnVars
        /\ pc' \in SendsAt \ {"committed"}
    BY <1>3 DEF SpeechStarts, SendsAt
  <2> QED BY <1>1, <2>1, SpeaksFlow
<1>4. CASE Stop(b, FrameEnd(b), TRUE)
  <2>1. /\ Say(Event("stopped", b.pending, FrameEnd(b))) /\ UNCHANGED turnVars
        /\ pc' \in SendsAt \ {"committed"}
    BY <1>4 DEF Stop, SendsAt
  <2> QED BY <1>1, <2>1, SpeaksFlow
<1> QED BY <1>2, <1>3, <1>4 DEF FrameScored, b

LEMMA ServeSentFlows ==
  ASSUME SessionInv, ServeSent
  PROVE  Flow' /\ \A t \in Turns : Sends(t)' <=> Sends(t)
<1>1. /\ Flow /\ LineInv /\ LineTypeOK /\ TasksInv /\ Rest(LeaveLine) /\ Sends(Serve)
  BY LineIsTyped DEF ServeSent, SessionInv, Flow
<1>2. pc' \in {"receive", "score", "closing"} /\ pc \in SendsAt /\ pc \notin {"stopped"}
  BY DetectPhases DEF ServeSent, SendsAt
<1>3. CASE pc # "committed"
  <2>1. UNCHANGED turnVars /\ pc' \in Going /\ pc' \notin SendsAt /\ pc # "gather"
    BY <1>2, <1>3 DEF ServeSent, Going, Waits, SendsAt
  <2> QED BY <1>1, <2>1, ServeGoesOn
<1>4. CASE pc = "committed"
  <2>1. /\ turns' = At(Len(turns), "work") /\ held' = held \cup {Len(turns)}
    BY <1>4 DEF ServeSent
  <2>2. /\ Len(turns) \in Turns /\ turns[Len(turns)].at = "snapshot" /\ Len(turns) \notin held
        /\ Cardinality(held) < MaxPending /\ turns \in Seq(TurnRecords)
    BY <1>1, <1>4 DEF TasksInv
  <2>3. /\ turns' \in Seq(TurnRecords) /\ Turns' = Turns
        /\ \A u \in Turns : u # Len(turns) => turns'[u] = turns[u]
        /\ turns'[Len(turns)].at = "work"
    <3>1. "work" \in Places
      BY DEF Places
    <3> QED BY <2>1, <2>2, <3>1, MovedTurn DEF Turns
  <2>4. Len(turns) \notin ToSet(line)
    BY <1>1, <2>2 DEF LineInv, Speaks
  <2>5. /\ Shrink(LeaveLine) /\ Shortened(LeaveLine, {Serve}) /\ pc' \notin SendsAt
    BY <1>1, <1>2, SenderInLine, ShortenedTail DEF Rest, SendsAt
  <2>6. \A t \in Turns : turns'[t].at # turns[t].at =>
          /\ turns'[t].at \notin Speaks
          /\ t \in ToSet(line) => turns'[t].at = "cancelled"
    BY <2>3, <2>4 DEF Speaks
  <2>7. LineInv' /\ \A t \in Turns : Sends(t)' <=> Sends(t)
    BY <1>1, <2>3, <2>5, <2>6, ServeMoves
  <2>8. Cardinality(held') <= MaxPending
    <3>1. IsFiniteSet(held) /\ Cardinality(held) \in Nat
      BY <1>1, HeldIsFinite
    <3>2. Cardinality(held') = Cardinality(held) + 1
      BY <2>1, <2>2, <3>1, FS_AddElement
    <3> QED BY <2>2, <3>1, <3>2, SessionAssumption DEF SessionAssumption
  <2>9. TasksInv'
    BY <1>1, <1>2, <1>4, <2>1, <2>2, <2>3, <2>8 DEF TasksInv, Phases, Waits, SendsAt
  <2> QED BY <2>7, <2>9 DEF Flow
<1> QED BY <1>3, <1>4

\* The head of the line gets the lock; nobody else does.
LEMMA ObtainFlows ==
  ASSUME Flow, Obtain
  PROVE  /\ Flow' /\ ~sending /\ line # <<>> /\ Head(line) \in {Serve} \cup Turns
         /\ \A x : Sends(x)' <=> x = Head(line)
         /\ \A x : ~Sends(x)
<1>1. /\ line # <<>> /\ ~sending /\ sending' = TRUE /\ line' = line /\ pc' = pc
      /\ turns' = turns /\ held' = held /\ Turns' = Turns
  BY DEF Obtain, turnVars, Turns
<1>2. Head(line) \in ToSet(line)
  <2>1. line \in Seq(Nat) /\ line # <<>>
    BY <1>1 DEF Flow, LineInv
  <2> QED BY <2>1 DEF ToSet
<1>3. Flow'
  BY <1>1 DEF Flow, LineInv, TasksInv, Phases
<1> QED BY <1>1, <1>2, <1>3 DEF Sends, Flow, LineInv

LEMMA TurnTasks ==
  ASSUME TasksInv, NEW t \in held, NEW place \in Places, turns' = At(t, place),
         turns[t].at \notin {"snapshot", "done"},
         place \notin {"snapshot", "cancelled"},
         place # "done" => pc # "gather",
         UNCHANGED <<pc, held>>
  PROVE  TasksInv' /\ Turns' = Turns
<1>1. t \in Turns /\ turns \in Seq(TurnRecords)
  BY DEF TasksInv
<1>2. /\ turns' \in Seq(TurnRecords) /\ Turns' = Turns /\ Len(turns') = Len(turns)
      /\ \A u \in Turns : u # t => turns'[u] = turns[u]
      /\ turns'[t].at = place
  BY <1>1, MovedTurn DEF Turns
<1>3. pc \notin {"new", "done"}
  BY <1>1 DEF TasksInv
<1> QED BY <1>1, <1>2, <1>3 DEF TasksInv, Phases

\* A task queues up, or leaves the line, or queues up again behind the others.
LEMMA TurnFlows ==
  ASSUME Flow, NEW t \in Turns, turns[t].at \notin {"snapshot", "done"},
         NEW place \in Places \ {"snapshot", "cancelled", "work"}, turns' = At(t, place),
         place # "done" => turns[t].at # "cancelled" /\ pc # "gather",
         NEW rest, NEW gone, gone \subseteq {t}, Shortened(rest, gone),
         t \notin ToSet(line) \ gone,
         \/ Queue(rest, t) /\ place # "done"
         \/ Shrink(rest) /\ place = "done",
         UNCHANGED <<pc, held>>
  PROVE  /\ Flow' /\ Turns' = Turns
         /\ Sends(Serve)' <=> Sends(Serve)
         /\ \A u \in Turns : u # t => (Sends(u)' <=> Sends(u))
         /\ Sends(t)' <=> rest = <<>> /\ place # "done"
<1>1. t \in held
  BY DEF Flow, TasksInv
<1>2. TasksInv' /\ Turns' = Turns
  BY <1>1, TurnTasks DEF Flow
<1>3. /\ \A u \in Turns : u # t => turns'[u] = turns[u]
      /\ turns'[t].at = place
  BY MovedTurn DEF Flow, TasksInv
<1>4. place \in Speaks <=> place # "done"
  BY DEF Places, Speaks
<1>5. place = "done" => ~Queue(rest, t) \/ turns'[t].at \notin Speaks
  BY <1>3, <1>4
<1>6. /\ LineInv'
      /\ Sends(Serve)' <=> Sends(Serve)
      /\ \A u \in Turns : u # t => (Sends(u)' <=> Sends(u))
      /\ Sends(t)' <=> Queue(rest, t) /\ rest = <<>> /\ turns'[t].at \in Speaks
  <2>1. \/ Queue(rest, t) /\ turns'[t].at \in Speaks
        \/ Shrink(rest) /\ turns'[t].at \notin Speaks
    BY <1>3, <1>4
  <2> QED BY <1>2, <1>3, <2>1, TurnMoves DEF Flow
<1> QED BY <1>2, <1>3, <1>4, <1>6 DEF Flow

LEMMA TurnReturnsFlows ==
  ASSUME Flow, NEW t \in Turns, TurnReturns(t)
  PROVE  /\ Flow' /\ Turns' = Turns
         /\ Sends(Serve)' <=> Sends(Serve)
         /\ \A u \in Turns : u # t => (Sends(u)' <=> Sends(u))
         /\ Sends(t)' <=> line = <<>> /\ turns'[t].at # "done"
<1>1. /\ turns[t].at = "work" /\ UNCHANGED <<pc, held>>
      /\ LineTypeOK /\ TasksInv
  BY LineIsTyped DEF TurnReturns, Flow
<1>2. t \notin ToSet(line) /\ Shortened(line, {})
  BY <1>1, ShortenedNot DEF Flow, LineInv, Speaks
<1>3. pc # "gather"
  BY <1>1 DEF TasksInv
<1>4. PICK place \in {"delta", "failed", "done"} :
        /\ turns' = At(t, place)
        /\ place # "done" => Queue(line, t)
        /\ place = "done" => UNCHANGED lockVars
  BY DEF TurnReturns, Enter, Join, sendVars
<1>5. place \in Places \ {"snapshot", "cancelled", "work"} /\ turns'[t].at = place
  <2>1. place \in Places \ {"snapshot", "cancelled", "work"}
    BY DEF Places
  <2> QED BY <1>1, <1>4, <2>1, MovedTurn DEF TasksInv
<1>6. place = "done" => Shrink(line)
  BY <1>4, StillLine DEF Flow
<1> QED BY <1>1, <1>2, <1>3, <1>4, <1>5, <1>6, TurnFlows

LEMMA TurnSentFlows ==
  ASSUME Flow, NEW t \in Turns, TurnSent(t)
  PROVE  /\ Flow' /\ Turns' = Turns
         /\ Sends(Serve)' <=> Sends(Serve)
         /\ \A u \in Turns : u # t => (Sends(u)' <=> Sends(u))
         /\ Sends(t)' <=> LeaveLine = <<>> /\ turns'[t].at # "done"
<1>1. /\ turns[t].at \in {"delta", "completed", "failed"} /\ UNCHANGED <<pc, held>>
      /\ LineTypeOK /\ TasksInv /\ Sends(t)
  BY LineIsTyped DEF TurnSent, Flow
<1>2. Shortened(LeaveLine, {t}) /\ t \notin ToSet(line) \ {t}
  BY <1>1, SenderInLine, ShortenedTail
<1>3. pc # "gather"
  BY <1>1 DEF TasksInv
<1>4. PICK place \in {"completed", "done"} :
        /\ turns' = At(t, place)
        /\ place # "done" => Queue(LeaveLine, t)
        /\ place = "done" => Shrink(LeaveLine)
  BY DEF TurnSent, Join, Rest
<1>5. place \in Places \ {"snapshot", "cancelled", "work"} /\ turns'[t].at = place
  <2>1. place \in Places \ {"snapshot", "cancelled", "work"}
    BY DEF Places
  <2> QED BY <1>1, <1>4, <2>1, MovedTurn DEF TasksInv
<1> QED BY <1>1, <1>2, <1>3, <1>4, <1>5, TurnFlows

LEMMA TurnUnwindsFlows ==
  ASSUME Flow, NEW t \in Turns, TurnUnwinds(t)
  PROVE  /\ Flow' /\ Turns' = Turns
         /\ Sends(Serve)' <=> Sends(Serve)
         /\ \A u \in Turns : u # t => (Sends(u)' <=> Sends(u))
         /\ ~Sends(t)'
<1>1. /\ turns[t].at = "cancelled" /\ UNCHANGED <<pc, held>> /\ turns' = At(t, "done")
      /\ LineTypeOK /\ Shrink(Without(t))
  BY LineIsTyped DEF TurnUnwinds, Flow, Rest
<1>2. Shortened(Without(t), {t}) /\ t \notin ToSet(line) \ {t}
  BY <1>1, ShortenedWithout
<1>3. "done" \in Places \ {"snapshot", "cancelled", "work"}
  BY DEF Places
<1> QED BY <1>1, <1>2, <1>3, TurnFlows

-----------------------------------------------------------------------------
(* The second layer: the lease, and the buffer.                             *)

LEMMA SameHold ==
  ASSUME HoldInv, UNCHANGED <<holdVars, configVars>>, pc \notin {"new", "done"},
         pc' \in Phases \ {"new", "created", "updated", "done"},
         pc' \in Listening => pc \in Listening \cup {"created"}
  PROVE  HoldInv'
BY DEF HoldInv, holdVars, configVars, Listening

LEMMA DetectHolds ==
  ASSUME HoldInv, UNCHANGED <<holdVars, configVars>>, NEW b, Detect(b),
         pc \in Listening
  PROVE  HoldInv'
<1>1. pc \notin {"new", "done"} /\ pc' \in {"receive", "score"}
  BY DetectPhases DEF Listening
<1> QED BY <1>1, SameHold DEF Phases, Waits

LEMMA CommitHolds ==
  ASSUME SessionInv, UNCHANGED <<holdVars, configVars>>, auto' \in BOOLEAN,
         pc \in {"receive", "stopped", "slot"}, NEW rest,
         Snapshot(rest) \/ pc' = "slot"
  PROVE  HoldInv'
<1>1. pc' \in {"committed", "reply", "failing", "slot"}
  BY SnapshotCases
<1> QED BY <1>1, SameHold DEF SessionInv, Phases, Waits, SendsAt, Listening

LEMMA OutsideHolds ==
  ASSUME SessionInv, Outside
  PROVE  HoldInv'
<1>1. HoldInv
  BY DEF SessionInv
<1>2. CASE Connect
  <2>1. /\ pc = "new" /\ UNCHANGED <<lease, stream, language, detects>>
        /\ \/ pc' = "created" /\ slot' = TRUE
           \/ pc' = "done" /\ slot' = slot
    BY <1>2 DEF Connect, configVars
  <2>2. CASE pc' = "created" /\ slot' = TRUE
    BY <1>1, <2>1, <2>2 DEF HoldInv, Listening
  <2>3. CASE pc' = "done" /\ slot' = slot
    BY <1>1, <2>1, <2>3 DEF HoldInv, Listening
  <2> QED BY <2>1, <2>2, <2>3
<1>3. CASE Complain \/ Clear \/ Reject \/ Deadline
  <2>1. /\ UNCHANGED <<holdVars, configVars>> /\ pc \in Waits
        /\ pc' \in {"reply", "failing"}
        /\ pc' = "reply" => pc = "receive"
    BY <1>3 DEF Complain, Clear, Reject, Deadline, Fail, Waits
  <2> QED BY <1>1, <2>1, SameHold DEF Phases, Waits, SendsAt, Listening
<1>4. CASE Update
  <2>1. /\ pc = "receive" /\ language' = TRUE /\ detects' \in BOOLEAN /\ slot' = slot
        /\ \/ lease' = detects' /\ stream' = (stream /\ detects') /\ pc' = "updated"
           \/ UNCHANGED <<lease, stream>> /\ pc' = "failing"
    BY <1>4 DEF Update
  <2> QED BY <1>1, <2>1 DEF HoldInv, Listening
<1>5. CASE ManualCommit
  <2>1. CASE Stop(buf, buf.total, FALSE)
    <3>1. /\ UNCHANGED <<holdVars, configVars>> /\ pc = "receive" /\ pc' = "stopped"
      BY <1>5, <2>1 DEF ManualCommit, Stop
    <3> QED BY <1>1, <3>1, SameHold DEF Phases, Waits, SendsAt, Listening
  <2>2. CASE auto' = FALSE /\ Commit(line)
    <3>1. UNCHANGED <<holdVars, configVars>> /\ pc = "receive" /\ (Snapshot(line) \/ pc' = "slot")
      BY <1>5, <2>2 DEF ManualCommit, Commit
    <3> QED BY <2>2, <3>1, CommitHolds
  <2> QED BY <1>5, <2>1, <2>2 DEF ManualCommit
<1>6. CASE \E size \in Sizes : Receive(size)
  <2>1. PICK size \in Sizes : Receive(size)
    BY <1>6
  <2> QED BY <1>1, <2>1, DetectHolds DEF Receive, Listening
<1>7. CASE Disconnect \/ Cancel
  <2>1. /\ UNCHANGED <<holdVars, configVars>> /\ pc \in Waits \cup {"closing"}
        /\ pc' = "gather"
    BY <1>7 DEF Disconnect, Cancel, Teardown, Waits
  <2> QED BY <1>1, <2>1, SameHold DEF Phases, Waits, SendsAt, Listening
<1> QED BY <1>2, <1>3, <1>4, <1>5, <1>6, <1>7 DEF Outside

LEMMA InsideHolds ==
  ASSUME SessionInv, Scored \/ StoppedSent \/ ServeSent \/ SlotFrees \/ Closed \/ Release
  PROVE  HoldInv'
<1>1. HoldInv
  BY DEF SessionInv
<1>2. CASE Scored
  <2>1. PICK isSpeech \in BOOLEAN : FrameScored(isSpeech)
    BY <1>2 DEF Scored
  <2>2. PICK b : GoesOn(b) \/ SpeechStarts(b) \/ Stop(b, FrameEnd(b), TRUE)
    BY <2>1 DEF FrameScored
  <2>3. pc = "score" /\ pc \in Listening /\ UNCHANGED <<holdVars, configVars>>
    BY <2>1, <2>2 DEF FrameScored, Listening, GoesOn, SpeechStarts, Stop
  <2>4. CASE GoesOn(b)
    BY <1>1, <2>3, <2>4, DetectHolds DEF GoesOn
  <2>5. CASE SpeechStarts(b) \/ Stop(b, FrameEnd(b), TRUE)
    <3>1. pc' \in {"started", "stopped"}
      BY <2>5 DEF SpeechStarts, Stop
    <3> QED BY <1>1, <2>3, <3>1, SameHold DEF Phases, Waits, SendsAt, Listening
  <2> QED BY <2>2, <2>4, <2>5
<1>3. CASE StoppedSent
  <2>1. /\ pc = "stopped" /\ auto' = auto /\ UNCHANGED <<holdVars, configVars>>
        /\ Snapshot(LeaveLine) \/ pc' = "slot"
    BY <1>3 DEF StoppedSent, Commit
  <2> QED BY <2>1, CommitHolds DEF SessionInv, BufferInv
<1>4. CASE SlotFrees
  <2>1. /\ pc = "slot" /\ auto' = auto /\ UNCHANGED <<holdVars, configVars>>
        /\ Snapshot(line)
    BY <1>4 DEF SlotFrees
  <2> QED BY <2>1, CommitHolds DEF SessionInv, BufferInv
<1>5. CASE ServeSent
  <2>1. UNCHANGED <<slot, lease, configVars>>
    BY <1>5 DEF ServeSent
  <2>2. CASE pc = "updated"
    BY <1>1, <1>5, <2>1, <2>2 DEF ServeSent, HoldInv, configVars, Listening
  <2>3. CASE pc # "updated"
    <3>1. /\ UNCHANGED <<holdVars, configVars>>
          /\ pc \in {"created", "reply", "started", "committed", "failing"}
          /\ pc' \in {"receive", "score", "closing"} /\ (pc = "failing" => pc' = "closing")
      BY <1>5, <2>1, <2>3, DetectPhases DEF ServeSent, holdVars
    <3> QED BY <1>1, <3>1, SameHold DEF Phases, Waits, SendsAt, Listening
  <2> QED BY <2>2, <2>3
<1>6. CASE Closed
  <2>1. /\ UNCHANGED <<holdVars, configVars>> /\ pc = "closing" /\ pc' = "gather"
    BY <1>6 DEF Closed, Teardown
  <2> QED BY <1>1, <2>1, SameHold DEF Phases, Listening
<1>7. CASE Release
  BY <1>1, <1>7 DEF Release, HoldInv, configVars, Listening
<1> QED BY <1>2, <1>3, <1>4, <1>5, <1>6, <1>7

(* Frames and bytes.                                                        *)
LEMMA Frames ==
  /\ FrameBytes \in Nat \ {0} /\ PrefixBytes \in Nat
  /\ StartFrames \in Nat \ {0} /\ StopFrames \in Nat \ {0}
  /\ \A n \in Nat : /\ n * FrameBytes \in Nat
                    /\ (n + 1) * FrameBytes = n * FrameBytes + FrameBytes
                    /\ (n * FrameBytes) % 2 = 0
  /\ \A m, n \in Nat : m <= n => m * FrameBytes <= n * FrameBytes
  /\ 0 * FrameBytes = 0
<1>1. /\ FrameBytes \in Nat \ {0} /\ PrefixBytes \in Nat
      /\ StartFrames \in Nat \ {0} /\ StopFrames \in Nat \ {0}
  BY BufferAssumption DEF BufferAssumption
<1>2. PICK half \in Nat : FrameBytes = 2 * half
  <2>1. FrameBytes % 2 = 0
    BY BufferAssumption DEF BufferAssumption
  <2>2. FrameBytes = 2 * (FrameBytes \div 2) /\ FrameBytes \div 2 \in Nat
    BY <1>1, <2>1
  <2> QED BY <2>2
<1>3. ASSUME NEW n \in Nat
      PROVE  /\ n * FrameBytes \in Nat
             /\ (n + 1) * FrameBytes = n * FrameBytes + FrameBytes
             /\ (n * FrameBytes) % 2 = 0
  <2>1. n * FrameBytes \in Nat /\ (n + 1) * FrameBytes = n * FrameBytes + FrameBytes
    BY <1>1
  <2>2. n * FrameBytes = 2 * (n * half) /\ n * half \in Nat
    BY <1>2
  <2>3. \A k \in Nat : (2 * k) % 2 = 0
    OBVIOUS
  <2> QED BY <2>1, <2>2, <2>3
<1>4. ASSUME NEW m \in Nat, NEW n \in Nat, m <= n
      PROVE  m * FrameBytes <= n * FrameBytes
  <2>1. n - m \in Nat /\ (n - m) * FrameBytes \in Nat
    BY <1>1, <1>4
  <2>2. n * FrameBytes = m * FrameBytes + (n - m) * FrameBytes
    BY <1>1, <2>1
  <2>3. m * FrameBytes \in Nat /\ n * FrameBytes \in Nat
    BY <1>3
  <2> QED BY <2>1, <2>2, <2>3
<1>5. 0 * FrameBytes = 0
  BY <1>1
<1> QED BY <1>1, <1>3, <1>4, <1>5

LEMMA RetainedBytes ==
  ASSUME NEW b, b.speech \in Nat
  PROVE  Retained(b) = PrefixBytes + b.speech * FrameBytes /\ Retained(b) \in Nat
BY Frames DEF Retained

\* More audio changes nothing that detection has looked at.
LEMMA AppendedFits ==
  ASSUME NEW b, Fits(b), NEW size \in Nat
  PROVE  /\ Fits(Appended(b, size))
         /\ \A n, h, c : InStep(Appended(b, size), n, h, c) <=> InStep(b, n, h, c)
         /\ \A f \in {"start", "scan", "speech", "silence", "active", "pending"} :
              Appended(b, size)[f] = b[f]
         /\ Appended(b, size).len = b.len + size
<1> DEFINE a == Appended(b, size)
<1>1. b \in Buffers
  BY DEF Fits
<1>2. /\ a \in Buffers /\ a.start = b.start /\ a.scan = b.scan /\ a.speech = b.speech
      /\ a.silence = b.silence /\ a.active = b.active /\ a.pending = b.pending
      /\ a.len = b.len + size /\ a.total = b.total + size
  <2>1. b.len + size \in Nat /\ b.total + size \in Nat
    BY BufferFields
  <2>2. a = [b EXCEPT !.len = b.len + size, !.total = b.total + size]
    BY DEF Appended
  <2> HIDE DEF a
  <2> QED BY <1>1, <2>1, <2>2 DEF Buffers
<1> HIDE DEF a
<1>3. Retained(a) = Retained(b)
  BY <1>2 DEF Retained
<1>4. Fits(a)
  BY <1>2, BufferFields DEF Fits
<1>5. \A n, h, c : InStep(a, n, h, c) <=> InStep(b, n, h, c)
  BY <1>2, <1>3 DEF InStep
<1> QED BY <1>2, <1>4, <1>5 DEF a

\* A frame is copied for the stream.
LEMMA ScannedFits ==
  ASSUME NEW b, Fits(b), FrameReady(b)
  PROVE  /\ Fits(Scanned(b))
         /\ \A n, h, c : InStep(Scanned(b), n, h, c) <=> InStep(b, n, h, c)
         /\ \A f \in {"start", "len", "total", "speech", "active", "pending"} :
              Scanned(b)[f] = b[f]
         /\ Scanned(b).scan = b.scan + FrameBytes
<1> DEFINE a == Scanned(b)
<1>1. b \in Buffers
  BY DEF Fits
<1>2. /\ a \in Buffers /\ a.start = b.start /\ a.scan = b.scan + FrameBytes
      /\ a.speech = b.speech /\ a.len = b.len /\ a.total = b.total
      /\ a.silence = b.silence /\ a.active = b.active /\ a.pending = b.pending
  <2>1. b.scan + FrameBytes \in Nat
    BY BufferFields, Frames
  <2>2. a = [b EXCEPT !.scan = b.scan + FrameBytes]
    BY DEF Scanned
  <2> HIDE DEF a
  <2> QED BY <1>1, <2>1, <2>2 DEF Buffers
<1> HIDE DEF a
<1>3. Retained(a) = Retained(b)
  BY <1>2 DEF Retained
<1>4. Fits(a)
  <2>1. FrameBytes % 2 = 0 /\ b.scan % 2 = 0 /\ b.scan \in Nat /\ FrameBytes \in Nat
    BY BufferFields, BufferAssumption DEF BufferAssumption
  <2>2. (b.scan + FrameBytes) % 2 = 0
    <3>1. \A m, n \in Nat : m % 2 = 0 /\ n % 2 = 0 => (m + n) % 2 = 0
      OBVIOUS
    <3> QED BY <2>1, <3>1
  <2>3. a.scan <= a.len /\ a.scan % 2 = 0
    BY <1>2, <2>2 DEF FrameReady
  <2>4. /\ b.start + b.len = b.total
        /\ b.active <=> b.pending # None
        /\ b.active <=> b.speech >= StartFrames
    BY DEF Fits
  <2> QED BY <1>2, <2>3, <2>4 DEF Fits
<1>5. \A n, h, c : InStep(a, n, h, c) <=> InStep(b, n, h, c)
  BY <1>2, <1>3 DEF InStep
<1> QED BY <1>2, <1>4, <1>5 DEF a

\* What Serve and the buffer agree about, for the buffer b.
Agrees(b, phase, h, c) ==
  /\ Fits(b) /\ c <= b.start
  /\ InStep(b, IF phase = "score" THEN b.scan - FrameBytes ELSE b.scan, h, c)

LEMMA DetectAgrees ==
  ASSUME NEW b, Fits(b), NEW h, NEW c, c <= b.start, InStep(b, b.scan, h, c), Detect(b)
  PROVE  /\ Agrees(buf', pc', h, c)
         /\ pc' = "score" => detects
         /\ detects /\ pc' = "receive" => ~FrameReady(buf')
         /\ buf'.active = b.active /\ buf'.pending = b.pending /\ buf'.start = b.start
         /\ buf'.total = b.total
         /\ pc' = "score" => FrameReady(b) /\ buf'.scan = b.scan + FrameBytes
         /\ pc' = "receive" => buf' = b
<1>1. CASE detects /\ FrameReady(b) /\ buf' = Scanned(b) /\ pc' = "score"
  <2>2. /\ Fits(buf') /\ InStep(buf', b.scan, h, c) /\ buf'.scan = b.scan + FrameBytes
        /\ buf'.start = b.start /\ buf'.active = b.active /\ buf'.pending = b.pending
        /\ buf'.total = b.total
    BY <1>1, ScannedFits
  <2>3. InStep(buf', buf'.scan - FrameBytes, h, c)
    <3>1. buf'.scan - FrameBytes = b.scan
      BY <2>2, BufferFields, Frames
    <3> QED BY <2>2, <3>1, Zenon
  <2>4. Agrees(buf', pc', h, c)
    BY <1>1, <2>2, <2>3 DEF Agrees
  <2> QED BY <1>1, <2>2, <2>4
<1>2. CASE (detects => ~FrameReady(b)) /\ buf' = b /\ pc' = "receive"
  BY <1>2 DEF Agrees
<1> QED BY <1>1, <1>2 DEF Detect

\* A frame has been judged: silence or speech is counted.
LEMMA JudgedFields ==
  ASSUME Fits(buf), NEW isSpeech \in BOOLEAN
  PROVE  /\ Judged(isSpeech) \in Buffers
         /\ Judged(isSpeech).start = buf.start /\ Judged(isSpeech).len = buf.len
         /\ Judged(isSpeech).total = buf.total /\ Judged(isSpeech).scan = buf.scan
         /\ Judged(isSpeech).active = buf.active /\ Judged(isSpeech).pending = buf.pending
         /\ Judged(isSpeech).speech \in Nat
         /\ buf.active => Judged(isSpeech).speech = buf.speech
         /\ ~buf.active => Judged(isSpeech).speech \in {0, buf.speech + 1}
<1> DEFINE b == Judged(isSpeech)
<1>1. buf \in Buffers /\ buf.silence + 1 \in Nat /\ buf.speech + 1 \in Nat
  BY BufferFields
<1>2. CASE buf.active
  <2>1. PICK n \in Nat : b = [buf EXCEPT !.silence = n]
    BY <1>1, <1>2 DEF Judged
  <2> HIDE DEF b
  <2>2. /\ b \in Buffers /\ b.start = buf.start /\ b.len = buf.len /\ b.total = buf.total
        /\ b.scan = buf.scan /\ b.active = buf.active /\ b.pending = buf.pending
        /\ b.speech = buf.speech
    BY <1>1, <2>1 DEF Buffers
  <2> QED BY <1>1, <1>2, <2>2, BufferFields DEF b
<1>3. CASE ~buf.active
  <2>1. PICK n \in {0, buf.speech + 1} : b = [buf EXCEPT !.speech = n]
    BY <1>1, <1>3 DEF Judged
  <2> HIDE DEF b
  <2>2. n \in Nat
    BY <1>1
  <2>3. /\ b \in Buffers /\ b.start = buf.start /\ b.len = buf.len /\ b.total = buf.total
        /\ b.scan = buf.scan /\ b.active = buf.active /\ b.pending = buf.pending
        /\ b.speech = n
    BY <1>1, <2>1, <2>2 DEF Buffers
  <2> QED BY <1>3, <2>2, <2>3 DEF b
<1> QED BY <1>2, <1>3

\* What holds between a score and the trimming.
LEMMA JudgedBytes ==
  ASSUME Agrees(buf, "score", heard, cut), NEW isSpeech \in BOOLEAN
  PROVE  LET b == Judged(isSpeech) IN
         /\ b.speech * FrameBytes <= b.scan
         /\ FrameEnd(buf) = b.start + b.scan /\ FrameEnd(buf) \in Nat
         /\ b.scan \in Nat /\ b.start \in Nat /\ cut <= b.start
         /\ ~b.active => b.start = cut \/ b.scan >= Retained(b)
         /\ ~b.active /\ b.speech = buf.speech + 1 =>
              /\ b.scan <= Retained(b)
              /\ b.start = cut \/ b.scan = Retained(b)
<1> DEFINE b == Judged(isSpeech)  n == buf.scan - FrameBytes
<1>1. /\ Fits(buf) /\ cut <= buf.start /\ InStep(buf, n, heard, cut)
  BY DEF Agrees
<1>2. /\ b.start = buf.start /\ b.scan = buf.scan /\ b.active = buf.active
      /\ b.speech \in Nat
      /\ buf.active => b.speech = buf.speech
      /\ ~buf.active => b.speech \in {0, buf.speech + 1}
  BY <1>1, JudgedFields
<1> HIDE DEF b
<1>3. /\ n \in Nat /\ buf.scan \in Nat /\ buf.speech \in Nat /\ buf.start \in Nat
      /\ buf.scan = n + FrameBytes /\ buf.speech * FrameBytes <= n
      /\ ~buf.active => n <= Retained(buf) /\ (buf.start = cut \/ n = Retained(buf))
  BY <1>1, BufferFields, Frames DEF InStep
<1>4. /\ Retained(buf) = PrefixBytes + buf.speech * FrameBytes
      /\ Retained(b) = PrefixBytes + b.speech * FrameBytes
  BY <1>2, <1>3, RetainedBytes
<1>5. /\ buf.speech * FrameBytes \in Nat /\ PrefixBytes \in Nat /\ FrameBytes \in Nat \ {0}
      /\ (buf.speech + 1) * FrameBytes = buf.speech * FrameBytes + FrameBytes
      /\ 0 * FrameBytes = 0
  BY <1>3, Frames
<1>6. /\ b.speech = buf.speech \/ b.speech = buf.speech + 1 \/ b.speech = 0
      /\ b.speech * FrameBytes \in {buf.speech * FrameBytes,
                                    buf.speech * FrameBytes + FrameBytes, 0}
  BY <1>2, <1>5
<1>7. b.speech * FrameBytes <= b.scan
  BY <1>2, <1>3, <1>5, <1>6
<1>8. FrameEnd(buf) = b.start + b.scan /\ FrameEnd(buf) \in Nat
  BY <1>2, <1>3 DEF FrameEnd
<1>9. ~b.active => b.start = cut \/ b.scan >= Retained(b)
  <2>1. SUFFICES ASSUME ~b.active, b.start # cut
                 PROVE  b.scan >= Retained(b)
    OBVIOUS
  <2>2. ~buf.active /\ buf.start # cut
    BY <1>2, <2>1
  <2>3. b.scan = Retained(buf) + FrameBytes
    BY <1>2, <1>3, <2>2
  <2>4. b.speech * FrameBytes <= buf.speech * FrameBytes + FrameBytes
    BY <1>5, <1>6
  <2>5. b.speech * FrameBytes \in Nat
    BY <1>5, <1>6
  <2> QED BY <1>4, <1>5, <2>3, <2>4, <2>5
<1>10. ~b.active /\ b.speech = buf.speech + 1 =>
         b.scan <= Retained(b) /\ (b.start = cut \/ b.scan = Retained(b))
  BY <1>2, <1>3, <1>4, <1>5
<1> QED BY <1>1, <1>2, <1>3, <1>7, <1>8, <1>9, <1>10 DEF b

\* Speech goes on.
LEMMA ActiveAgrees ==
  ASSUME Agrees(buf, "score", heard, cut), NEW isSpeech \in BOOLEAN, buf.active
  PROVE  LET b == Judged(isSpeech) IN
         Fits(b) /\ cut <= b.start /\ InStep(b, b.scan, FrameEnd(buf), cut)
<1> DEFINE b == Judged(isSpeech)
<1>1. Fits(buf)
  BY DEF Agrees
<1>2. /\ b \in Buffers /\ b.start = buf.start /\ b.len = buf.len /\ b.total = buf.total
      /\ b.scan = buf.scan /\ b.active = buf.active /\ b.pending = buf.pending
      /\ b.speech = buf.speech
  BY <1>1, JudgedFields
<1>3. /\ b.speech * FrameBytes <= b.scan /\ FrameEnd(buf) = b.start + b.scan
      /\ FrameEnd(buf) \in Nat /\ b.scan \in Nat /\ cut <= b.start
  BY JudgedBytes
<1> HIDE DEF b
<1>4. Fits(b)
  BY <1>1, <1>2 DEF Fits
<1>5. InStep(b, b.scan, FrameEnd(buf), cut)
  BY <1>2, <1>3 DEF InStep, Nothing
<1> QED BY <1>3, <1>4, <1>5 DEF b

\* Before speech: the run and its prefix are kept.
LEMMA TrimmedAgrees ==
  ASSUME Agrees(buf, "score", heard, cut), NEW isSpeech \in BOOLEAN, ~buf.active,
         Judged(isSpeech).speech < StartFrames, cut \in Nat
  PROVE  LET b == Trimmed(Judged(isSpeech)) IN
         /\ Fits(b) /\ cut <= b.start /\ InStep(b, b.scan, FrameEnd(buf), cut)
         /\ ~b.active
<1> DEFINE b == Judged(isSpeech)  T == Trimmed(b)  discard == b.scan - Retained(b)
<1>1. Fits(buf)
  BY DEF Agrees
<1>2. /\ b \in Buffers /\ b.start = buf.start /\ b.len = buf.len /\ b.total = buf.total
      /\ b.scan = buf.scan /\ ~b.active /\ b.pending = buf.pending
      /\ b.speech \in Nat /\ b.speech < StartFrames
  BY <1>1, JudgedFields
<1>3. /\ b.speech * FrameBytes <= b.scan /\ FrameEnd(buf) = b.start + b.scan
      /\ FrameEnd(buf) \in Nat /\ b.scan \in Nat /\ b.start \in Nat /\ cut <= b.start
      /\ b.start = cut \/ b.scan >= Retained(b)
  BY <1>2, JudgedBytes
<1>4. /\ b.start + b.len = b.total /\ b.scan <= b.len /\ b.scan % 2 = 0
      /\ b.len \in Nat /\ b.total \in Nat /\ b.pending = None
  BY <1>1, <1>2, BufferFields DEF Fits
<1>5. /\ Retained(b) \in Nat /\ b.speech * FrameBytes <= Retained(b)
      /\ Retained(b) % 2 = 0
  <2>1. /\ Retained(b) = PrefixBytes + b.speech * FrameBytes /\ Retained(b) \in Nat
    BY <1>2, RetainedBytes
  <2>2. /\ b.speech * FrameBytes \in Nat /\ (b.speech * FrameBytes) % 2 = 0
        /\ PrefixBytes \in Nat /\ PrefixBytes % 2 = 0
    BY <1>2, Frames, BufferAssumption DEF BufferAssumption
  <2>3. \A m, n \in Nat : m % 2 = 0 /\ n % 2 = 0 => (m + n) % 2 = 0
    OBVIOUS
  <2>4. (PrefixBytes + b.speech * FrameBytes) % 2 = 0
    BY <2>2, <2>3
  <2> QED BY <2>1, <2>2, <2>4
<1> HIDE DEF b
<1>6. CASE discard > 0
  <2>1. /\ b.len - discard \in Nat /\ b.start + discard \in Nat
        /\ b.scan - discard = Retained(b)
    BY <1>3, <1>4, <1>5, <1>6
  <2>2. T = [b EXCEPT !.len = b.len - discard, !.start = b.start + discard,
                      !.scan = b.scan - discard]
    BY <1>6 DEF Trimmed
  <2> HIDE DEF T, discard
  <2>3. /\ T \in Buffers /\ T.len = b.len - discard /\ T.start = b.start + discard
        /\ T.scan = Retained(b) /\ T.speech = b.speech /\ T.total = b.total
        /\ T.active = b.active /\ T.pending = b.pending
    BY <1>2, <1>5, <2>1, <2>2 DEF Buffers
  <2>4. Retained(T) = Retained(b)
    BY <2>3 DEF Retained
  <2>5. /\ T.start + T.len = T.total /\ T.scan <= T.len /\ cut <= T.start
        /\ FrameEnd(buf) = T.start + T.scan
    BY <1>3, <1>4, <1>5, <1>6, <2>1, <2>3 DEF discard
  <2>6. Fits(T)
    <3>1. T.scan % 2 = 0 /\ (T.active <=> T.pending # None)
          /\ ~(T.speech >= StartFrames) /\ ~T.active
      BY <1>2, <1>4, <1>5, <2>3, Frames
    <3> QED BY <2>3, <2>5, <3>1 DEF Fits
  <2>7. InStep(T, T.scan, FrameEnd(buf), cut)
    <3>1. T.speech * FrameBytes <= T.scan /\ T.scan \in Nat /\ T.scan <= Retained(T)
          /\ T.scan = Retained(T) /\ FrameEnd(buf) # Nothing
      BY <1>3, <1>5, <2>3, <2>4 DEF Nothing
    <3> QED BY <2>5, <3>1 DEF InStep
  <2> QED BY <1>2, <2>3, <2>5, <2>6, <2>7 DEF T, b
<1>7. CASE ~(discard > 0)
  <2>1. T = b
    BY <1>7 DEF Trimmed
  <2>2. b.scan <= Retained(b) /\ (b.start = cut \/ b.scan = Retained(b))
    BY <1>3, <1>5, <1>7
  <2>3. Fits(b)
    <3>1. ~(b.speech >= StartFrames)
      BY <1>2, Frames
    <3> QED BY <1>2, <1>4, <3>1 DEF Fits
  <2>4. InStep(b, b.scan, FrameEnd(buf), cut)
    <3>1. FrameEnd(buf) # Nothing
      BY <1>3 DEF Nothing
    <3> QED BY <1>2, <1>3, <2>2, <3>1 DEF InStep
  <2> QED BY <1>2, <1>3, <2>1, <2>3, <2>4 DEF T, b
<1> QED BY <1>6, <1>7

LEMMA MaxOfTwo ==
  ASSUME NEW m \in Int, NEW n \in Int
  PROVE  /\ Max({m, n}) \in {m, n} /\ Max({m, n}) >= m /\ Max({m, n}) >= n
         /\ Max({m, n}) = IF m >= n THEN m ELSE n
<1>1. \E x \in {m, n} : \A y \in {m, n} : x >= y
  <2>1. CASE m >= n
    BY <2>1
  <2>2. CASE n >= m
    BY <2>2
  <2> QED BY <2>1, <2>2
<1>2. Max({m, n}) = CHOOSE x \in {m, n} : \A y \in {m, n} : x >= y
  BY Zenon DEF Max
<1>3. Max({m, n}) \in {m, n} /\ \A y \in {m, n} : Max({m, n}) >= y
  BY <1>1, <1>2
<1> QED BY <1>3

(* Speech starts: the turn will begin where the client is told it does,     *)
(* unless audio was taken after that.                                       *)
LEMMA StartAgrees ==
  ASSUME Agrees(buf, "score", heard, cut), NEW isSpeech \in BOOLEAN, ~buf.active,
         Judged(isSpeech).speech >= StartFrames, cut \in Nat,
         NEW item \in Nat \ {None}
  PROVE  LET b == Judged(isSpeech)
             a == [b EXCEPT !.active = TRUE, !.pending = item]
         IN /\ Fits(a) /\ cut <= a.start /\ InStep(a, a.scan, FrameEnd(buf), cut)
            /\ a.active /\ a.pending = item /\ a.start = buf.start /\ a.scan = buf.scan
            /\ a.len = buf.len
            /\ AnnouncedStart(b) \in Nat
            /\ a.start = Max({AnnouncedStart(b), cut})
<1> DEFINE b == Judged(isSpeech)  a == [b EXCEPT !.active = TRUE, !.pending = item]
<1>1. Fits(buf)
  BY DEF Agrees
<1>2. /\ b \in Buffers /\ b.start = buf.start /\ b.len = buf.len /\ b.total = buf.total
      /\ b.scan = buf.scan /\ ~b.active
      /\ b.speech \in Nat /\ b.speech \in {0, buf.speech + 1} /\ b.speech >= StartFrames
  BY <1>1, JudgedFields
<1>3. b.speech = buf.speech + 1 /\ b.speech = StartFrames
  <2>1. ~(buf.speech >= StartFrames) /\ buf.speech \in Nat
    BY <1>1, BufferFields DEF Fits
  <2> QED BY <1>2, <2>1, Frames
<1>4. /\ b.speech * FrameBytes <= b.scan /\ FrameEnd(buf) = b.start + b.scan
      /\ FrameEnd(buf) \in Nat /\ b.scan \in Nat /\ b.start \in Nat /\ cut <= b.start
      /\ b.scan <= Retained(b) /\ (b.start = cut \/ b.scan = Retained(b))
  BY <1>2, <1>3, JudgedBytes
<1>5. /\ a \in Buffers /\ a.active = TRUE /\ a.pending = item /\ a.start = b.start
      /\ a.len = b.len /\ a.total = b.total /\ a.scan = b.scan /\ a.speech = b.speech
  <2>1. b \in Buffers /\ item \in Nat /\ TRUE \in BOOLEAN
    BY <1>2
  <2> HIDE DEF b
  <2> QED BY <2>1 DEF Buffers
<1> HIDE DEF b, a
<1>6. Fits(a)
  BY <1>1, <1>2, <1>5, BufferFields DEF Fits
<1>7. InStep(a, a.scan, FrameEnd(buf), cut)
  BY <1>4, <1>5 DEF InStep, Nothing
<1>8. Retained(b) = PrefixBytes + StartFrames * FrameBytes
  BY <1>2, <1>3, RetainedBytes
<1>9. StartFrames * FrameBytes \in Nat /\ PrefixBytes \in Nat
  BY Frames
<1>10. Onset(b) = b.start + b.scan - StartFrames * FrameBytes
  BY <1>4, <1>9 DEF Onset, FrameEnd
<1>11. /\ AnnouncedStart(b) \in Nat
       /\ b.start = IF AnnouncedStart(b) >= cut THEN AnnouncedStart(b) ELSE cut
  <2>1. StartFrames * FrameBytes <= b.scan
    BY <1>3, <1>4
  <2>2. CASE Onset(b) > PrefixBytes
    <3>1. AnnouncedStart(b) = Onset(b) - PrefixBytes
      BY <2>2 DEF AnnouncedStart
    <3> QED BY <1>4, <1>8, <1>9, <1>10, <2>1, <2>2, <3>1
  <2>3. CASE ~(Onset(b) > PrefixBytes)
    <3>1. AnnouncedStart(b) = 0
      BY <2>3 DEF AnnouncedStart
    <3> QED BY <1>4, <1>8, <1>9, <1>10, <2>1, <2>3, <3>1
  <2> QED BY <2>2, <2>3
<1>12. b.start = Max({AnnouncedStart(b), cut})
  <2>1. AnnouncedStart(b) \in Int /\ cut \in Int
    BY <1>11
  <2>2. Max({AnnouncedStart(b), cut}) = IF AnnouncedStart(b) >= cut
                                        THEN AnnouncedStart(b) ELSE cut
    BY <2>1, MaxOfTwo
  <2> QED BY <1>11, <2>2
<1> QED BY <1>2, <1>4, <1>5, <1>6, <1>7, <1>11, <1>12 DEF a, b

-----------------------------------------------------------------------------
(* The second layer: the stream and the buffer.                             *)

\* A buffer that detection starts afresh on.
LEMMA FreshAgrees ==
  ASSUME NEW b \in Buffers, NEW c,
         b.scan = 0, b.speech = 0, ~b.active, b.pending = None,
         b.start + b.len = b.total,
         b.start = c \/ Retained(b) = 0
  PROVE  Fits(b) /\ InStep(b, b.scan, AfterReset, c)
<1>1. b.len \in Nat /\ b.speech \in Nat
  BY DEF Buffers
<1>2. Retained(b) \in Nat /\ b.speech * FrameBytes = 0
  BY <1>1, RetainedBytes, Frames
<1>3. Fits(b)
  BY <1>1, Frames DEF Fits
<1>4. InStep(b, b.scan, AfterReset, c)
  BY <1>1, <1>2, Frames DEF InStep, AfterReset, Nothing
<1> QED BY <1>3, <1>4

LEMMA ClearedAgrees ==
  ASSUME Fits(buf)
  PROVE  /\ Fits(Cleared(buf)) /\ InStep(Cleared(buf), Cleared(buf).scan, AfterReset, buf.total)
         /\ Cleared(buf).len = 0 /\ Cleared(buf).start = buf.total /\ ~Cleared(buf).active
         /\ Cleared(buf).pending = None /\ Cleared(buf).scan = 0
<1> DEFINE b == Cleared(buf)
<1>1. buf \in Buffers /\ buf.total \in Nat /\ buf.total + 0 = buf.total
  BY BufferFields
<1>2. b = [buf EXCEPT !.scan = 0, !.speech = 0, !.silence = 0, !.active = FALSE,
                      !.len = 0, !.start = buf.total, !.pending = None]
  BY DEF Cleared, VadReset
<1> HIDE DEF b
<1>3. /\ b \in Buffers /\ b.scan = 0 /\ b.speech = 0 /\ ~b.active /\ b.pending = None
      /\ b.len = 0 /\ b.start = buf.total /\ b.total = buf.total
  BY <1>1, <1>2 DEF Buffers, None
<1>4. Fits(b) /\ InStep(b, b.scan, AfterReset, buf.total)
  BY <1>1, <1>3, FreshAgrees
<1> QED BY <1>3, <1>4 DEF b

LEMMA RemainderAgrees ==
  ASSUME Fits(buf), NEW size \in Nat, Whole(buf, size)
  PROVE  /\ Fits(Remainder(buf, size))
         /\ InStep(Remainder(buf, size), Remainder(buf, size).scan, AfterReset,
                   buf.start + size)
         /\ Remainder(buf, size).start = buf.start + size
         /\ Remainder(buf, size).len = buf.len - size
         /\ ~Remainder(buf, size).active /\ Remainder(buf, size).pending = None
         /\ Remainder(buf, size).scan = 0
<1> DEFINE b == Remainder(buf, size)
<1>1. /\ buf \in Buffers /\ buf.start + size \in Nat /\ buf.len - size \in Nat
      /\ buf.start + size + (buf.len - size) = buf.total
  BY BufferFields DEF Whole
<1>2. b = [buf EXCEPT !.scan = 0, !.speech = 0, !.silence = 0, !.active = FALSE,
                      !.len = buf.len - size, !.start = buf.start + size, !.pending = None]
  BY DEF Remainder, RemainderSameItem, VadReset
<1> HIDE DEF b
<1>3. /\ b \in Buffers /\ b.scan = 0 /\ b.speech = 0 /\ ~b.active /\ b.pending = None
      /\ b.len = buf.len - size /\ b.start = buf.start + size /\ b.total = buf.total
  BY <1>1, <1>2 DEF Buffers, None
<1>4. Fits(b) /\ InStep(b, b.scan, AfterReset, buf.start + size)
  BY <1>1, <1>3, FreshAgrees
<1> QED BY <1>3, <1>4 DEF b

\* session.update finds no audio, and so no speech.
LEMMA ResetAgrees ==
  ASSUME Agrees(buf, "receive", heard, cut), buf.len = 0
  PROVE  /\ Fits(VadReset(buf)) /\ InStep(VadReset(buf), VadReset(buf).scan, AfterReset, cut)
         /\ ~buf.active /\ ~VadReset(buf).active /\ buf.pending = None
         /\ VadReset(buf).pending = None
         /\ VadReset(buf).len = 0 /\ VadReset(buf).start = buf.start
<1> DEFINE b == VadReset(buf)
<1>1. Fits(buf) /\ buf \in Buffers /\ InStep(buf, buf.scan, heard, cut)
  BY DEF Agrees, Fits
<1>2. buf.scan = 0 /\ buf.speech \in Nat
  BY <1>1, BufferFields
<1>3. buf.speech = 0
  <2>1. buf.speech * FrameBytes <= 0
    BY <1>1, <1>2 DEF InStep
  <2>2. buf.speech # 0 => 1 * FrameBytes <= buf.speech * FrameBytes
    BY <1>2, Frames
  <2>3. 1 * FrameBytes = FrameBytes /\ FrameBytes \in Nat \ {0} /\ buf.speech * FrameBytes \in Nat
    BY <1>2, Frames
  <2> QED BY <2>1, <2>2, <2>3
<1>4. ~buf.active /\ buf.pending = None
  BY <1>1, <1>3, Frames DEF Fits
<1>5. b = [buf EXCEPT !.scan = 0, !.speech = 0, !.silence = 0, !.active = FALSE]
  BY DEF VadReset
<1> HIDE DEF b
<1>6. /\ b \in Buffers /\ b.scan = 0 /\ b.speech = 0 /\ ~b.active /\ b.pending = None
      /\ b.len = 0 /\ b.start = buf.start /\ b.total = buf.total
  BY <1>1, <1>4, <1>5 DEF Buffers
<1>7. b.start = cut \/ Retained(b) = 0
  <2>1. Retained(b) = Retained(buf)
    BY <1>3, <1>6 DEF Retained
  <2> QED BY <1>1, <1>2, <1>4, <1>6, <2>1 DEF InStep
<1>8. b.start + b.len = b.total
  BY <1>1, <1>6 DEF Fits
<1>9. Fits(b) /\ InStep(b, b.scan, AfterReset, cut)
  BY <1>6, <1>7, <1>8, FreshAgrees
<1> QED BY <1>4, <1>6, <1>9 DEF b

LEMMA BufferAgrees ==
  ASSUME BufferInv
  PROVE  /\ pc \in Open => Agrees(buf, pc, heard, cut)
         /\ pc \in Open /\ pc # "score" => Agrees(buf, "receive", heard, cut)
BY DEF BufferInv, Agrees

\* A step that leaves the audio alone.
LEMMA QuietBuffer ==
  ASSUME BufferInv, UNCHANGED <<buf, heard, cut, detects>>, auto' \in {auto, FALSE},
         pc' \in Open => pc \in Open /\ pc # "score" /\ pc' # "score",
         pc' \notin {"score", "committed"},
         pc' \in {"new", "created", "updated"} => pc \in {"new", "created", "updated"},
         AllRead' => AllRead,
         pc' \in {"started", "stopped"} \/ (pc' = "slot" /\ auto') => buf.active
  PROVE  BufferInv'
<1>1. /\ buf' = buf /\ heard' = heard /\ cut' = cut /\ detects' = detects
      /\ auto' \in BOOLEAN
  BY DEF BufferInv
<1>2. pc' \in Open => InStep(buf, buf.scan, heard, cut)
  BY DEF BufferInv
<1>3. Fits(buf)' /\ heard' \in Nat \cup {Nothing} /\ cut' \in Nat /\ (cut <= buf.start)'
  BY <1>1 DEF BufferInv
<1>4. pc' \in Open => InStep(buf, IF pc = "score" THEN buf.scan - FrameBytes ELSE buf.scan,
                             heard, cut)'
  BY <1>1, <1>2
<1>5. pc' \in {"new", "created", "updated"} => buf'.len = 0
  BY <1>1 DEF BufferInv
<1>6. (pc' \in Open /\ buf'.active) \/ pc' = "score" => detects'
  BY <1>1 DEF BufferInv
<1>7. detects' /\ AllRead' => ~FrameReady(buf')
  BY <1>1 DEF BufferInv
<1>8. pc' = "started" \/ pc' = "stopped" \/ (pc' = "slot" /\ auto') => buf'.active
  BY <1>1
<1> QED BY <1>1, <1>3, <1>4, <1>5, <1>6, <1>7, <1>8 DEF BufferInv

\* A step that ends with the next frame being scored, or with Serve receiving.
LEMMA DetectBuffer ==
  ASSUME BufferInv, NEW b, Fits(b), cut <= b.start, InStep(b, b.scan, heard', cut),
         Detect(b), b.active => detects, detects' = detects, cut' = cut,
         heard' \in Nat \cup {Nothing}, auto' \in BOOLEAN
  PROVE  BufferInv'
<1>1. /\ Agrees(buf', pc', heard', cut) /\ pc' \in {"score", "receive"}
      /\ pc' = "score" => detects
      /\ detects /\ pc' = "receive" => ~FrameReady(buf')
      /\ buf'.active = b.active
  BY DetectAgrees, DetectPhases
<1>2. Fits(buf)' /\ cut' \in Nat /\ (cut <= buf.start)'
  BY <1>1 DEF BufferInv, Agrees
<1>3. InStep(buf, IF pc = "score" THEN buf.scan - FrameBytes ELSE buf.scan, heard, cut)'
  BY <1>1 DEF Agrees
<1>4. (pc' \in Open /\ buf'.active) \/ pc' = "score" => detects'
  BY <1>1
<1>5. detects' /\ AllRead' => ~FrameReady(buf')
  BY <1>1 DEF AllRead
<1> QED BY <1>1, <1>2, <1>3, <1>4, <1>5 DEF BufferInv

\* What detection commits is never refused.
LEMMA DetectedIsWhole ==
  ASSUME BufferInv, pc \in {"stopped", "slot"}, auto
  PROVE  Whole(buf, buf.scan)
<1>1. Fits(buf) /\ buf.active /\ InStep(buf, buf.scan, heard, cut)
  BY DEF BufferInv, Open, Waits, SendsAt
<1>2. buf.speech >= StartFrames /\ buf.speech \in Nat /\ buf.speech * FrameBytes <= buf.scan
  BY <1>1, BufferFields DEF Fits, InStep
<1>3. 1 * FrameBytes <= buf.speech * FrameBytes
  BY <1>2, Frames
<1>4. 1 * FrameBytes = FrameBytes /\ FrameBytes \in Nat \ {0} /\ buf.speech * FrameBytes \in Nat
  BY <1>2, Frames
<1>5. buf.scan > 0
  BY <1>1, <1>2, <1>3, <1>4, BufferFields
<1> QED BY <1>1, <1>5, BufferFields DEF Whole

\* Once the session is about to end only the buffer itself is kept in order.
LEMMA FailingBuffer ==
  ASSUME BufferInv, pc' = "failing", Fits(buf'), heard' = heard,
         cut' \in Nat, cut' <= buf'.start, auto' \in BOOLEAN
  PROVE  BufferInv'
<1>1. Fits(buf)' /\ (cut <= buf.start)' /\ heard' \in Nat \cup {Nothing}
  BY DEF BufferInv
<1> QED BY <1>1 DEF BufferInv, Open, Waits, AllRead

LEMMA SnapshotBuffer ==
  ASSUME SessionInv, auto' \in BOOLEAN, NEW rest, Snapshot(rest), detects' = detects,
         \/ pc = "receive" /\ ~auto'
         \/ pc \in {"stopped", "slot"} /\ auto' = auto
  PROVE  BufferInv'
<1>1. BufferInv /\ Fits(buf) /\ pc \in Open /\ pc # "score"
  BY DEF SessionInv, BufferInv, Open, Waits, SendsAt
<1> DEFINE size == Size(buf, auto')
<1>2. CASE Whole(buf, size) /\ pc' = "committed"
  <2>1. /\ size \in Nat /\ buf' = Remainder(buf, size)
        /\ cut' = buf.start + size /\ heard' = AfterReset
    BY <1>2, SnapshotCases
  <2>2. /\ Fits(buf') /\ InStep(buf', buf'.scan, heard', cut') /\ cut' = buf'.start
        /\ ~buf'.active /\ buf'.len = buf.len - size /\ buf'.scan = 0
    BY <1>1, <1>2, <2>1, RemainderAgrees
  <2>3. ~auto' => ~FrameReady(buf')
    <3>1. ~auto' => size = buf.len /\ buf.len \in Nat
      BY <1>1, BufferFields DEF Size
    <3>2. ~auto' => buf'.len = 0
      BY <2>2, <3>1
    <3> QED BY <2>2, <3>2, Frames DEF FrameReady
  <2>4. cut' \in Nat /\ heard' \in Nat \cup {Nothing} /\ (cut <= buf.start)'
    <3>1. buf'.start \in Nat
      BY <2>2, BufferFields
    <3> QED BY <2>1, <2>2, <3>1 DEF AfterReset
  <2>5. detects' /\ AllRead' => ~FrameReady(buf')
    BY <1>2, <2>3 DEF AllRead
  <2> HIDE DEF size
  <2> QED BY <1>2, <2>2, <2>4, <2>5 DEF BufferInv
<1>3. CASE ~Whole(buf, size) /\ pc' = "reply"
  <2>1. UNCHANGED <<buf, heard, cut>>
    BY <1>3, SnapshotCases
  <2>2. ~auto'
    BY <1>1, <1>3, DetectedIsWhole DEF Size
  <2>3. auto' = FALSE
    BY <2>2
  <2>4. AllRead
    BY <2>2 DEF AllRead
  <2> QED BY <1>1, <1>3, <2>1, <2>3, <2>4, QuietBuffer
<1>4. CASE Whole(buf, size) /\ pc' = "failing"
  <2>1. /\ size \in Nat /\ buf' = Remainder(buf, size)
        /\ cut' = buf.start + size /\ heard' = heard
    BY <1>4, SnapshotCases
  <2>2. Fits(buf') /\ buf'.start = cut'
    BY <1>1, <1>4, <2>1, RemainderAgrees
  <2>3. buf'.start \in Nat
    BY <2>2, BufferFields
  <2> QED BY <1>1, <1>4, <2>1, <2>2, <2>3, FailingBuffer
<1> QED BY <1>2, <1>3, <1>4, SnapshotCases

LEMMA CommitBuffer ==
  ASSUME SessionInv, auto' \in BOOLEAN, NEW rest, Commit(rest), detects' = detects,
         \/ pc = "receive" /\ ~auto'
         \/ pc = "stopped" /\ auto' = auto
  PROVE  BufferInv'
<1>1. CASE Snapshot(rest)
  BY <1>1, SnapshotBuffer
<1>2. CASE pc' = "slot" /\ UNCHANGED <<buf, heard, cut>>
  <2>1. BufferInv /\ pc \in Open /\ pc # "score"
    BY DEF SessionInv, Open, Waits, SendsAt
  <2>2. AllRead' => AllRead
    BY <1>2 DEF AllRead
  <2>3. auto' => buf.active
    BY <2>1 DEF BufferInv
  <2> QED BY <1>2, <2>1, <2>2, <2>3, QuietBuffer
<1> QED BY <1>1, <1>2 DEF Commit

LEMMA OutsideBuffer ==
  ASSUME SessionInv, Outside
  PROVE  BufferInv'
<1>1. /\ BufferInv /\ Fits(buf) /\ cut <= buf.start /\ cut \in Nat
      /\ auto \in BOOLEAN /\ detects \in BOOLEAN
      /\ pc = "receive" => Agrees(buf, "receive", heard, cut)
  BY BufferAgrees DEF SessionInv, BufferInv, HoldInv, Open, Waits
<1>2. CASE Connect \/ Complain \/ Reject \/ Disconnect \/ Deadline \/ Cancel
  <2>1. /\ UNCHANGED audioVars /\ UNCHANGED configVars
        /\ \/ pc = "new" /\ pc' \in {"created", "done"}
           \/ pc = "receive" /\ pc' = "reply"
           \/ pc' \in {"failing", "gather"}
    BY <1>2 DEF Connect, Complain, Reject, Fail, Disconnect, Deadline, Cancel, Teardown
  <2>2. UNCHANGED <<buf, heard, cut, detects>> /\ auto' = auto
    BY <2>1 DEF audioVars, configVars
  <2>3. /\ pc' \in Open => pc \in Open /\ pc # "score" /\ pc' # "score"
        /\ pc' \notin {"score", "committed"}
        /\ pc' \in {"new", "created", "updated"} => pc \in {"new", "created", "updated"}
        /\ AllRead' => AllRead
        /\ pc' \notin {"started", "stopped", "slot"}
    BY <2>1 DEF Open, Waits, SendsAt, AllRead
  <2> QED BY <1>1, <2>2, <2>3, QuietBuffer
<1>3. CASE Update /\ pc' # "failing"
  <2>1. /\ pc = "receive" /\ buf.len = 0 /\ buf' = VadReset(buf) /\ heard' = AfterReset
        /\ cut' = cut /\ auto' = auto /\ detects' \in BOOLEAN
        /\ pc' = "updated"
    BY <1>3 DEF Update
  <2>2. /\ Fits(buf') /\ InStep(buf', buf'.scan, heard', cut') /\ ~buf'.active
        /\ buf'.len = 0 /\ buf'.start = buf.start
    BY <1>1, <2>1, ResetAgrees
  <2>3. ~FrameReady(buf')
    BY <2>2, BufferFields, Frames DEF FrameReady
  <2>4. heard' \in Nat \cup {Nothing}
    BY <2>1 DEF AfterReset
  <2>5. Fits(buf)' /\ (cut <= buf.start)' /\ cut' \in Nat
    BY <1>1, <2>1, <2>2
  <2>6. InStep(buf, IF pc = "score" THEN buf.scan - FrameBytes ELSE buf.scan, heard, cut)'
    BY <2>1, <2>2
  <2> QED BY <1>1, <2>1, <2>2, <2>3, <2>4, <2>5, <2>6 DEF BufferInv
<1>4. CASE Clear /\ pc' # "failing"
  <2>1. /\ buf' = Cleared(buf) /\ heard' = AfterReset /\ cut' = buf.total /\ auto' = auto
        /\ detects' = detects /\ pc' = "reply"
    BY <1>4 DEF Clear, Fail, configVars
  <2>2. /\ Fits(buf') /\ InStep(buf', buf'.scan, heard', cut') /\ ~buf'.active
        /\ buf'.len = 0 /\ buf'.start = cut' /\ cut' \in Nat
    BY <1>1, <2>1, ClearedAgrees, BufferFields
  <2>3. ~FrameReady(buf')
    BY <2>2, BufferFields, Frames DEF FrameReady
  <2>4. heard' \in Nat \cup {Nothing}
    BY <2>1 DEF AfterReset
  <2>5. Fits(buf)' /\ (cut <= buf.start)'
    BY <2>2
  <2>6. InStep(buf, IF pc = "score" THEN buf.scan - FrameBytes ELSE buf.scan, heard, cut)'
    BY <2>1, <2>2
  <2> QED BY <1>1, <2>1, <2>2, <2>3, <2>4, <2>5, <2>6 DEF BufferInv
<1>5. CASE ManualCommit
  <2>1. pc = "receive"
    BY <1>5 DEF ManualCommit
  <2>2. CASE buf.active /\ Stop(buf, buf.total, FALSE) /\ UNCHANGED heard
    <3>1. /\ UNCHANGED <<buf, heard, cut, detects>> /\ auto' = FALSE /\ pc' = "stopped"
      BY <2>2 DEF Stop, configVars
    <3>2. AllRead /\ pc \in Open /\ pc # "score"
      BY <2>1 DEF AllRead, Open, Waits
    <3> QED BY <1>1, <2>2, <3>1, <3>2, QuietBuffer
  <2>3. CASE auto' = FALSE /\ Commit(line)
    <3>1. detects' = detects
      BY <2>3 DEF Commit, configVars
    <3> QED BY <2>1, <2>3, <3>1, CommitBuffer
  <2> QED BY <1>5, <2>2, <2>3 DEF ManualCommit
<1>6. CASE \E size \in Sizes : Receive(size)
  <2>1. PICK size \in Sizes : Receive(size)
    BY <1>6
  <2>2. /\ size \in Nat /\ pc = "receive" /\ Detect(Appended(buf, size))
        /\ UNCHANGED <<heard, cut, auto, detects>>
    BY <2>1, SessionAssumption DEF Receive, SessionAssumption, configVars
  <2>3. /\ Fits(Appended(buf, size)) /\ Appended(buf, size).start = buf.start
        /\ Appended(buf, size).scan = buf.scan /\ Appended(buf, size).active = buf.active
        /\ InStep(Appended(buf, size), buf.scan, heard, cut)
    BY <1>1, <2>2, AppendedFits DEF Agrees
  <2>4. buf.active => detects
    BY <1>1, <2>2 DEF BufferInv, Open, Waits
  <2>5. InStep(Appended(buf, size), Appended(buf, size).scan, heard', cut)
    BY <2>2, <2>3
  <2>6. heard' \in Nat \cup {Nothing}
    BY <1>1, <2>2 DEF BufferInv
  <2> QED BY <1>1, <2>2, <2>3, <2>4, <2>5, <2>6, DetectBuffer
<1>7. CASE (Update \/ Clear) /\ pc' = "failing"
  <2>1. /\ heard' = heard /\ auto' = auto
        /\ \/ buf' = VadReset(buf) /\ cut' = cut /\ pc = "receive" /\ buf.len = 0
           \/ buf' = Cleared(buf) /\ cut' = buf.total
    BY <1>7 DEF Update, Clear
  <2>2. Fits(buf') /\ cut' \in Nat /\ cut' <= buf'.start
    <3>1. buf.start \in Nat /\ buf.total \in Nat
      BY <1>1, BufferFields
    <3> QED BY <1>1, <2>1, <3>1, ResetAgrees, ClearedAgrees
  <2> QED BY <1>1, <1>7, <2>1, <2>2, FailingBuffer
<1> QED BY <1>2, <1>3, <1>4, <1>5, <1>6, <1>7 DEF Outside

LEMMA ScoredBuffer ==
  ASSUME SessionInv, NEW isSpeech \in BOOLEAN, FrameScored(isSpeech)
  PROVE  BufferInv'
<1> DEFINE b == Judged(isSpeech)
<1>1. /\ BufferInv /\ Fits(buf) /\ cut <= buf.start /\ cut \in Nat
      /\ auto \in BOOLEAN /\ detects \in BOOLEAN /\ detects
      /\ pc = "score" /\ Agrees(buf, "score", heard, cut)
      /\ heard' = FrameEnd(buf)
  BY BufferAgrees DEF FrameScored, SessionInv, BufferInv, HoldInv, Open, Waits
<1>2. /\ b.active = buf.active /\ b.scan = buf.scan /\ b.start = buf.start
  BY <1>1, JudgedFields
<1>3. heard' \in Nat /\ heard' \in Nat \cup {Nothing}
  BY <1>1, JudgedBytes
<1>4. \/ ~b.active /\ b.speech < StartFrames  /\ GoesOn(Trimmed(b))
      \/ ~b.active /\ b.speech >= StartFrames /\ SpeechStarts(b)
      \/ b.active  /\ b.silence < StopFrames  /\ GoesOn(b)
      \/ b.active  /\ b.silence >= StopFrames /\ Stop(b, FrameEnd(b), TRUE)
  BY DEF FrameScored
<1>5. CASE ~b.active /\ b.speech < StartFrames /\ GoesOn(Trimmed(b))
  <2>1. /\ Fits(Trimmed(b)) /\ cut <= Trimmed(b).start /\ ~Trimmed(b).active
        /\ InStep(Trimmed(b), Trimmed(b).scan, heard', cut)
    BY <1>1, <1>2, <1>5, TrimmedAgrees
  <2>2. Detect(Trimmed(b)) /\ UNCHANGED <<cut, auto, detects>>
    BY <1>5 DEF GoesOn, configVars
  <2> HIDE DEF b
  <2> QED BY <1>1, <1>3, <2>1, <2>2, DetectBuffer
<1>6. CASE ~b.active /\ b.speech >= StartFrames /\ SpeechStarts(b)
  <2>1. NewItem \in Nat \ {None}
    <3>1. Len(told) \in Nat
      BY DEF SessionInv, ItemsInv
    <3> QED BY <3>1 DEF NewItem, None
  <2>2. /\ buf' = [b EXCEPT !.active = TRUE, !.pending = NewItem]
        /\ pc' = "started" /\ UNCHANGED <<cut, auto, detects>>
    BY <1>6 DEF SpeechStarts, configVars
  <2>3. /\ Fits(buf') /\ cut <= buf'.start /\ buf'.active /\ InStep(buf', buf'.scan, heard', cut)
    BY <1>1, <1>2, <1>6, <2>1, <2>2, StartAgrees
  <2>4. Fits(buf)' /\ (cut <= buf.start)'
    BY <2>2, <2>3
  <2>5. InStep(buf, IF pc = "score" THEN buf.scan - FrameBytes ELSE buf.scan, heard, cut)'
    BY <2>2, <2>3
  <2>6. ~AllRead'
    BY <2>2 DEF AllRead
  <2> QED BY <1>1, <1>3, <2>2, <2>3, <2>4, <2>5, <2>6 DEF BufferInv
<1>7. CASE b.active /\ GoesOn(b)
  <2>1. /\ Fits(b) /\ cut <= b.start /\ InStep(b, b.scan, heard', cut)
    BY <1>1, <1>2, <1>7, ActiveAgrees
  <2>2. Detect(b) /\ UNCHANGED <<cut, auto, detects>>
    BY <1>7 DEF GoesOn, configVars
  <2> HIDE DEF b
  <2> QED BY <1>1, <1>3, <2>1, <2>2, DetectBuffer
<1>8. CASE b.active /\ Stop(b, FrameEnd(b), TRUE)
  <2>1. /\ Fits(b) /\ cut <= b.start /\ InStep(b, b.scan, heard', cut)
    BY <1>1, <1>2, <1>8, ActiveAgrees
  <2>2. buf' = b /\ pc' = "stopped" /\ auto' = TRUE /\ UNCHANGED <<cut, detects>>
    BY <1>8 DEF Stop, configVars
  <2> HIDE DEF b
  <2>3. Fits(buf)' /\ (cut <= buf.start)'
    BY <2>1, <2>2
  <2>4. InStep(buf, IF pc = "score" THEN buf.scan - FrameBytes ELSE buf.scan, heard, cut)'
    BY <2>1, <2>2
  <2>5. ~AllRead'
    BY <2>2 DEF AllRead
  <2> QED BY <1>1, <1>3, <1>8, <2>2, <2>3, <2>4, <2>5 DEF BufferInv
<1> QED BY <1>4, <1>5, <1>6, <1>7, <1>8

LEMMA InsideBuffer ==
  ASSUME SessionInv, StoppedSent \/ ServeSent \/ SlotFrees \/ Closed \/ Release \/ Obtain
  PROVE  BufferInv'
<1>1. BufferInv /\ auto \in BOOLEAN
  BY DEF SessionInv, BufferInv
<1>2. CASE StoppedSent
  <2>1. pc = "stopped" /\ auto' = auto /\ Commit(LeaveLine) /\ detects' = detects
    BY <1>2 DEF StoppedSent, Commit, configVars
  <2> QED BY <1>1, <2>1, CommitBuffer
<1>3. CASE SlotFrees
  <2>1. pc = "slot" /\ auto' = auto /\ Snapshot(line) /\ detects' = detects
    BY <1>3 DEF SlotFrees, configVars
  <2> QED BY <1>1, <2>1, SnapshotBuffer
<1>4. CASE ServeSent
  <2>1. auto' = FALSE /\ UNCHANGED <<heard, cut, detects>>
    BY <1>4 DEF ServeSent, configVars
  <2>2. CASE Detect(buf) /\ pc \in {"started", "committed"}
    <3>1. /\ Fits(buf) /\ cut <= buf.start /\ InStep(buf, buf.scan, heard, cut)
          /\ buf.active => detects
          /\ heard \in Nat \cup {Nothing}
      BY <1>1, <2>2 DEF BufferInv, Open, Waits, SendsAt
    <3> QED BY <1>1, <2>1, <2>2, <3>1, DetectBuffer
  <2>3. CASE /\ UNCHANGED buf
             /\ \/ pc \in {"created", "reply", "updated"} /\ pc' = "receive"
                \/ pc = "committed" /\ ~auto /\ pc' = "receive"
                \/ pc = "failing" /\ pc' = "closing"
    <3>1. /\ pc' \in Open => pc \in Open /\ pc # "score" /\ pc' # "score"
          /\ pc' \notin {"score", "committed"}
          /\ AllRead' => AllRead
          /\ pc' \notin {"new", "created", "updated", "started", "stopped", "slot"}
      BY <2>3 DEF Open, Waits, SendsAt, AllRead
    <3> QED BY <1>1, <2>1, <2>3, <3>1, QuietBuffer
  <2> QED BY <1>4, <2>2, <2>3 DEF ServeSent
<1>5. CASE Closed \/ Release \/ Obtain
  <2>1. /\ UNCHANGED audioVars /\ UNCHANGED configVars
        /\ pc' = pc \/ pc' \in {"gather", "done"}
    BY <1>5 DEF Closed, Release, Obtain, Teardown
  <2>2. CASE pc' = pc
    BY <1>1, <2>1, <2>2 DEF BufferInv, audioVars, configVars, AllRead
  <2>3. CASE pc' \in {"gather", "done"}
    <3>1. UNCHANGED <<buf, heard, cut, detects>> /\ auto' = auto
      BY <2>1 DEF audioVars, configVars
    <3>2. pc' \notin Open /\ ~AllRead'
      BY <2>3 DEF Open, Waits, SendsAt, AllRead
    <3> QED BY <1>1, <2>3, <3>1, <3>2, QuietBuffer
  <2> QED BY <2>1, <2>2, <2>3
<1> QED BY <1>2, <1>3, <1>4, <1>5

LEMMA TurnBuffers ==
  ASSUME SessionInv, NEW t \in Turns, Turn(t)
  PROVE  BufferInv' /\ HoldInv'
<1>1. UNCHANGED <<pc, audioVars, configVars, holdVars>>
  BY DEF Turn, TurnReturns, TurnSent, TurnUnwinds
<1>2. BufferInv'
  BY <1>1 DEF SessionInv, BufferInv, audioVars, configVars, AllRead
<1>3. HoldInv'
  BY <1>1 DEF SessionInv, HoldInv, holdVars, configVars
<1> QED BY <1>2, <1>3

-----------------------------------------------------------------------------
(* The third layer: what was told of the items.                             *)

\* May an event of an item come after another?
Follows(first, then) ==
  \/ first = "stopped" /\ then = "stopped"
  \/ /\ Ranks[first] < Ranks[then]
     /\ first # "cleared"
     /\ first = "delta" => then # "failed"

Ordered(s) == \A i, j \in 1..Len(s) : i < j => Follows(s[i].kind, s[j].kind)

LEMMA OrderOfEvents ==
  ItemEventsInOrder <=> \A item \in 1..Len(told) : Ordered(told[item])
BY DEF ItemEventsInOrder, Ordered, Follows

\* Which events may come after which.
LEMMA Following ==
  ASSUME NEW k
  PROVE  /\ k \in Unsaid => Follows(k, "committed") /\ Follows(k, "cleared")
         /\ k \in Unsaid => Follows(k, "stopped")
         /\ k \in Committed => Follows(k, "delta") /\ Follows(k, "failed")
         /\ k \in Committed \cup {"delta"} => Follows(k, "completed")
<1>1. /\ Ranks["started"] = 1 /\ Ranks["stopped"] = 2 /\ Ranks["committed"] = 3
      /\ Ranks["cleared"] = 3 /\ Ranks["delta"] = 4 /\ Ranks["completed"] = 5
      /\ Ranks["failed"] = 5
  BY DEF Ranks
<1>2. k \in Unsaid => Follows(k, "committed") /\ Follows(k, "cleared") /\ Follows(k, "stopped")
  BY <1>1 DEF Unsaid, Follows
<1>3. k \in Committed => Follows(k, "delta") /\ Follows(k, "failed") /\ Follows(k, "completed")
  BY <1>1 DEF Committed, Unsaid, Follows
<1>4. Follows("delta", "completed")
  BY <1>1 DEF Follows
<1> QED BY <1>2, <1>3, <1>4

LEMMA KindNames ==
  {"started", "stopped", "committed", "cleared", "delta", "completed", "failed"}
    \subseteq DOMAIN Ranks
BY DEF Ranks

LEMMA OrderedAppend ==
  ASSUME NEW s \in Seq(ItemEvents), NEW r \in ItemEvents
  PROVE  /\ Append(s, r) \in Seq(ItemEvents)
         /\ Range(Append(s, r)) = Range(s) \cup {r}
         /\ Ordered(s) /\ (\A e \in Range(s) : Follows(e.kind, r.kind)) =>
              Ordered(Append(s, r))
<1> DEFINE n == Len(s)  a == Append(s, r)
<1>1. /\ n \in Nat /\ DOMAIN s = 1..n /\ a \in Seq(ItemEvents) /\ Len(a) = n + 1
      /\ DOMAIN a = 1..(n + 1) /\ \A i \in 1..n : a[i] = s[i]
      /\ a[n + 1] = r
  OBVIOUS
<1> HIDE DEF n, a
<1>2. 1..(n + 1) = 1..n \cup {n + 1}
  BY <1>1
<1>3. Range(a) = Range(s) \cup {r}
  BY <1>1, <1>2 DEF Range
<1>4. ASSUME Ordered(s), \A e \in Range(s) : Follows(e.kind, r.kind)
      PROVE  Ordered(a)
  <2>1. SUFFICES ASSUME NEW i \in 1..(n + 1), NEW j \in 1..(n + 1), i < j
                 PROVE  Follows(a[i].kind, a[j].kind)
    BY <1>1 DEF Ordered
  <2>2. i \in 1..n /\ a[i] = s[i] /\ s[i] \in Range(s)
    BY <1>1, <2>1 DEF Range
  <2>3. CASE j \in 1..n
    <3>1. Follows(s[i].kind, s[j].kind)
      BY <1>4, <2>1, <2>2, <2>3 DEF Ordered, n
    <3> QED BY <1>1, <2>2, <2>3, <3>1
  <2>4. CASE j = n + 1
    BY <1>1, <1>4, <2>2, <2>4
  <2> QED BY <1>2, <2>3, <2>4
<1> QED BY <1>1, <1>3, <1>4 DEF a

LEMMA KnownItem ==
  ASSUME told \in Seq(Seq(ItemEvents)), NEW item \in 1..(Len(told) + 1)
  PROVE  /\ Known(item) \in Seq(Seq(ItemEvents)) /\ item \in 1..Len(Known(item))
         /\ Len(Known(item)) = IF item = Len(told) + 1 THEN Len(told) + 1 ELSE Len(told)
         /\ \A i \in 1..Len(told) : Known(item)[i] = told[i]
         /\ item = Len(told) + 1 => Known(item)[item] = <<>>
<1>1. Len(told) \in Nat /\ <<>> \in Seq(ItemEvents)
  OBVIOUS
<1>2. CASE item = Len(told) + 1
  <2>1. Known(item) = Append(told, <<>>)
    BY <1>1, <1>2 DEF Known
  <2>2. /\ Append(told, <<>>) \in Seq(Seq(ItemEvents))
        /\ Len(Append(told, <<>>)) = Len(told) + 1
        /\ \A i \in 1..Len(told) : Append(told, <<>>)[i] = told[i]
        /\ Append(told, <<>>)[Len(told) + 1] = <<>>
    BY <1>1
  <2> QED BY <1>1, <1>2, <2>1, <2>2
<1>3. CASE item \in 1..Len(told)
  <2>1. Known(item) = told
    BY <1>1, <1>3 DEF Known
  <2>2. item # Len(told) + 1
    BY <1>1, <1>3
  <2> QED BY <1>3, <2>1, <2>2
<1>4. item = Len(told) + 1 \/ item \in 1..Len(told)
  BY <1>1
<1> QED BY <1>2, <1>3, <1>4

\* What Join may do to what was told.
LEMMA ToldMore ==
  ASSUME told \in Seq(Seq(ItemEvents)), NEW item \in 1..(Len(told) + 1),
         NEW kind \in DOMAIN Ranks, NEW at \in Nat,
         told' = Told(Event(kind, item, at)) \/ told' = Known(item)
  PROVE  /\ told' \in Seq(Seq(ItemEvents)) /\ Len(told) \in Nat /\ Len(told') \in Nat
         /\ Len(told) <= Len(told') /\ Len(told') <= Len(told) + 1
         /\ item <= Len(told) => Len(told') = Len(told)
         /\ told' = Known(item) \/ Connected => item \in 1..Len(told')
         /\ \A i : i # item => Events(i)' = Events(i)
         /\ \/ Events(item)' = Events(item)
            \/ Events(item)' = Append(Events(item), [kind |-> kind, at |-> at])
         /\ told' = Known(item) => Events(item)' = Events(item)
         /\ \A i : Events(i) \in Seq(ItemEvents)
<1> DEFINE r == [kind |-> kind, at |-> at]  K == Known(item)
<1>0. Len(told) \in Nat
  OBVIOUS
<1>1. /\ K \in Seq(Seq(ItemEvents)) /\ item \in 1..Len(K) /\ Len(told) \in Nat
      /\ Len(K) = IF item = Len(told) + 1 THEN Len(told) + 1 ELSE Len(told)
      /\ \A i \in 1..Len(told) : K[i] = told[i]
      /\ item = Len(told) + 1 => K[item] = <<>>
  BY <1>0, KnownItem
<1>2. r \in ItemEvents
  BY DEF ItemEvents
<1>3. \A i : Events(i) \in Seq(ItemEvents)
  BY DEF Events
<1>4. /\ K[item] = Events(item)
      /\ \A i : i # item => (i \in 1..Len(K) <=> i \in 1..Len(told))
  BY <1>1 DEF Events
<1>5. told' \in {told, K, [K EXCEPT ![item] = Append(@, r)]}
      /\ (told' = told => told' = K \/ ~Connected)
  <2>1. /\ Event(kind, item, at).item = item /\ Event(kind, item, at).kind = kind
        /\ Event(kind, item, at).at = at
    BY DEF Event
  <2>2. item # None
    BY <1>1 DEF None
  <2>3. Told(Event(kind, item, at)) = IF ~Connected THEN told
                                      ELSE [K EXCEPT ![item] = Append(@, r)]
    BY <2>1, <2>2 DEF Told
  <2>4. [K EXCEPT ![item] = Append(@, r)] # told
    <3>1. [K EXCEPT ![item] = Append(@, r)][item] = Append(K[item], r)
      BY <1>1
    <3>2. CASE item = Len(told) + 1
      <4>1. item \in DOMAIN [K EXCEPT ![item] = Append(@, r)] /\ item \notin DOMAIN told
        BY <1>1, <3>2
      <4> QED BY <4>1
    <3>3. CASE item \in 1..Len(told)
      <4>1. K[item] = told[item] /\ told[item] \in Seq(ItemEvents)
        BY <1>1, <3>3
      <4>2. Len(Append(told[item], r)) = Len(told[item]) + 1 /\ Len(told[item]) \in Nat
        BY <4>1
      <4>3. Append(told[item], r) # told[item]
        BY <4>2
      <4> QED BY <3>1, <4>1, <4>3
    <3> QED BY <1>1, <3>2, <3>3
  <2> QED BY <2>3, <2>4
<1> HIDE DEF K, r
<1>6. CASE told' = K
  <2>1. \A i : Events(i)' = Events(i)
    BY <1>1, <1>4, <1>6 DEF Events
  <2> QED BY <1>1, <1>3, <1>6, <2>1 DEF K
<1>7. CASE told' = [K EXCEPT ![item] = Append(@, r)] /\ told' # K
  <2>1. K[item] \in Seq(ItemEvents) /\ Append(K[item], r) \in Seq(ItemEvents)
    BY <1>1, <1>2
  <2>2. /\ told' \in Seq(Seq(ItemEvents)) /\ Len(told') = Len(K)
        /\ told'[item] = Append(K[item], r)
        /\ \A i \in 1..Len(K) : i # item => told'[i] = K[i]
    BY <1>1, <1>7, <2>1
  <2>3. Events(item)' = Append(Events(item), r)
    BY <1>1, <1>4, <2>2 DEF Events
  <2>4. \A i : i # item => Events(i)' = Events(i)
    BY <1>1, <1>4, <2>2 DEF Events
  <2>5. told' # Known(item)
    BY <1>7 DEF K
  <2>6. /\ Len(told') \in Nat /\ Len(told) <= Len(told') /\ Len(told') <= Len(told) + 1
        /\ item <= Len(told) => Len(told') = Len(told)
        /\ item \in 1..Len(told')
    BY <1>1, <2>2
  <2> QED BY <1>1, <1>3, <2>2, <2>3, <2>4, <2>5, <2>6 DEF r
<1>8. CASE told' = told /\ told' # K
  <2>1. \A i : Events(i)' = Events(i)
    BY <1>8 DEF Events
  <2>2. told' # Known(item) /\ ~Connected
    BY <1>5, <1>8 DEF K
  <2> QED BY <1>1, <1>3, <1>8, <2>1, <2>2
<1> QED BY <1>5, <1>6, <1>7, <1>8

\* An event that may follow keeps the order.
LEMMA SaysItem ==
  ASSUME ItemsInv, NEW item \in 1..(Len(told) + 1),
         NEW kind \in DOMAIN Ranks, NEW at \in Nat,
         told' = Told(Event(kind, item, at)) \/ told' = Known(item),
         told' # Known(item) => \A k \in Kinds(item) : Follows(k, kind)
  PROVE  /\ told' \in Seq(Seq(ItemEvents)) /\ Len(told) \in Nat /\ Len(told') \in Nat
         /\ Len(told) <= Len(told') /\ Len(told') <= Len(told) + 1
         /\ item <= Len(told) => Len(told') = Len(told)
         /\ told' = Known(item) \/ Connected => item \in 1..Len(told')
         /\ ItemEventsInOrder'
         /\ \A i : i # item => Events(i)' = Events(i) /\ Kinds(i)' = Kinds(i)
         /\ Kinds(item)' = Kinds(item) \/ Kinds(item)' = Kinds(item) \cup {kind}
         /\ told' = Known(item) =>
              Kinds(item)' = Kinds(item) /\ Events(item)' = Events(item)
         /\ \/ Range(Events(item))' = Range(Events(item))
            \/ Range(Events(item))' = Range(Events(item)) \cup {[kind |-> kind, at |-> at]}
<1> DEFINE r == [kind |-> kind, at |-> at]
<1>1. told \in Seq(Seq(ItemEvents)) /\ ItemEventsInOrder
  BY DEF ItemsInv
<1>2. /\ told' \in Seq(Seq(ItemEvents)) /\ Len(told) \in Nat /\ Len(told') \in Nat
      /\ Len(told) <= Len(told') /\ Len(told') <= Len(told) + 1
      /\ item <= Len(told) => Len(told') = Len(told)
      /\ told' = Known(item) \/ Connected => item \in 1..Len(told')
      /\ \A i : i # item => Events(i)' = Events(i)
      /\ Events(item)' = Events(item) \/ Events(item)' = Append(Events(item), r)
      /\ told' = Known(item) => Events(item)' = Events(item)
      /\ \A i : Events(i) \in Seq(ItemEvents)
  BY <1>1, ToldMore
<1>3. r \in ItemEvents /\ r.kind = kind
  BY DEF ItemEvents
<1> HIDE DEF r
<1>4. \A i : Events(i)' = Events(i) => Kinds(i)' = Kinds(i)
  BY DEF Kinds
<1>5. ASSUME Events(item)' = Append(Events(item), r)
      PROVE  /\ Range(Events(item))' = Range(Events(item)) \cup {r}
             /\ Kinds(item)' = Kinds(item) \cup {kind}
  <2>1. Range(Append(Events(item), r)) = Range(Events(item)) \cup {r}
    BY <1>2, <1>3, OrderedAppend
  <2>2. Range(Events(item))' = Range(Events(item)) \cup {r}
    BY <1>5, <2>1
  <2> QED BY <1>3, <2>2 DEF Kinds
<1>6. \A i : Ordered(Events(i))
  <2>1. Ordered(<<>>)
    BY DEF Ordered
  <2> QED BY <1>1, <2>1, OrderOfEvents DEF Events
<1>7. \A i : Ordered(Events(i)')
  <2>1. ASSUME NEW i, Events(i)' = Events(i)
        PROVE  Ordered(Events(i)')
    BY <1>6, <2>1
  <2>2. ASSUME Events(item)' = Append(Events(item), r), told' # Known(item)
        PROVE  Ordered(Events(item)')
    <3>1. \A e \in Range(Events(item)) : Follows(e.kind, r.kind)
      BY <1>3, <2>2 DEF Kinds
    <3>2. Ordered(Append(Events(item), r))
      BY <1>2, <1>3, <1>6, <3>1, OrderedAppend
    <3> QED BY <2>2, <3>2
  <2> QED BY <1>2, <2>1, <2>2
<1>8. ItemEventsInOrder'
  <2>1. \A i \in 1..Len(told') : told'[i] = Events(i)'
    BY DEF Events
  <2>2. \A i \in 1..Len(told') : Ordered(told'[i])
    BY <1>7, <2>1
  <2> QED BY <2>2 DEF ItemEventsInOrder, Ordered, Follows
<1>9. /\ Kinds(item)' = Kinds(item) \/ Kinds(item)' = Kinds(item) \cup {kind}
      /\ \/ Range(Events(item))' = Range(Events(item))
         \/ Range(Events(item))' = Range(Events(item)) \cup {r}
  BY <1>2, <1>4, <1>5
<1> QED BY <1>2, <1>4, <1>8, <1>9 DEF r

\* What was said of a turn's item fits where its task is.
SaidOfTurn(t) ==
  /\ turns[t].at \in {"snapshot", "work"} => Kinds(turns[t].item) \subseteq Committed
  /\ turns[t].at \in {"delta", "failed"} /\ ~Sends(t) =>
       Kinds(turns[t].item) \subseteq Committed
  /\ turns[t].at = "delta" \/ (turns[t].at = "completed" /\ ~Sends(t)) =>
       Kinds(turns[t].item) \subseteq Committed \cup {"delta"}

LEMMA ItemsInvParts ==
  ItemsInv <=>
    /\ told \in Seq(Seq(ItemEvents)) /\ ItemEventsInOrder /\ buf.pending \in 0..Len(told)
    /\ \A t \in Turns : /\ turns[t].item \in 1..Len(told) /\ turns[t].item # buf.pending
                        /\ \A u \in Turns : turns[u].item = turns[t].item => u = t
    /\ buf.pending # None => Kinds(buf.pending) \subseteq Unsaid
    /\ \A t \in Turns : SaidOfTurn(t)
BY DEF ItemsInv, SaidOfTurn

\* Whose events: an item named in the next state.
LEMMA NextItems ==
  ASSUME NEW x
  PROVE  /\ \A t : turns'[t].item = x => Kinds(turns[t].item)' = Kinds(x)'
         /\ buf'.pending = x => Kinds(buf.pending)' = Kinds(x)'
         /\ reply'.item = x => Kinds(reply.item)' = Kinds(x)'
         /\ told' = told => Kinds(x)' = Kinds(x)
BY DEF Kinds, Events

LEMMA TurnKept ==
  ASSUME ItemsInv, NEW t \in Turns, NEW x, x = turns[t].item, turns'[t].item = x,
         Kinds(x)' = Kinds(x),
         \/ turns'[t].at = turns[t].at /\ (Sends(t)' <=> Sends(t))
         \/ turns'[t].at \in {"cancelled", "done"}
         \/ turns[t].at = "snapshot" /\ turns'[t].at = "work"
  PROVE  SaidOfTurn(t)'
<1>1. Kinds(turns[t].item)' = Kinds(turns[t].item)
  BY NextItems
<1>2. SaidOfTurn(t)
  BY ItemsInvParts
<1>3. CASE turns'[t].at = turns[t].at /\ (Sends(t)' <=> Sends(t))
  BY <1>1, <1>2, <1>3 DEF SaidOfTurn
<1>4. CASE turns'[t].at \in {"cancelled", "done"}
  BY <1>4 DEF SaidOfTurn
<1>5. CASE turns[t].at = "snapshot" /\ turns'[t].at = "work"
  BY <1>1, <1>2, <1>5 DEF SaidOfTurn
<1> QED BY <1>3, <1>4, <1>5

\* Nothing is said of an item.
LEMMA QuietItems ==
  ASSUME ItemsInv, told' = told, buf'.pending \in {buf.pending, None}, Turns' = Turns,
         \A t \in Turns :
           /\ turns'[t].item = turns[t].item
           /\ \/ turns'[t].at = turns[t].at /\ (Sends(t)' <=> Sends(t))
              \/ turns'[t].at \in {"cancelled", "done"}
              \/ turns[t].at = "snapshot" /\ turns'[t].at = "work"
  PROVE  ItemsInv'
<1>1. \A t \in Turns' : SaidOfTurn(t)'
  <2>1. SUFFICES ASSUME NEW t \in Turns
                 PROVE  SaidOfTurn(t)'
    OBVIOUS
  <2>2. PICK x : x = turns[t].item
    OBVIOUS
  <2>3. Kinds(x)' = Kinds(x)
    BY NextItems
  <2> QED BY <2>2, <2>3, TurnKept
<1>2. ASSUME buf'.pending # None
      PROVE  Kinds(buf.pending)' \subseteq Unsaid
  <2>1. PICK x : x = buf.pending
    OBVIOUS
  <2>2. buf'.pending = x /\ buf.pending # None
    BY <1>2, <2>1
  <2>3. Kinds(buf.pending)' = Kinds(buf.pending)
    BY <2>1, <2>2, NextItems
  <2> QED BY <2>2, <2>3 DEF ItemsInv
<1>3. ItemEventsInOrder'
  BY DEF ItemsInv, ItemEventsInOrder
<1>4. Len(told) \in Nat /\ (buf.pending \in 0..Len(told))'
  BY DEF ItemsInv, None
<1>5. \A t \in Turns' :
        /\ (turns[t].item \in 1..Len(told) /\ turns[t].item # buf.pending)'
        /\ \A u \in Turns' : turns'[u].item = turns'[t].item => u = t
  BY <1>4 DEF ItemsInv, None
<1> QED BY <1>1, <1>2, <1>3, <1>4, <1>5 DEF ItemsInv, SaidOfTurn

\* Serve says something of an item that is no turn's, and it may become a turn.
LEMMA ServeSays ==
  ASSUME ItemsInv, NEW item \in 1..(Len(told) + 1), NEW kind \in DOMAIN Ranks, NEW at \in Nat,
         told' = Told(Event(kind, item, at)) \/ told' = Known(item),
         told' # Known(item) => \A k \in Kinds(item) : Follows(k, kind),
         \A t \in Turns : turns[t].item # item,
         Turns \subseteq Turns',
         \A t \in Turns : turns'[t] = turns[t] /\ (Sends(t)' <=> Sends(t)),
         Connected,
         buf'.pending \in {None, item, buf.pending},
         buf'.pending = item => Kinds(item)' \subseteq Unsaid,
         \A t, u \in Turns' \ Turns : t = u,
         \A t \in Turns' \ Turns :
           /\ turns'[t].item = item /\ turns'[t].at = "snapshot" /\ buf'.pending = None
           /\ Kinds(item)' \subseteq Committed
  PROVE  ItemsInv'
<1>1. /\ told' \in Seq(Seq(ItemEvents)) /\ Len(told) \in Nat /\ Len(told') \in Nat
      /\ Len(told) <= Len(told') /\ item \in 1..Len(told')
      /\ ItemEventsInOrder'
      /\ \A i : i # item => Kinds(i)' = Kinds(i)
  BY SaysItem
<1>2. buf'.pending \in 0..Len(told')
  BY <1>1 DEF ItemsInv, None
<1>3. ASSUME NEW t \in Turns'
      PROVE  /\ turns'[t].item \in 1..Len(told') /\ turns'[t].item # buf'.pending
             /\ \A u \in Turns' : turns'[u].item = turns'[t].item => u = t
  <2>1. CASE t \in Turns
    <3>1. /\ turns'[t].item = turns[t].item /\ turns[t].item \in 1..Len(told)
          /\ turns[t].item # buf.pending /\ turns[t].item # item
      BY <2>1 DEF ItemsInv
    <3>2. turns'[t].item \in 1..Len(told') /\ turns'[t].item # buf'.pending
      BY <1>1, <3>1 DEF None
    <3>3. ASSUME NEW u \in Turns', turns'[u].item = turns'[t].item
          PROVE  u = t
      <4>1. u \in Turns /\ turns'[u] = turns[u]
        BY <3>1, <3>3
      <4> QED BY <2>1, <3>1, <3>3, <4>1 DEF ItemsInv
    <3> QED BY <3>2, <3>3
  <2>2. CASE t \notin Turns
    <3>1. turns'[t].item = item /\ buf'.pending = None /\ item # None
      BY <1>1, <2>2 DEF None
    <3> QED BY <1>1, <2>2, <3>1
  <2> QED BY <2>1, <2>2
<1>4. buf'.pending # None => Kinds(buf.pending)' \subseteq Unsaid
  <2>1. PICK x : x = buf'.pending
    OBVIOUS
  <2>2. Kinds(buf.pending)' = Kinds(x)'
    BY <2>1, NextItems
  <2>3. CASE x = item
    BY <2>1, <2>2, <2>3
  <2>4. CASE x # item /\ x # None
    <3>1. x = buf.pending /\ Kinds(x)' = Kinds(x)
      BY <1>1, <2>1, <2>4
    <3> QED BY <2>2, <2>4, <3>1 DEF ItemsInv
  <2> QED BY <2>1, <2>3, <2>4
<1>5. ASSUME NEW t \in Turns'
      PROVE  SaidOfTurn(t)'
  <2>1. CASE t \in Turns
    <3>1. PICK x : x = turns[t].item
      OBVIOUS
    <3>2. Kinds(x)' = Kinds(x) /\ turns'[t].item = x
      BY <1>1, <2>1, <3>1
    <3> QED BY <2>1, <3>1, <3>2, TurnKept
  <2>2. CASE t \notin Turns
    <3>1. Kinds(turns[t].item)' = Kinds(item)'
      BY <2>2, NextItems
    <3> QED BY <2>2, <3>1 DEF SaidOfTurn
  <2> QED BY <2>1, <2>2
<1> QED BY <1>1, <1>2, <1>3, <1>4, <1>5 DEF ItemsInv, SaidOfTurn

\* The task of a turn says something, or Serve acknowledges the turn.
LEMMA TurnSays ==
  ASSUME ItemsInv, NEW t \in Turns, NEW kind \in DOMAIN Ranks,
         told' = Told(Event(kind, turns[t].item, 0)) \/ told' = Known(turns[t].item),
         told' # Known(turns[t].item) => \A k \in Kinds(turns[t].item) : Follows(k, kind),
         Turns' = Turns, buf'.pending = buf.pending,
         \A u \in Turns : turns'[u].item = turns[u].item,
         \A u \in Turns : u # t => turns'[u].at = turns[u].at /\ (Sends(u)' <=> Sends(u)),
         SaidOfTurn(t)'
  PROVE  ItemsInv'
<1>1. PICK item : item = turns[t].item
  OBVIOUS
<1>2. item \in 1..Len(told) /\ item \in 1..(Len(told) + 1) /\ item # buf.pending
  BY <1>1 DEF ItemsInv
<1>3. /\ told' \in Seq(Seq(ItemEvents)) /\ Len(told') = Len(told)
      /\ ItemEventsInOrder'
      /\ \A i : i # item => Kinds(i)' = Kinds(i)
  <2>1. 0 \in Nat /\ item <= Len(told)
    BY <1>2
  <2> QED BY <1>1, <1>2, <2>1, SaysItem
<1>4. buf'.pending # None => Kinds(buf.pending)' \subseteq Unsaid
  <2>1. PICK x : x = buf.pending
    OBVIOUS
  <2>2. Kinds(buf.pending)' = Kinds(x)' /\ Kinds(x)' = Kinds(x)
    BY <1>2, <1>3, <2>1, NextItems
  <2> QED BY <2>1, <2>2 DEF ItemsInv
<1>5. ASSUME NEW u \in Turns
      PROVE  SaidOfTurn(u)'
  <2>1. CASE u # t
    <3>1. PICK x : x = turns[u].item
      OBVIOUS
    <3>2. x # item
      BY <1>1, <2>1, <3>1 DEF ItemsInv
    <3>3. Kinds(x)' = Kinds(x) /\ turns'[u].item = x
      BY <1>3, <3>1, <3>2
    <3> QED BY <2>1, <3>1, <3>3, TurnKept
  <2> QED BY <2>1
<1>6. /\ buf'.pending \in 0..Len(told')
      /\ \A u \in Turns : /\ turns'[u].item \in 1..Len(told') /\ turns'[u].item # buf'.pending
                          /\ \A v \in Turns : turns'[v].item = turns'[u].item => v = u
  BY <1>3 DEF ItemsInv
<1> QED BY <1>3, <1>4, <1>5, <1>6 DEF ItemsInv, SaidOfTurn

\* What Join does.
LEMMA Joins ==
  ASSUME NEW rest, NEW who, NEW event, Join(rest, who, event)
  PROVE  /\ told' = Told(event) \/ told' = Known(event.item)
         /\ rest = <<>> => Sends(who)'
         /\ ~Sends(who)' => told' = Known(event.item)
<1>1. Queue(rest, who)
  BY DEF Join
<1>2. told' = IF rest = <<>> THEN Told(event) ELSE Known(event.item)
  BY DEF Join, Free
<1>3. rest = <<>> => Sends(who)'
  <2>1. SUFFICES ASSUME rest = <<>>
                 PROVE  Sends(who)'
    OBVIOUS
  <2>2. Append(<<>>, who) = <<who>> /\ Head(<<who>>) = who
    OBVIOUS
  <2>3. sending' = TRUE /\ line' = Append(<<>>, who)
    BY <1>1, <2>1 DEF Queue
  <2> QED BY <2>2, <2>3 DEF Sends
<1> QED BY <1>2, <1>3

\* Of other events only the sending counts.
LEMMA OtherSaid ==
  ASSUME Len(told) \in Nat
  PROVE  Told(OtherEvent) = told /\ Known(OtherEvent.item) = told
BY DEF Told, Known, OtherEvent, Event, None

LEMMA EventFields ==
  ASSUME NEW kind, NEW item, NEW at
  PROVE  /\ Event(kind, item, at).kind = kind /\ Event(kind, item, at).item = item
         /\ Event(kind, item, at).at = at
BY DEF Event

LEMMA OutsideFlows ==
  ASSUME SessionInv, Outside
  PROVE  Flow' /\ \A t \in Turns : Sends(t)' <=> Sends(t)
<1>1. Flow
  BY DEF SessionInv, Flow
<1>2. CASE Connect
  BY <1>1, <1>2, ConnectFlows
<1>3. CASE Complain \/ Update \/ Clear \/ Reject
  <2>1. /\ UNCHANGED turnVars /\ pc \in {"receive", "score"}
        /\ pc' \in {"reply", "updated", "failing"}
        /\ \E event : Say(event)
    BY <1>3 DEF Complain, Update, Clear, Reject, Fail
  <2>2. pc' \in SendsAt \ {"committed"}
    BY <2>1 DEF SendsAt
  <2> QED BY <1>1, <2>1, <2>2, SpeaksFlow
<1>4. CASE ManualCommit
  BY <1>4, ManualCommitFlows
<1>5. CASE \E size \in Sizes : Receive(size)
  <2>1. PICK size \in Sizes : Receive(size)
    BY <1>5
  <2>2. /\ UNCHANGED turnVars /\ UNCHANGED sendVars /\ pc = "receive"
        /\ pc' \in {"receive", "score"}
    BY <2>1, DetectPhases DEF Receive
  <2> QED BY <1>1, <2>2, SilentFlow
<1>6. CASE Disconnect
  <2>1. /\ Teardown /\ pc \in Waits \cup {"closing"}
        /\ \/ UNCHANGED sendVars /\ pc \notin SendsAt
           \/ Rest(LeaveLine) /\ Sends(Serve)
    BY <1>6 DEF Disconnect, Waits, SendsAt
  <2> QED BY <1>1, <2>1, TeardownFlow
<1>7. CASE Deadline
  BY <1>1, <1>7, DeadlineFlows
<1>8. CASE Cancel
  <2>1. Teardown /\ pc \in Waits \cup {"closing"} /\ Rest(Without(Serve))
    BY <1>8 DEF Cancel
  <2> QED BY <1>1, <2>1, TeardownFlow
<1> QED BY <1>2, <1>3, <1>4, <1>5, <1>6, <1>7, <1>8 DEF Outside

LEMMA InsideFlows ==
  ASSUME SessionInv, Scored \/ StoppedSent \/ ServeSent \/ SlotFrees \/ Closed \/ Release
  PROVE  Flow' /\ \A t \in Turns : Sends(t)' <=> Sends(t)
<1>1. Flow
  BY DEF SessionInv, Flow
<1>2. CASE Scored
  BY <1>2, FrameScoredFlows DEF Scored
<1>3. CASE Closed
  <2>1. Teardown /\ pc \in Waits \cup {"closing"} /\ UNCHANGED sendVars /\ pc \notin SendsAt
    BY <1>3 DEF Closed, SendsAt
  <2> QED BY <1>1, <2>1, TeardownFlow
<1>4. CASE Release
  BY <1>1, <1>4, ReleaseFlows
<1> QED BY <1>2, <1>3, <1>4, StoppedSentFlows, ServeSentFlows, SlotFreesFlows

\* Serve has nothing to say of an item.
LEMMA QuietReply ==
  ASSUME pc' \notin {"started", "stopped", "committed"},
         reply' = OtherEvent \/ pc' \notin SendsAt
  PROVE  ReplyInv'
BY DEF ReplyInv, SendsAt

LEMMA QuietSpeech ==
  ASSUME SessionInv, NEW rest, SayBehind(rest, OtherEvent)
  PROVE  told' = told /\ reply' = OtherEvent
<1>1. Len(told) \in Nat
  BY DEF SessionInv, ItemsInv
<1>2. Join(rest, Serve, OtherEvent) /\ reply' = OtherEvent
  BY DEF SayBehind
<1> QED BY <1>1, <1>2, Joins, OtherSaid

\* Speech starts: a new item.
LEMMA StartItems ==
  ASSUME SessionInv, NEW b, SpeechStarts(b), ~buf.active, pc = "score",
         AnnouncedStart(b) \in Nat, buf'.pending = NewItem,
         \A t \in Turns : Sends(t)' <=> Sends(t)
  PROVE  ItemsInv' /\ ReplyInv'
<1> DEFINE at == AnnouncedStart(b)
<1>1. /\ ItemsInv /\ told \in Seq(Seq(ItemEvents)) /\ Len(told) \in Nat
      /\ turns' = turns /\ Turns' = Turns
      /\ pc' = "started" /\ Connected /\ at \in Nat
      /\ reply' = Event("started", NewItem, at)
      /\ Join(line, Serve, Event("started", NewItem, at))
  BY DEF SessionInv, ItemsInv, SpeechStarts, turnVars, Turns, Say, SayBehind, Connected
<1> HIDE DEF at
<1>2. NewItem = Len(told) + 1 /\ NewItem \in 1..(Len(told) + 1) /\ NewItem # None
  BY <1>1 DEF NewItem, None
<1> HIDE DEF NewItem
<1>3. Kinds(NewItem) = {}
  BY <1>1, <1>2 DEF Kinds, Events, Range
<1>4. /\ told' = Told(Event("started", NewItem, at)) \/ told' = Known(NewItem)
      /\ ~Sends(Serve)' => told' = Known(NewItem)
  BY <1>1, Joins, EventFields
<1>5. PICK item : item = NewItem
  OBVIOUS
<1>6. "started" \in DOMAIN Ranks
  BY KindNames
<1>7. /\ Kinds(item)' \subseteq {"started"}
      /\ told' = Known(item) => Kinds(item)' = {}
  BY <1>1, <1>2, <1>3, <1>4, <1>5, <1>6, SaysItem
<1>8. \A t \in Turns : turns[t].item # item
  BY <1>1, <1>2, <1>5 DEF ItemsInv
<1>9. ItemsInv'
  <2>1. /\ buf'.pending \in {None, item, buf.pending}
        /\ Kinds(item)' \subseteq Unsaid
        /\ \A k \in Kinds(item) : Follows(k, "started")
    BY <1>3, <1>5, <1>7 DEF Unsaid
  <2> QED BY <1>1, <1>2, <1>4, <1>5, <1>6, <1>8, <2>1, ServeSays
<1>10. ReplyInv'
  <2>1. Kinds(buf.pending)' = Kinds(item)'
    BY <1>5, NextItems
  <2>2. ~Sends(Serve)' => Kinds(buf.pending)' = {}
    BY <1>4, <1>5, <1>7, <2>1
  <2>3. reply'.at = at
    BY <1>1, EventFields
  <2> QED BY <1>1, <2>2, <2>3 DEF ReplyInv
<1> QED BY <1>9, <1>10

\* Speech stops: of the pending item.
LEMMA StopItems ==
  ASSUME SessionInv, NEW b, NEW end \in Nat, NEW byDetection, Stop(b, end, byDetection),
         buf.active, pc \in {"receive", "score"}, b.pending = buf.pending,
         \A t \in Turns : Sends(t)' <=> Sends(t)
  PROVE  ItemsInv' /\ ReplyInv'
<1>1. PICK item : item = buf.pending
  OBVIOUS
<1>2. /\ ItemsInv /\ told \in Seq(Seq(ItemEvents)) /\ Len(told) \in Nat
      /\ turns' = turns /\ Turns' = Turns /\ buf'.pending = item
      /\ pc' = "stopped" /\ Connected
      /\ reply' = Event("stopped", item, end)
      /\ Join(line, Serve, Event("stopped", item, end))
  BY <1>1 DEF SessionInv, ItemsInv, Stop, turnVars, Turns, Say, SayBehind, Connected
<1>3. /\ item # None /\ item \in 1..Len(told) /\ item \in 1..(Len(told) + 1)
      /\ Kinds(item) \subseteq Unsaid
      /\ \A t \in Turns : turns[t].item # item
  <2>1. item # None
    BY <1>1 DEF SessionInv, BufferInv, Fits
  <2>2. item \in 0..Len(told)
    BY <1>1, <1>2 DEF ItemsInv
  <2> QED BY <1>1, <1>2, <2>1, <2>2 DEF ItemsInv, None
<1>4. told' = Told(Event("stopped", item, end)) \/ told' = Known(item)
  BY <1>2, Joins, EventFields
<1>5. "stopped" \in DOMAIN Ranks /\ \A k \in Kinds(item) : Follows(k, "stopped")
  BY <1>3, KindNames, Following
<1>6. Kinds(item)' = Kinds(item) \/ Kinds(item)' = Kinds(item) \cup {"stopped"}
  BY <1>2, <1>3, <1>4, <1>5, SaysItem
<1>7. ItemsInv'
  <2>1. /\ buf'.pending \in {None, item, buf.pending}
        /\ Kinds(item)' \subseteq Unsaid
    BY <1>2, <1>3, <1>6 DEF Unsaid
  <2> QED BY <1>2, <1>3, <1>4, <1>5, <2>1, ServeSays
<1>8. ReplyInv'
  <2>1. reply'.at = end
    BY <1>2, EventFields
  <2> QED BY <1>2, <2>1 DEF ReplyInv
<1> QED BY <1>7, <1>8

\* The audio is cleared, and with it the pending item.
LEMMA ClearItems ==
  ASSUME SessionInv, Clear, pc' # "failing", \A t \in Turns : Sends(t)' <=> Sends(t)
  PROVE  ItemsInv' /\ ReplyInv'
<1>1. PICK item : item = buf.pending
  OBVIOUS
<1>2. /\ ItemsInv /\ told \in Seq(Seq(ItemEvents)) /\ Len(told) \in Nat
      /\ turns' = turns /\ Turns' = Turns /\ pc' = "reply" /\ Connected
      /\ item \in 0..Len(told) /\ buf' = Cleared(buf) /\ pc = "receive"
  <2>1. ItemsInv /\ told \in Seq(Seq(ItemEvents)) /\ item \in 0..Len(told)
    BY <1>1 DEF SessionInv, ItemsInv
  <2>2. /\ turns' = turns /\ pc' = "reply" /\ buf' = Cleared(buf) /\ pc = "receive"
    BY DEF Clear, Fail, turnVars
  <2> QED BY <2>1, <2>2 DEF Turns, Connected
<1>3. buf'.pending = None
  BY <1>2, ClearedAgrees DEF SessionInv, BufferInv
<1>4. CASE item = None
  <2>1. SayBehind(line, OtherEvent)
    BY <1>1, <1>4 DEF Clear, Fail, Say
  <2>2. told' = told /\ reply' = OtherEvent
    BY <2>1, QuietSpeech
  <2>3. ItemsInv'
    BY <1>1, <1>2, <1>3, <1>4, <2>2, QuietItems
  <2> QED BY <1>2, <2>2, <2>3, QuietReply
<1>5. CASE item # None
  <2>1. /\ reply' = Event("cleared", item, 0)
        /\ Join(line, Serve, Event("cleared", item, 0))
    BY <1>1, <1>5 DEF Clear, Fail, Say, SayBehind
  <2>2. /\ item \in 1..Len(told) /\ item \in 1..(Len(told) + 1)
        /\ Kinds(item) \subseteq Unsaid
        /\ \A t \in Turns : turns[t].item # item
    BY <1>1, <1>2, <1>5 DEF ItemsInv, None
  <2>3. /\ told' = Told(Event("cleared", item, 0)) \/ told' = Known(item)
        /\ ~Sends(Serve)' => told' = Known(item)
    BY <2>1, Joins, EventFields
  <2>4. /\ "cleared" \in DOMAIN Ranks /\ 0 \in Nat
        /\ \A k \in Kinds(item) : Follows(k, "cleared")
    BY <2>2, KindNames, Following
  <2>5. /\ item \in 1..Len(told')
        /\ told' = Known(item) => Kinds(item)' = Kinds(item)
    BY <1>2, <2>2, <2>3, <2>4, SaysItem
  <2>6. ItemsInv'
    <3>1. buf'.pending \in {None, item, buf.pending} /\ buf'.pending # item
      BY <1>3, <1>5
    <3> QED BY <1>2, <2>2, <2>3, <2>4, <3>1, ServeSays
  <2>7. ReplyInv'
    <3>1. reply'.item = item
      BY <2>1, EventFields
    <3>2. Kinds(reply.item)' = Kinds(item)'
      BY <3>1, NextItems
    <3>3. ~Sends(Serve)' => Kinds(reply.item)' \subseteq Unsaid
      BY <2>2, <2>3, <2>5, <3>2
    <3>4. reply'.item # buf'.pending /\ \A t \in Turns' : turns'[t].item # reply'.item
      BY <1>2, <1>3, <1>5, <2>2, <3>1
    <3> QED BY <1>2, <2>1, <2>5, <3>1, <3>3, <3>4 DEF ReplyInv
  <2> QED BY <2>6, <2>7
<1> QED BY <1>4, <1>5

\* The item a turn takes has no other turn.
LEMMA TakenItemIsFree ==
  ASSUME SessionInv
  PROVE  /\ TakenItem \in 1..(Len(told) + 1) /\ TakenItem # None
         /\ Kinds(TakenItem) \subseteq Unsaid
         /\ \A t \in Turns : turns[t].item # TakenItem
<1>1. /\ ItemsInv /\ Len(told) \in Nat /\ buf.pending \in 0..Len(told)
  BY DEF SessionInv, ItemsInv
<1>2. CASE buf.pending # None
  BY <1>1, <1>2 DEF TakenItem, ItemsInv, None
<1>3. CASE buf.pending = None
  <2>1. TakenItem = Len(told) + 1
    BY <1>3 DEF TakenItem, NewItem
  <2>2. Kinds(TakenItem) = {}
    BY <1>1, <2>1 DEF Kinds, Events, Range
  <2> QED BY <1>1, <2>1, <2>2 DEF ItemsInv, None
<1> QED BY <1>2, <1>3

LEMMA SnapshotItems ==
  ASSUME SessionInv, auto' \in BOOLEAN, NEW rest, Snapshot(rest),
         pc \in {"receive", "stopped", "slot"},
         \A t \in Turns : Sends(t)' <=> Sends(t)
  PROVE  ItemsInv' /\ ReplyInv'
<1> DEFINE size == Size(buf, auto')
<1>1. /\ ItemsInv /\ BufferInv /\ Fits(buf) /\ Connected
      /\ told \in Seq(Seq(ItemEvents)) /\ Len(told) \in Nat
  BY DEF SessionInv, ItemsInv, BufferInv, Connected
<1>2. CASE pc' = "reply" /\ SayBehind(rest, OtherEvent) /\ UNCHANGED <<turns, buf>>
  <2>1. told' = told /\ reply' = OtherEvent /\ Turns' = Turns /\ buf'.pending = buf.pending
    BY <1>2, QuietSpeech DEF Turns
  <2>2. ItemsInv'
    BY <1>1, <1>2, <2>1, QuietItems
  <2> QED BY <1>2, <2>1, <2>2, QuietReply
<1>3. CASE pc' = "committed"
  <2>1. PICK item : item = TakenItem
    OBVIOUS
  <2>2. /\ item \in 1..(Len(told) + 1) /\ item # None /\ Kinds(item) \subseteq Unsaid
        /\ \A t \in Turns : turns[t].item # item
    BY <2>1, TakenItemIsFree
  <2>3. /\ Whole(buf, size) /\ size \in Nat
        /\ Turns' = Turns \cup {Len(turns')} /\ Len(turns') \notin Turns
        /\ \A u \in Turns : turns'[u] = turns[u]
        /\ turns'[Len(turns')] = NewTurn(size)
        /\ buf' = Remainder(buf, size)
        /\ SayBehind(rest, Event("committed", item, 0))
    BY <1>3, <2>1, SnapshotCases
  <2>4. /\ turns'[Len(turns')].item = item /\ turns'[Len(turns')].at = "snapshot"
    BY <2>1, <2>3, NewTurnFields
  <2>5. buf'.pending = None
    BY <1>1, <2>3, RemainderAgrees
  <2>6. /\ told' = Told(Event("committed", item, 0)) \/ told' = Known(item)
        /\ ~Sends(Serve)' => told' = Known(item)
        /\ reply' = Event("committed", item, 0)
    BY <2>3, Joins, EventFields DEF SayBehind
  <2>7. /\ "committed" \in DOMAIN Ranks /\ 0 \in Nat
        /\ \A k \in Kinds(item) : Follows(k, "committed")
    BY <2>2, KindNames, Following
  <2>8. /\ Kinds(item)' = Kinds(item) \/ Kinds(item)' = Kinds(item) \cup {"committed"}
        /\ told' = Known(item) => Kinds(item)' = Kinds(item)
    BY <1>1, <2>2, <2>6, <2>7, SaysItem
  <2>9. Kinds(item)' \subseteq Committed
    BY <2>2, <2>8 DEF Committed
  <2> HIDE DEF size
  <2>10. ItemsInv'
    <3>1. buf'.pending \in {None, item, buf.pending} /\ buf'.pending # item
      BY <2>2, <2>5
    <3>2. \A t, u \in Turns' \ Turns : t = u
      BY <2>3
    <3>3. \A t \in Turns' \ Turns :
            /\ turns'[t].item = item /\ turns'[t].at = "snapshot" /\ buf'.pending = None
            /\ Kinds(item)' \subseteq Committed
      BY <2>3, <2>4, <2>5, <2>9
    <3>4. Turns \subseteq Turns'
      BY <2>3
    <3> QED BY <1>1, <2>2, <2>3, <2>6, <2>7, <3>1, <3>2, <3>3, <3>4, ServeSays
  <2>11. ReplyInv'
    <3>1. reply'.item = item
      BY <2>6, EventFields
    <3>2. Kinds(reply.item)' = Kinds(item)'
      BY <3>1, NextItems
    <3>3. ~Sends(Serve)' => Kinds(reply.item)' \subseteq Unsaid
      BY <2>2, <2>6, <2>8, <3>2
    <3> QED BY <1>3, <2>4, <2>6, <3>3 DEF ReplyInv
  <2> QED BY <2>10, <2>11
<1>4. CASE /\ pc' = "failing" /\ SayBehind(rest, OtherEvent) /\ turns' = turns
           /\ Whole(buf, size) /\ size \in Nat /\ buf' = Remainder(buf, size)
  <2>1. /\ told' = told /\ reply' = OtherEvent /\ Turns' = Turns
        /\ buf'.pending = None
    BY <1>1, <1>4, QuietSpeech, RemainderAgrees DEF Turns
  <2>2. ItemsInv'
    BY <1>1, <1>4, <2>1, QuietItems
  <2> QED BY <1>4, <2>1, <2>2, QuietReply
<1> QED BY <1>2, <1>3, <1>4, SnapshotCases

LEMMA CommitItems ==
  ASSUME SessionInv, auto' \in BOOLEAN, NEW rest, Commit(rest),
         pc \in {"receive", "stopped"},
         \A t \in Turns : Sends(t)' <=> Sends(t)
  PROVE  ItemsInv' /\ ReplyInv'
<1>1. CASE Snapshot(rest)
  BY <1>1, SnapshotItems
<1>2. CASE pc' = "slot" /\ Rest(rest) /\ reply' = OtherEvent /\ UNCHANGED <<turns, buf>>
  <2>1. told' = told /\ Turns' = Turns
    BY <1>2 DEF Rest, Turns
  <2>2. ItemsInv'
    BY <1>2, <2>1, QuietItems DEF SessionInv
  <2> QED BY <1>2, <2>2, QuietReply
<1> QED BY <1>1, <1>2 DEF Commit

LEMMA OutsideItems ==
  ASSUME SessionInv, Outside
  PROVE  ItemsInv' /\ ReplyInv'
<1>1. /\ ItemsInv /\ Fits(buf) /\ TasksInv /\ Len(told) \in Nat
      /\ \A t \in Turns : Sends(t)' <=> Sends(t)
  BY OutsideFlows DEF SessionInv, BufferInv, ItemsInv
<1>2. CASE Connect \/ Complain \/ Reject \/ Deadline \/ Update
  <2>1. /\ turns' = turns /\ Turns' = Turns
        /\ \/ pc' = "done" /\ UNCHANGED <<reply, told>>
           \/ /\ pc' \in {"created", "reply", "failing", "updated"}
              /\ \E rest : SayBehind(rest, OtherEvent)
    BY <1>2 DEF Connect, Complain, Reject, Fail, Deadline, Update, Say, turnVars, Turns, sendVars
  <2>2. told' = told
    BY <2>1, QuietSpeech
  <2>3. buf'.pending = buf.pending
    <3>1. buf' = buf \/ buf' = VadReset(buf)
      BY <1>2 DEF Connect, Complain, Reject, Deadline, Update, audioVars
    <3> QED BY <1>1, <3>1, BufferFields DEF VadReset, Buffers
  <2>4. ItemsInv'
    BY <1>1, <2>1, <2>2, <2>3, QuietItems
  <2>5. ReplyInv'
    BY <2>1, QuietSpeech, QuietReply DEF SendsAt
  <2> QED BY <2>4, <2>5
<1>3. CASE Clear /\ pc' # "failing"
  BY <1>1, <1>3, ClearItems
<1>4. CASE ManualCommit
  <2>1. pc = "receive"
    BY <1>4 DEF ManualCommit
  <2>2. CASE buf.active /\ Stop(buf, buf.total, FALSE)
    <3>1. buf.total \in Nat
      BY <1>1, BufferFields
    <3> QED BY <1>1, <2>1, <2>2, <3>1, StopItems
  <2>3. CASE auto' = FALSE /\ Commit(line)
    BY <1>1, <2>1, <2>3, CommitItems
  <2> QED BY <1>4, <2>2, <2>3 DEF ManualCommit
<1>5. CASE \E size \in Sizes : Receive(size)
  <2>1. PICK size \in Sizes : Receive(size)
    BY <1>5
  <2>2. /\ size \in Nat /\ Detect(Appended(buf, size)) /\ turns' = turns /\ Turns' = Turns
        /\ told' = told /\ reply' = reply
    BY <2>1, SessionAssumption DEF Receive, SessionAssumption, turnVars, Turns, sendVars
  <2>3. Appended(buf, size).pending = buf.pending /\ Fits(Appended(buf, size))
    BY <1>1, <2>2, AppendedFits
  <2>4. buf'.pending = Appended(buf, size).pending
    BY <2>2, <2>3, ScannedFits DEF Detect
  <2>5. ItemsInv'
    BY <1>1, <2>2, <2>3, <2>4, QuietItems
  <2>6. pc' \in {"score", "receive"}
    BY <2>2, DetectPhases
  <2> QED BY <2>5, <2>6, QuietReply DEF SendsAt
<1>6. CASE Disconnect \/ Cancel
  <2>1. Teardown /\ told' = told /\ buf' = buf /\ pc' = "gather" /\ reply' = OtherEvent
    BY <1>6 DEF Disconnect, Cancel, Teardown, Rest, audioVars, sendVars
  <2>2. /\ Turns' = Turns
        /\ \A t \in Turns : /\ turns'[t].item = turns[t].item
                            /\ turns'[t].at \in {"cancelled", turns[t].at}
    BY <1>1, <2>1, CancelledTurns
  <2>3. ItemsInv'
    BY <1>1, <2>1, <2>2, QuietItems
  <2> QED BY <2>1, <2>3, QuietReply
<1>7. CASE Clear /\ pc' = "failing"
  <2>1. /\ turns' = turns /\ Turns' = Turns /\ SayBehind(line, OtherEvent)
        /\ buf' = Cleared(buf)
    BY <1>7 DEF Clear, Fail, Say, turnVars, Turns
  <2>2. told' = told /\ reply' = OtherEvent /\ buf'.pending = None
    BY <1>1, <2>1, QuietSpeech, ClearedAgrees
  <2>3. ItemsInv'
    BY <1>1, <2>1, <2>2, QuietItems
  <2> QED BY <1>7, <2>2, <2>3, QuietReply
<1> QED BY <1>2, <1>3, <1>4, <1>5, <1>6, <1>7 DEF Outside

LEMMA InsideItems ==
  ASSUME SessionInv, Scored \/ StoppedSent \/ ServeSent \/ SlotFrees \/ Closed \/ Release
  PROVE  ItemsInv' /\ ReplyInv'
<1>1. /\ ItemsInv /\ Fits(buf) /\ BufferInv /\ TasksInv /\ Len(told) \in Nat
      /\ auto \in BOOLEAN /\ cut \in Nat
      /\ \A t \in Turns : Sends(t)' <=> Sends(t)
  BY InsideFlows DEF SessionInv, BufferInv, ItemsInv
<1>2. CASE Scored
  <2>1. PICK isSpeech \in BOOLEAN : FrameScored(isSpeech)
    BY <1>2 DEF Scored
  <2> DEFINE b == Judged(isSpeech)
  <2>2. /\ pc = "score" /\ Agrees(buf, "score", heard, cut)
        /\ b.pending = buf.pending /\ b.active = buf.active
        /\ FrameEnd(b) = FrameEnd(buf) /\ FrameEnd(buf) \in Nat
    <3>1. pc = "score" /\ Agrees(buf, "score", heard, cut)
      BY <1>1, <2>1, BufferAgrees DEF FrameScored, Open, Waits
    <3>2. /\ b.pending = buf.pending /\ b.active = buf.active /\ b.start = buf.start
          /\ b.scan = buf.scan
      BY <1>1, JudgedFields
    <3> QED BY <3>1, <3>2, JudgedBytes DEF FrameEnd
  <2>3. CASE \/ ~b.active /\ b.speech < StartFrames /\ GoesOn(Trimmed(b))
             \/ b.active /\ GoesOn(b)
    <3>1. PICK a \in {b, Trimmed(b)} : GoesOn(a) /\ Fits(a) /\ a.pending = buf.pending
      <4>1. CASE ~b.active /\ b.speech < StartFrames /\ GoesOn(Trimmed(b))
        <5>1. Fits(Trimmed(b)) /\ ~Trimmed(b).active
          BY <1>1, <2>2, <4>1, TrimmedAgrees
        <5>2. Trimmed(b).pending = None /\ buf.pending = None
          BY <1>1, <2>2, <4>1, <5>1 DEF Fits
        <5> QED BY <4>1, <5>1, <5>2
      <4>2. CASE b.active /\ GoesOn(b)
        BY <1>1, <2>2, <4>2, ActiveAgrees
      <4> QED BY <2>3, <4>1, <4>2
    <3>2. /\ Detect(a) /\ turns' = turns /\ Turns' = Turns /\ told' = told /\ reply' = reply
      BY <3>1 DEF GoesOn, turnVars, Turns, sendVars
    <3>3. buf'.pending = a.pending /\ pc' \in {"score", "receive"}
      BY <3>1, <3>2, ScannedFits DEF Detect
    <3>4. ItemsInv'
      BY <1>1, <3>1, <3>2, <3>3, QuietItems
    <3> QED BY <3>3, <3>4, QuietReply DEF SendsAt
  <2>4. CASE ~b.active /\ b.speech >= StartFrames /\ SpeechStarts(b)
    <3>1. NewItem \in Nat \ {None} /\ buf' = [b EXCEPT !.active = TRUE, !.pending = NewItem]
      BY <1>1, <2>4 DEF NewItem, None, SpeechStarts
    <3>2. AnnouncedStart(b) \in Nat /\ buf'.pending = NewItem
      BY <1>1, <2>2, <2>4, <3>1, StartAgrees
    <3> QED BY <1>1, <2>2, <2>4, <3>2, StartItems
  <2>5. CASE b.active /\ Stop(b, FrameEnd(b), TRUE)
    BY <1>1, <2>2, <2>5, StopItems
  <2> QED BY <2>1, <2>3, <2>4, <2>5 DEF FrameScored
<1>3. CASE StoppedSent
  <2>1. pc = "stopped" /\ auto' = auto /\ Commit(LeaveLine)
    BY <1>3 DEF StoppedSent
  <2> QED BY <1>1, <2>1, CommitItems
<1>4. CASE SlotFrees
  <2>1. pc = "slot" /\ auto' = auto /\ Snapshot(line)
    BY <1>4 DEF SlotFrees
  <2> QED BY <1>1, <2>1, SnapshotItems
<1>5. CASE ServeSent
  <2>1. told' = told /\ reply' = OtherEvent
    BY <1>5 DEF ServeSent, Rest
  <2>2. buf'.pending = buf.pending
    <3>1. Detect(buf) \/ buf' = buf
      BY <1>5 DEF ServeSent
    <3> QED BY <1>1, <3>1, ScannedFits DEF Detect
  <2>3. /\ Turns' = Turns
        /\ \A t \in Turns :
             /\ turns'[t].item = turns[t].item
             /\ turns'[t].at = turns[t].at \/ (turns[t].at = "snapshot" /\ turns'[t].at = "work")
    <3>1. CASE pc = "committed" /\ turns' = At(Len(turns), "work")
      <4>1. /\ Len(turns) \in Turns /\ turns[Len(turns)].at = "snapshot"
            /\ turns \in Seq(TurnRecords) /\ "work" \in Places
        BY <1>1, <3>1 DEF TasksInv, Places
      <4>2. /\ Len(turns') = Len(turns) /\ turns'[Len(turns)].at = "work"
            /\ \A u \in Turns : u # Len(turns) => turns'[u] = turns[u]
            /\ \A u \in Turns : turns'[u].item = turns[u].item
        BY <3>1, <4>1, MovedTurn
      <4> QED BY <4>1, <4>2 DEF Turns
    <3>2. CASE turns' = turns
      BY <3>2 DEF Turns
    <3> QED BY <1>5, <3>1, <3>2 DEF ServeSent, turnVars
  <2>4. ItemsInv'
    BY <1>1, <2>1, <2>2, <2>3, QuietItems
  <2>5. pc' \notin {"started", "stopped", "committed"}
    BY <1>5, DetectPhases DEF ServeSent
  <2> QED BY <2>1, <2>4, <2>5, QuietReply
<1>6. CASE Closed
  <2>1. Teardown /\ told' = told /\ buf' = buf /\ pc' = "gather" /\ reply' = OtherEvent
    BY <1>6 DEF Closed, Teardown, audioVars, sendVars
  <2>2. /\ Turns' = Turns
        /\ \A t \in Turns : /\ turns'[t].item = turns[t].item
                            /\ turns'[t].at \in {"cancelled", turns[t].at}
    BY <1>1, <2>1, CancelledTurns
  <2>3. ItemsInv'
    BY <1>1, <2>1, <2>2, QuietItems
  <2> QED BY <2>1, <2>3, QuietReply
<1>7. CASE Release
  <2>1. /\ told' = told /\ buf' = buf /\ pc' = "done" /\ reply' = reply /\ turns' = turns
        /\ Turns' = Turns
    BY <1>7 DEF Release, audioVars, sendVars, turnVars, Turns
  <2>2. ItemsInv'
    BY <1>1, <2>1, QuietItems
  <2> QED BY <2>1, <2>2, QuietReply DEF SendsAt
<1> QED BY <1>2, <1>3, <1>4, <1>5, <1>6, <1>7

\* What the task of a turn does leaves the event of Serve as it is.
LEMMA ReplyKept ==
  ASSUME SessionInv, UNCHANGED <<pc, reply, buf>>, Turns' = Turns, Len(turns') = Len(turns),
         \A t \in Turns : turns'[t].item = turns[t].item,
         Len(told) <= Len(told'), Len(told') \in Nat,
         pc \in SendsAt /\ reply # OtherEvent =>
           Sends(Serve)' \/ (~Sends(Serve) /\ Kinds(reply.item)' = Kinds(reply.item))
  PROVE  ReplyInv'
<1>1. ReplyInv /\ ItemsInv /\ Len(told) \in Nat
      /\ (pc = "committed" => Len(turns) \in Turns)
  BY DEF SessionInv, ItemsInv, TasksInv
<1>2. CASE pc = "started"
  <2>1. reply = Event("started", buf.pending, reply.at) /\ reply.at \in Nat
    BY <1>1, <1>2 DEF ReplyInv
  <2>2. reply.item = buf.pending /\ reply # OtherEvent
    <3>1. Event("started", buf.pending, reply.at).kind = "started" /\ OtherEvent.kind = "other"
      BY EventFields DEF OtherEvent
    <3>2. Event("started", buf.pending, reply.at).item = buf.pending
      BY EventFields
    <3> QED BY <2>1, <3>1, <3>2
  <2>3. PICK x : x = buf.pending
    OBVIOUS
  <2>4. Kinds(buf.pending)' = Kinds(x)' /\ Kinds(reply.item)' = Kinds(x)'
    BY <2>2, <2>3, NextItems
  <2>5. ~Sends(Serve)' => Kinds(buf.pending)' = {}
    BY <1>1, <1>2, <2>2, <2>3, <2>4 DEF ReplyInv, SendsAt
  <2> QED BY <1>2, <2>1, <2>5 DEF ReplyInv
<1>3. CASE pc = "committed"
  <2>1. reply = Event("committed", turns[Len(turns)].item, 0)
    BY <1>1, <1>3 DEF ReplyInv
  <2>2. reply # OtherEvent
    <3>1. /\ Event("committed", turns[Len(turns)].item, 0).kind = "committed"
          /\ OtherEvent.kind = "other"
      BY EventFields DEF OtherEvent
    <3> QED BY <2>1, <3>1
  <2>3. ~Sends(Serve)' => Kinds(reply.item)' \subseteq Unsaid
    BY <1>1, <1>3, <2>2 DEF ReplyInv, SendsAt
  <2>4. turns'[Len(turns')].item = turns[Len(turns)].item
    BY <1>1, <1>3
  <2> QED BY <1>3, <2>1, <2>3, <2>4 DEF ReplyInv
<1>4. CASE pc = "reply" /\ reply # OtherEvent
  <2>1. /\ reply = Event("cleared", reply.item, 0) /\ reply.item \in 1..Len(told)
        /\ reply.item # buf.pending /\ \A t \in Turns : turns[t].item # reply.item
        /\ ~Sends(Serve) => Kinds(reply.item) \subseteq Unsaid
    BY <1>1, <1>4 DEF ReplyInv
  <2>2. ~Sends(Serve)' => Kinds(reply.item)' \subseteq Unsaid
    BY <1>4, <2>1 DEF SendsAt
  <2>3. reply'.item \in 1..Len(told') /\ \A t \in Turns' : turns'[t].item # reply'.item
    BY <1>1, <2>1
  <2> QED BY <1>4, <2>1, <2>2, <2>3 DEF ReplyInv
<1>5. CASE pc \notin {"started", "committed"} /\ (pc = "reply" => reply = OtherEvent)
  BY <1>1, <1>5 DEF ReplyInv
<1> QED BY <1>2, <1>3, <1>4, <1>5

\* Serve's event is not about a turn whose task was started.
LEMMA ReplyIsNotOf ==
  ASSUME SessionInv, pc \in SendsAt, NEW t \in Turns, turns[t].at # "snapshot"
  PROVE  reply # OtherEvent => reply.item # turns[t].item
<1>1. ReplyInv /\ ItemsInv /\ TasksInv
  BY DEF SessionInv
<1>2. CASE pc \in {"started", "stopped"}
  <2>1. \E kind, at : reply = Event(kind, buf.pending, at)
    BY <1>1, <1>2 DEF ReplyInv
  <2>2. reply.item = buf.pending
    BY <2>1, EventFields
  <2> QED BY <1>1, <2>2 DEF ItemsInv
<1>3. CASE pc = "committed"
  <2>1. Len(turns) \in Turns /\ t # Len(turns)
    BY <1>1, <1>3 DEF TasksInv
  <2>2. reply.item = turns[Len(turns)].item
    BY <1>1, <1>3, EventFields DEF ReplyInv
  <2> QED BY <1>1, <2>1, <2>2 DEF ItemsInv
<1>4. CASE pc \in {"created", "updated", "failing", "reply"}
  BY <1>1, <1>4 DEF ReplyInv
<1> QED BY <1>2, <1>3, <1>4 DEF SendsAt

\* The task of a turn says something of its item.
LEMMA TurnSaysReply ==
  ASSUME SessionInv, NEW t \in Turns, turns[t].at # "snapshot", NEW kind \in DOMAIN Ranks,
         told' = Told(Event(kind, turns[t].item, 0)) \/ told' = Known(turns[t].item),
         told' # Known(turns[t].item) => \A k \in Kinds(turns[t].item) : Follows(k, kind),
         UNCHANGED <<pc, reply, buf>>, Turns' = Turns, Len(turns') = Len(turns),
         \A u \in Turns : turns'[u].item = turns[u].item,
         Sends(Serve)' <=> Sends(Serve)
  PROVE  ReplyInv'
<1>1. PICK item : item = turns[t].item
  OBVIOUS
<1>2. item \in 1..Len(told) /\ item \in 1..(Len(told) + 1) /\ ItemsInv /\ 0 \in Nat
  BY <1>1 DEF SessionInv, ItemsInv
<1>3. /\ Len(told) <= Len(told') /\ Len(told') \in Nat
      /\ \A i : i # item => Kinds(i)' = Kinds(i)
  BY <1>1, <1>2, SaysItem
<1>4. ASSUME pc \in SendsAt, reply # OtherEvent
      PROVE  Sends(Serve)' \/ (~Sends(Serve) /\ Kinds(reply.item)' = Kinds(reply.item))
  <2>1. PICK x : x = reply.item
    OBVIOUS
  <2>2. Kinds(reply.item)' = Kinds(x)'
    BY <2>1, NextItems
  <2>3. x # item
    BY <1>1, <1>4, <2>1, ReplyIsNotOf
  <2> QED BY <1>3, <2>1, <2>2, <2>3
<1> QED BY <1>3, <1>4, ReplyKept

\* Who gets the lock says what it queued up for.
LEMMA ObtainItems ==
  ASSUME SessionInv, Obtain
  PROVE  ItemsInv' /\ ReplyInv'
<1>1. /\ ItemsInv /\ ReplyInv /\ Flow /\ TasksInv /\ LineInv
      /\ told \in Seq(Seq(ItemEvents)) /\ Len(told) \in Nat
      /\ pc' = pc /\ reply' = reply /\ buf' = buf /\ turns' = turns /\ Turns' = Turns
  <2>1. ItemsInv /\ ReplyInv /\ Flow /\ TasksInv /\ LineInv
    BY DEF SessionInv, Flow
  <2>2. told \in Seq(Seq(ItemEvents)) /\ Len(told) \in Nat
    BY <2>1 DEF ItemsInv
  <2>3. /\ pc' = pc /\ reply' = reply /\ buf' = buf /\ turns' = turns /\ Turns' = Turns
    BY DEF Obtain, audioVars, turnVars, Turns
  <2> QED BY <2>1, <2>2, <2>3
<1>2. /\ Head(line) \in {Serve} \cup Turns
      /\ \A x : Sends(x)' <=> x = Head(line)
      /\ \A x : ~Sends(x)
  BY <1>1, ObtainFlows
<1>3. Head(line) \in ToSet(line)
  <2>1. line \in Seq(Nat) /\ line # <<>>
    BY <1>1, ObtainFlows DEF LineInv
  <2> QED BY <2>1 DEF ToSet
<1>4. CASE Head(line) = Serve
  <2>1. /\ pc \in SendsAt /\ Connected /\ told' = Told(reply) /\ Sends(Serve)'
        /\ \A t \in Turns : Sends(t)' <=> Sends(t)
    <3>1. pc \in SendsAt
      BY <1>1, <1>3, <1>4 DEF LineInv
    <3>2. Connected
      BY <3>1 DEF SendsAt, Connected
    <3>3. told' = Told(reply)
      BY <1>4 DEF Obtain
    <3>4. \A t \in Turns : t # Serve
      BY TurnNumbers
    <3> QED BY <1>2, <1>4, <3>1, <3>2, <3>3, <3>4
  <2>2. CASE reply = OtherEvent
    <3>1. told' = told
      BY <1>1, <2>1, <2>2, OtherSaid
    <3>2. ItemsInv'
      BY <1>1, <2>1, <3>1, QuietItems
    <3>3. ReplyInv'
      BY <1>1, <2>2, <3>1, ReplyKept
    <3> QED BY <3>2, <3>3
  <2>3. CASE reply # OtherEvent
    <3>1. PICK kind \in DOMAIN Ranks, item \in 1..Len(told), at \in Nat :
            /\ reply = Event(kind, item, at)
            /\ \A k \in Kinds(item) : Follows(k, kind)
            /\ \/ /\ kind \in {"started", "stopped"} /\ item = buf.pending
                  /\ Kinds(item) \subseteq Unsaid
               \/ /\ kind = "cleared" /\ item # buf.pending
                  /\ \A t \in Turns : turns[t].item # item
               \/ /\ kind = "committed" /\ Len(turns) \in Turns
                  /\ item = turns[Len(turns)].item /\ turns[Len(turns)].at = "snapshot"
                  /\ Kinds(item) \subseteq Unsaid
      <4>1. CASE pc = "started"
        <5>1. /\ reply = Event("started", buf.pending, reply.at) /\ reply.at \in Nat
              /\ Kinds(buf.pending) = {}
          BY <1>1, <1>2, <4>1 DEF ReplyInv
        <5>2. buf.pending \in 1..Len(told)
          <6>1. buf.pending # None
            BY <4>1 DEF SessionInv, BufferInv, Fits
          <6> QED BY <1>1, <6>1 DEF ItemsInv, None
        <5> QED BY <5>1, <5>2, KindNames
      <4>2. CASE pc = "stopped"
        <5>1. /\ reply = Event("stopped", buf.pending, reply.at) /\ reply.at \in Nat
          BY <1>1, <4>2 DEF ReplyInv
        <5>2. buf.pending \in 1..Len(told) /\ Kinds(buf.pending) \subseteq Unsaid
          <6>1. buf.pending # None
            BY <4>2 DEF SessionInv, BufferInv, Fits
          <6> QED BY <1>1, <6>1 DEF ItemsInv, None
        <5>3. \A k \in Kinds(buf.pending) : Follows(k, "stopped")
          BY <5>2, Following
        <5> QED BY <5>1, <5>2, <5>3, KindNames
      <4>3. CASE pc = "committed"
        <5>1. /\ reply = Event("committed", turns[Len(turns)].item, 0)
              /\ Kinds(reply.item) \subseteq Unsaid
          BY <1>1, <1>2, <4>3 DEF ReplyInv
        <5>2. reply.item = turns[Len(turns)].item
          BY <5>1, EventFields
        <5>3. Len(turns) \in Turns /\ turns[Len(turns)].at = "snapshot"
          BY <1>1, <4>3 DEF TasksInv
        <5>4. turns[Len(turns)].item \in 1..Len(told)
          BY <1>1, <5>3 DEF ItemsInv
        <5>5. \A k \in Kinds(reply.item) : Follows(k, "committed")
          BY <5>1, Following
        <5> QED BY <5>1, <5>2, <5>3, <5>4, <5>5, KindNames
      <4>4. CASE pc = "reply"
        <5>1. /\ reply = Event("cleared", reply.item, 0) /\ reply.item \in 1..Len(told)
              /\ reply.item # buf.pending /\ \A t \in Turns : turns[t].item # reply.item
              /\ Kinds(reply.item) \subseteq Unsaid
          BY <1>1, <1>2, <2>3, <4>4 DEF ReplyInv
        <5>2. \A k \in Kinds(reply.item) : Follows(k, "cleared")
          BY <5>1, Following
        <5> QED BY <5>1, <5>2, KindNames
      <4>5. CASE pc \in {"created", "updated", "failing"}
        BY <1>1, <2>3, <4>5 DEF ReplyInv
      <4> QED BY <2>1, <4>1, <4>2, <4>3, <4>4, <4>5 DEF SendsAt
    <3>2. /\ told' = Told(Event(kind, item, at)) /\ item \in 1..(Len(told) + 1)
          /\ item <= Len(told)
      BY <1>1, <2>1, <3>1
    <3>3. /\ Len(told') = Len(told)
          /\ Kinds(item)' = Kinds(item) \/ Kinds(item)' = Kinds(item) \cup {kind}
      BY <1>1, <3>1, <3>2, SaysItem
    <3>4. ReplyInv'
      BY <1>1, <2>1, <3>3, ReplyKept
    <3>5. CASE kind \in {"started", "stopped"} /\ item = buf.pending /\ Kinds(item) \subseteq Unsaid
      <4>1. Kinds(item)' \subseteq Unsaid /\ \A t \in Turns : turns[t].item # item
        BY <1>1, <3>3, <3>5 DEF Unsaid, ItemsInv
      <4> QED BY <1>1, <2>1, <3>1, <3>2, <3>4, <4>1, ServeSays
    <3>6. CASE /\ kind = "cleared" /\ item # buf.pending
               /\ \A t \in Turns : turns[t].item # item
      BY <1>1, <2>1, <3>1, <3>2, <3>4, <3>6, ServeSays
    <3>7. CASE /\ kind = "committed" /\ Len(turns) \in Turns
               /\ item = turns[Len(turns)].item /\ turns[Len(turns)].at = "snapshot"
               /\ Kinds(item) \subseteq Unsaid
      <4>1. PICK t \in Turns : t = Len(turns)
        BY <3>7
      <4>2. at = 0
        <5>1. reply.at = at /\ reply.kind = "committed"
          BY <3>1, <3>7, EventFields
        <5>2. pc = "committed"
          <6>1. \A i, a : /\ Event("started", i, a).kind = "started"
                          /\ Event("stopped", i, a).kind = "stopped"
                          /\ Event("cleared", i, a).kind = "cleared"
            BY EventFields
          <6>2. pc # "started" /\ pc # "stopped" /\ pc # "reply"
            BY <1>1, <2>3, <5>1, <6>1 DEF ReplyInv
          <6>3. pc \notin {"created", "updated", "failing"}
            BY <1>1, <2>3 DEF ReplyInv
          <6> QED BY <2>1, <6>2, <6>3 DEF SendsAt
        <5> QED BY <1>1, <5>1, <5>2, EventFields DEF ReplyInv
      <4>3. Kinds(turns[t].item)' = Kinds(item)'
        BY <1>1, <3>7, <4>1, NextItems
      <4>4. SaidOfTurn(t)'
        <5>1. Kinds(item)' \subseteq Committed
          BY <3>3, <3>7 DEF Committed
        <5> QED BY <1>1, <3>7, <4>1, <4>3, <5>1 DEF SaidOfTurn
      <4>5. told' = Told(Event("committed", turns[t].item, 0))
        BY <3>2, <3>7, <4>1, <4>2
      <4>6. \A k \in Kinds(turns[t].item) : Follows(k, "committed")
        BY <3>1, <3>7, <4>1
      <4> QED BY <1>1, <2>1, <3>4, <4>4, <4>5, <4>6, KindNames, TurnSays
    <3> QED BY <3>1, <3>5, <3>6, <3>7
  <2> QED BY <2>2, <2>3
<1>5. CASE Head(line) \in Turns
  <2>1. PICK t \in Turns : t = Head(line)
    BY <1>5
  <2>2. PICK kind \in Speaks : kind = turns[t].at
    <3>1. turns[t].at # "cancelled"
      BY <2>1, TurnNumbers DEF Obtain
    <3>2. turns[t].at \in Speaks \cup {"cancelled"}
      BY <1>1, <1>3, <2>1 DEF LineInv
    <3> QED BY <3>1, <3>2
  <2>3. /\ told' = Told(Event(kind, turns[t].item, 0))
        /\ ~Sends(Serve)' /\ Sends(t)'
        /\ \A u \in Turns : u # t => (Sends(u)' <=> Sends(u))
    <3>1. t # Serve
      BY TurnNumbers
    <3>2. told' = Told(TurnEvent(t, turns[t].at))
      BY <2>1, <3>1 DEF Obtain
    <3> QED BY <1>2, <2>1, <2>2, <3>1, <3>2 DEF TurnEvent
  <2>4. /\ kind \in DOMAIN Ranks
        /\ \A k \in Kinds(turns[t].item) : Follows(k, kind)
    <3>1. SaidOfTurn(t) /\ ~Sends(t)
      BY <1>1, <1>2, ItemsInvParts
    <3>2. CASE kind \in {"delta", "failed"}
      <4>1. Kinds(turns[t].item) \subseteq Committed
        BY <2>2, <3>1, <3>2 DEF SaidOfTurn
      <4> QED BY <3>2, <4>1, Following, KindNames
    <3>3. CASE kind = "completed"
      <4>1. Kinds(turns[t].item) \subseteq Committed \cup {"delta"}
        BY <2>2, <3>1, <3>3 DEF SaidOfTurn
      <4> QED BY <3>3, <4>1, Following, KindNames
    <3> QED BY <2>2, <3>2, <3>3, KindNames DEF Speaks
  <2>5. SaidOfTurn(t)'
    <3>1. CASE kind = "delta"
      <4>1. PICK x : x = turns[t].item
        OBVIOUS
      <4>2. x \in 1..Len(told) /\ x \in 1..(Len(told) + 1)
        BY <1>1, <4>1 DEF ItemsInv
      <4>3. Kinds(x) \subseteq Committed
        BY <1>1, <1>2, <2>2, <3>1, <4>1, ItemsInvParts DEF SaidOfTurn
      <4>4. Kinds(x)' = Kinds(x) \/ Kinds(x)' = Kinds(x) \cup {"delta"}
        BY <1>1, <2>3, <2>4, <3>1, <4>1, <4>2, SaysItem
      <4>5. Kinds(turns[t].item)' = Kinds(x)'
        BY <1>1, <4>1, NextItems
      <4> QED BY <1>1, <2>2, <2>3, <3>1, <4>3, <4>4, <4>5 DEF SaidOfTurn
    <3>2. CASE kind \in {"completed", "failed"}
      BY <1>1, <2>2, <2>3, <3>2 DEF SaidOfTurn
    <3> QED BY <2>2, <3>1, <3>2 DEF Speaks
  <2>6. ItemsInv'
    BY <1>1, <2>3, <2>4, <2>5, TurnSays
  <2>7. ReplyInv'
    <3>1. turns[t].at # "snapshot" /\ ~Sends(Serve)
      BY <1>2, <2>2 DEF Speaks
    <3> QED BY <1>1, <2>3, <2>4, <3>1, TurnSaysReply
  <2> QED BY <2>6, <2>7
<1> QED BY <1>2, <1>4, <1>5

\* A task is over, and says nothing more.
LEMMA TurnEnds ==
  ASSUME SessionInv, NEW t \in Turns, turns' = At(t, "done"), told' = told,
         UNCHANGED <<pc, reply, buf>>, Sends(Serve)' <=> Sends(Serve),
         \A u \in Turns : u # t => (Sends(u)' <=> Sends(u))
  PROVE  ItemsInv' /\ ReplyInv'
<1>1. /\ ItemsInv /\ turns \in Seq(TurnRecords) /\ "done" \in Places /\ Len(told) \in Nat
  BY DEF SessionInv, TasksInv, ItemsInv, Places
<1>2. /\ Turns' = Turns /\ Len(turns') = Len(turns) /\ turns'[t].at = "done"
      /\ \A u \in Turns : turns'[u].item = turns[u].item
      /\ \A u \in Turns : u # t => turns'[u].at = turns[u].at
  BY <1>1, MovedTurn DEF Turns
<1>3. ItemsInv'
  BY <1>1, <1>2, QuietItems
<1>4. ReplyInv'
  <2>1. PICK x : x = reply.item
    OBVIOUS
  <2>2. Kinds(reply.item)' = Kinds(x)' /\ Kinds(x)' = Kinds(x)
    BY <2>1, NextItems
  <2> QED BY <1>1, <1>2, <2>1, <2>2, ReplyKept
<1> QED BY <1>3, <1>4

LEMMA TurnReturnsItems ==
  ASSUME SessionInv, NEW t \in Turns, TurnReturns(t)
  PROVE  ItemsInv' /\ ReplyInv'
<1>1. /\ ItemsInv /\ turns \in Seq(TurnRecords) /\ SaidOfTurn(t)
      /\ turns[t].at = "work" /\ UNCHANGED <<pc, reply, buf>>
  BY ItemsInvParts DEF SessionInv, TasksInv, TurnReturns, audioVars
<1>2. /\ Sends(Serve)' <=> Sends(Serve)
      /\ \A u \in Turns : u # t => (Sends(u)' <=> Sends(u))
  BY TurnReturnsFlows DEF SessionInv, Flow
<1>3. CASE turns' = At(t, "done") /\ UNCHANGED sendVars
  BY <1>1, <1>2, <1>3, TurnEnds DEF sendVars
<1>4. CASE \E kind \in {"delta", "failed"} :
             turns' = At(t, kind) /\ Enter(t, TurnEvent(t, kind))
  <2>1. PICK kind \in {"delta", "failed"} :
          turns' = At(t, kind) /\ Join(line, t, Event(kind, turns[t].item, 0))
    BY <1>4 DEF Enter, TurnEvent
  <2>2. PICK x : x = turns[t].item
    OBVIOUS
  <2>3. /\ x \in 1..Len(told) /\ x \in 1..(Len(told) + 1) /\ 0 \in Nat
        /\ Kinds(x) \subseteq Committed
    BY <1>1, <2>2 DEF ItemsInv, SaidOfTurn
  <2>4. /\ Turns' = Turns /\ Len(turns') = Len(turns) /\ turns'[t].at = kind
        /\ \A u \in Turns : turns'[u].item = turns[u].item
        /\ \A u \in Turns : u # t => turns'[u].at = turns[u].at
    <3>1. kind \in Places
      BY DEF Places
    <3> QED BY <1>1, <2>1, <3>1, MovedTurn DEF Turns
  <2>5. /\ told' = Told(Event(kind, x, 0)) \/ told' = Known(x)
        /\ ~Sends(t)' => told' = Known(x)
    BY <2>1, <2>2, Joins, EventFields
  <2>6. kind \in DOMAIN Ranks /\ \A k \in Kinds(x) : Follows(k, kind)
    BY <2>3, KindNames, Following
  <2>7. /\ Kinds(x)' = Kinds(x) \/ Kinds(x)' = Kinds(x) \cup {kind}
        /\ told' = Known(x) => Kinds(x)' = Kinds(x)
    BY <1>1, <2>3, <2>5, <2>6, SaysItem
  <2>8. SaidOfTurn(t)'
    <3>1. Kinds(turns[t].item)' = Kinds(x)'
      BY <2>2, <2>4, NextItems
    <3>2. CASE kind = "delta"
      BY <2>3, <2>4, <2>5, <2>7, <3>1, <3>2 DEF SaidOfTurn
    <3>3. CASE kind = "failed"
      BY <2>3, <2>4, <2>5, <2>7, <3>1, <3>3 DEF SaidOfTurn
    <3> QED BY <3>2, <3>3
  <2>9. ItemsInv'
    BY <1>1, <1>2, <2>2, <2>4, <2>5, <2>6, <2>8, TurnSays
  <2>10. ReplyInv'
    BY <1>1, <1>2, <2>2, <2>4, <2>5, <2>6, TurnSaysReply
  <2> QED BY <2>9, <2>10
<1> QED BY <1>3, <1>4 DEF TurnReturns

LEMMA TurnSentItems ==
  ASSUME SessionInv, NEW t \in Turns, TurnSent(t)
  PROVE  ItemsInv' /\ ReplyInv'
<1>1. /\ ItemsInv /\ turns \in Seq(TurnRecords) /\ SaidOfTurn(t)
      /\ UNCHANGED <<pc, reply, buf>>
  BY ItemsInvParts DEF SessionInv, TasksInv, TurnSent, audioVars
<1>2. /\ Sends(Serve)' <=> Sends(Serve)
      /\ \A u \in Turns : u # t => (Sends(u)' <=> Sends(u))
  BY TurnSentFlows DEF SessionInv, Flow
<1>3. CASE turns' = At(t, "done") /\ Rest(LeaveLine)
  BY <1>1, <1>2, <1>3, TurnEnds DEF Rest
<1>4. CASE /\ turns[t].at = "delta" /\ turns' = At(t, "completed")
           /\ Join(LeaveLine, t, TurnEvent(t, "completed"))
  <2>1. Join(LeaveLine, t, Event("completed", turns[t].item, 0))
    BY <1>4 DEF TurnEvent
  <2>2. PICK x : x = turns[t].item
    OBVIOUS
  <2>3. /\ x \in 1..Len(told) /\ x \in 1..(Len(told) + 1) /\ 0 \in Nat
        /\ Kinds(x) \subseteq Committed \cup {"delta"}
    BY <1>1, <1>4, <2>2 DEF ItemsInv, SaidOfTurn
  <2>4. /\ Turns' = Turns /\ Len(turns') = Len(turns) /\ turns'[t].at = "completed"
        /\ \A u \in Turns : turns'[u].item = turns[u].item
        /\ \A u \in Turns : u # t => turns'[u].at = turns[u].at
    <3>1. "completed" \in Places
      BY DEF Places
    <3> QED BY <1>1, <1>4, <3>1, MovedTurn DEF Turns
  <2>5. /\ told' = Told(Event("completed", x, 0)) \/ told' = Known(x)
        /\ ~Sends(t)' => told' = Known(x)
    BY <2>1, <2>2, Joins, EventFields
  <2>6. "completed" \in DOMAIN Ranks /\ \A k \in Kinds(x) : Follows(k, "completed")
    BY <2>3, KindNames, Following
  <2>7. told' = Known(x) => Kinds(x)' = Kinds(x)
    BY <1>1, <2>3, <2>5, <2>6, SaysItem
  <2>8. SaidOfTurn(t)'
    <3>1. Kinds(turns[t].item)' = Kinds(x)'
      BY <2>2, <2>4, NextItems
    <3> QED BY <2>3, <2>4, <2>5, <2>7, <3>1 DEF SaidOfTurn
  <2>9. ItemsInv'
    BY <1>1, <1>2, <2>2, <2>4, <2>5, <2>6, <2>8, TurnSays
  <2>10. ReplyInv'
    BY <1>1, <1>2, <1>4, <2>2, <2>4, <2>5, <2>6, TurnSaysReply
  <2> QED BY <2>9, <2>10
<1> QED BY <1>3, <1>4 DEF TurnSent

LEMMA TurnItems ==
  ASSUME SessionInv, NEW t \in Turns, Turn(t)
  PROVE  ItemsInv' /\ ReplyInv'
<1>1. CASE TurnUnwinds(t)
  <2>1. /\ turns' = At(t, "done") /\ told' = told /\ UNCHANGED <<pc, reply, buf>>
    BY <1>1 DEF TurnUnwinds, Rest, audioVars
  <2>2. /\ Sends(Serve)' <=> Sends(Serve)
        /\ \A u \in Turns : u # t => (Sends(u)' <=> Sends(u))
    BY <1>1, TurnUnwindsFlows DEF SessionInv, Flow
  <2> QED BY <2>1, <2>2, TurnEnds
<1> QED BY <1>1, TurnReturnsItems, TurnSentItems DEF Turn

-----------------------------------------------------------------------------
(* The fourth layer: what the turns hold.                                   *)

\* Detection has yet to read to the end of what it has announced.
Reads == pc \in {"score", "started"} \/ (pc \in {"stopped", "slot"} /\ auto)

\* What was said of the open item fits the buffer.
OpenSpeech ==
  pc \in Open /\ buf.active => \A e \in Announced :
    /\ e.kind = "started" => buf.start = Max({e.at, cut})
    /\ e.kind = "stopped" => e.at <= buf.total /\ (Reads => e.at <= FrameEnd(buf))

\* What was said of a turn's item fits the turn, and turns are apart.
HoldsSpeech(t) ==
  /\ \A e \in Range(Events(turns[t].item)) :
       /\ e.kind = "started" =>
            /\ turns[t].from = Max({e.at, turns[t].after})
            /\ turns[t].from + StartFrames * FrameBytes <= turns[t].to
       /\ e.kind = "stopped" => e.at <= turns[t].to
  /\ turns[t].to <= cut

TurnSpeech ==
  /\ \A t \in Turns : HoldsSpeech(t)
  /\ \A t, u \in Turns : t < u => turns[t].to <= turns[u].from

LEMMA SpeechParts ==
  ASSUME ItemsInv
  PROVE  SpeechInv <=> TurnSpeech /\ OpenSpeech
<1>1. \A t \in Turns : told[turns[t].item] = Events(turns[t].item)
  BY DEF ItemsInv, Events
<1>2. /\ TurnsHoldTheirSpeech /\ (\A t \in Turns : turns[t].to <= cut) <=> TurnSpeech
  BY <1>1 DEF TurnsHoldTheirSpeech, TurnSpeech, HoldsSpeech
<1> QED BY <1>2 DEF SpeechInv, OpenSpeech, Reads

LEMMA SpeechPartsNext ==
  ASSUME ItemsInv', TurnSpeech', OpenSpeech'
  PROVE  SpeechInv'
<1>1. \A t \in Turns' : told'[turns'[t].item] = Events(turns[t].item)'
  BY DEF ItemsInv, Events
<1>2. TurnsHoldTheirSpeech' /\ (\A t \in Turns' : turns'[t].to <= cut')
  BY <1>1 DEF TurnsHoldTheirSpeech, TurnSpeech, HoldsSpeech
<1> QED BY <1>2 DEF SpeechInv, OpenSpeech, Reads

LEMMA NextEvents ==
  ASSUME NEW x
  PROVE  /\ \A t : turns'[t].item = x => Events(turns[t].item)' = Events(x)'
         /\ buf'.pending = x => Events(buf.pending)' = Events(x)'
         /\ told' = told => Events(x)' = Events(x)
BY DEF Events

\* A turn that keeps its audio, of whose speech nothing more is said.
LEMMA SpeechKept ==
  ASSUME NEW t, HoldsSpeech(t), NEW x, x = turns[t].item, turns'[t].item = x,
         turns'[t].after = turns[t].after, turns'[t].from = turns[t].from,
         turns'[t].to = turns[t].to, turns[t].to \in Nat,
         \A e \in Range(Events(x)') : e \in Range(Events(x)) \/ e.kind \notin Unsaid,
         cut \in Nat, cut' \in Nat, cut <= cut'
  PROVE  HoldsSpeech(t)'
<1>1. Events(turns[t].item)' = Events(x)'
  BY NextEvents
<1>2. ASSUME NEW e \in Range(Events(turns[t].item)')
      PROVE  /\ e.kind = "started" =>
                  /\ turns'[t].from = Max({e.at, turns'[t].after})
                  /\ turns'[t].from + StartFrames * FrameBytes <= turns'[t].to
             /\ e.kind = "stopped" => e.at <= turns'[t].to
  <2>1. e \in Range(Events(x)) \/ e.kind \notin Unsaid
    BY <1>1, <1>2
  <2>2. CASE e \in Range(Events(x))
    BY <2>2 DEF HoldsSpeech
  <2>3. CASE e.kind \notin Unsaid
    BY <2>3 DEF Unsaid
  <2> QED BY <2>1, <2>2, <2>3
<1>3. turns'[t].to <= cut'
  BY DEF HoldsSpeech
<1> QED BY <1>2, <1>3 DEF HoldsSpeech

LEMMA TurnsKept ==
  ASSUME SessionInv, Turns' = Turns, cut' \in Nat, cut <= cut',
         \A t \in Turns :
           /\ turns'[t].item = turns[t].item /\ turns'[t].after = turns[t].after
           /\ turns'[t].from = turns[t].from /\ turns'[t].to = turns[t].to,
         \A x : (\E t \in Turns : turns[t].item = x) =>
           \A e \in Range(Events(x)') : e \in Range(Events(x)) \/ e.kind \notin Unsaid
  PROVE  TurnSpeech'
<1>1. TurnSpeech /\ turns \in Seq(TurnRecords) /\ cut \in Nat
  BY SpeechParts DEF SessionInv, TasksInv, BufferInv
<1>2. ASSUME NEW t \in Turns'
      PROVE  HoldsSpeech(t)'
  <2>1. t \in Turns /\ HoldsSpeech(t) /\ turns[t].to \in Nat
    BY <1>1, TurnFields DEF TurnSpeech
  <2>2. PICK x : x = turns[t].item
    OBVIOUS
  <2> QED BY <1>1, <2>1, <2>2, SpeechKept
<1>3. \A t, u \in Turns' : t < u => turns'[t].to <= turns'[u].from
  BY <1>1 DEF TurnSpeech
<1> QED BY <1>2, <1>3 DEF TurnSpeech

\* The speech that is open stays as it is.
LEMMA OpenKept ==
  ASSUME SessionInv, cut' = cut, Fits(buf'),
         pc' \in Open /\ buf'.active =>
           /\ pc \in Open /\ buf.active
           /\ buf'.start = buf.start /\ buf.total <= buf'.total
           /\ \A e \in Announced' : e \in Announced
           /\ Reads' => \/ Reads /\ FrameEnd(buf) <= FrameEnd(buf')
                        \/ buf.total <= FrameEnd(buf')
         ,
         \A e \in Announced : e.at \in Nat
  PROVE  OpenSpeech'
<1>1. OpenSpeech /\ Fits(buf)
  BY SpeechParts DEF SessionInv, BufferInv
<1>2. SUFFICES ASSUME pc' \in Open, buf'.active, NEW e \in Announced'
               PROVE  /\ e.kind = "started" => buf'.start = Max({e.at, cut'})
                      /\ e.kind = "stopped" =>
                           e.at <= buf'.total /\ (Reads' => e.at <= FrameEnd(buf'))
  BY DEF OpenSpeech
<1>3. /\ e \in Announced /\ e.at \in Nat
      /\ e.kind = "started" => buf.start = Max({e.at, cut})
      /\ e.kind = "stopped" => e.at <= buf.total /\ (Reads => e.at <= FrameEnd(buf))
  BY <1>1, <1>2 DEF OpenSpeech
<1>4. /\ buf.total \in Nat /\ buf'.total \in Nat
      /\ FrameEnd(buf) \in Nat /\ FrameEnd(buf') \in Nat
  <2>1. /\ buf.total \in Nat /\ buf.start \in Nat /\ buf.scan \in Nat
    BY <1>1, BufferFields
  <2>2. /\ buf'.total \in Nat /\ buf'.start \in Nat /\ buf'.scan \in Nat
    BY BufferFields
  <2> QED BY <2>1, <2>2 DEF FrameEnd
<1>5. e.kind = "started" => buf'.start = Max({e.at, cut'})
  BY <1>2, <1>3
<1>6. e.kind = "stopped" => e.at <= buf'.total
  BY <1>2, <1>3, <1>4
<1>7. e.kind = "stopped" /\ Reads' => e.at <= FrameEnd(buf')
  BY <1>2, <1>3, <1>4
<1> QED BY <1>5, <1>6, <1>7

\* What was announced are events with a time.
LEMMA AnnouncedAreEvents ==
  ASSUME SessionInv
  PROVE  /\ \A x : \A e \in Range(Events(x)) : e \in ItemEvents /\ e.at \in Nat
         /\ \A e \in Announced : e.at \in Nat
<1>1. told \in Seq(Seq(ItemEvents)) /\ ReplyInv
  BY DEF SessionInv, ItemsInv
<1>2. \A x : Events(x) \in Seq(ItemEvents)
  BY <1>1 DEF Events
<1>3. \A x : \A e \in Range(Events(x)) : e \in ItemEvents /\ e.at \in Nat
  <2>1. SUFFICES ASSUME NEW x, NEW e \in Range(Events(x))
                 PROVE  e \in ItemEvents /\ e.at \in Nat
    OBVIOUS
  <2>2. PICK i \in DOMAIN Events(x) : e = Events(x)[i]
    BY <2>1 DEF Range
  <2>3. e \in ItemEvents
    BY <1>2, <2>2
  <2> QED BY <2>3 DEF ItemEvents
<1>4. pc \in {"started", "stopped"} => reply.at \in Nat
  BY <1>1 DEF ReplyInv
<1> QED BY <1>3, <1>4 DEF Announced

LEMMA MoreTold ==
  ASSUME SessionInv, NEW item \in 1..(Len(told) + 1), NEW kind \in DOMAIN Ranks, NEW at \in Nat,
         told' = Told(Event(kind, item, at)) \/ told' = Known(item)
  PROVE  /\ \A i : i # item => Events(i)' = Events(i)
         /\ \A e \in Range(Events(item)') :
              e \in Range(Events(item)) \/ e = [kind |-> kind, at |-> at]
<1>1. told \in Seq(Seq(ItemEvents)) /\ [kind |-> kind, at |-> at] \in ItemEvents
  BY DEF SessionInv, ItemsInv, ItemEvents
<1>2. /\ \A i : i # item => Events(i)' = Events(i)
      /\ \/ Events(item)' = Events(item)
         \/ Events(item)' = Append(Events(item), [kind |-> kind, at |-> at])
      /\ Events(item) \in Seq(ItemEvents)
  BY <1>1, ToldMore
<1>3. Range(Append(Events(item), [kind |-> kind, at |-> at])) =
        Range(Events(item)) \cup {[kind |-> kind, at |-> at]}
  BY <1>1, <1>2, OrderedAppend
<1> QED BY <1>2, <1>3

LEMMA AnnouncedKept ==
  ASSUME told' = told, buf'.pending = buf.pending,
         pc' \notin {"started", "stopped"} \/ (pc' = pc /\ reply' = reply)
  PROVE  \A e \in Announced' : e \in Announced
<1>1. Events(buf.pending)' = Events(buf.pending)
  BY DEF Events
<1> QED BY <1>1 DEF Announced

\* Nothing is said, and the audio is left alone.
LEMMA QuietSpeaks ==
  ASSUME SessionInv, told' = told, UNCHANGED <<buf, cut>>, Turns' = Turns,
         \A t \in Turns :
           /\ turns'[t].item = turns[t].item /\ turns'[t].after = turns[t].after
           /\ turns'[t].from = turns[t].from /\ turns'[t].to = turns[t].to,
         pc' \in Open => /\ pc \in Open
                         /\ pc' \notin {"started", "stopped"} \/ (pc' = pc /\ reply' = reply)
                         /\ Reads' => Reads
  PROVE  TurnSpeech' /\ OpenSpeech'
<1>1. /\ Fits(buf) /\ Fits(buf') /\ cut \in Nat /\ cut' \in Nat /\ cut <= cut'
      /\ buf.total \in Nat /\ buf.start \in Nat /\ buf.scan \in Nat
  BY BufferFields DEF SessionInv, BufferInv
<1>2. \A x : Events(x)' = Events(x)
  BY NextEvents
<1>3. TurnSpeech'
  BY <1>1, <1>2, TurnsKept
<1>4. \A e \in Announced : e.at \in Nat
  BY AnnouncedAreEvents
<1>5. FrameEnd(buf') = FrameEnd(buf) /\ FrameEnd(buf) \in Nat
  BY <1>1 DEF FrameEnd
<1>6. ASSUME pc' \in Open, buf'.active
      PROVE  /\ pc \in Open /\ buf.active
             /\ buf'.start = buf.start /\ buf.total <= buf'.total
             /\ \A e \in Announced' : e \in Announced
             /\ Reads' => \/ Reads /\ FrameEnd(buf) <= FrameEnd(buf')
                          \/ buf.total <= FrameEnd(buf')
  <2>1. \A e \in Announced' : e \in Announced
    BY <1>6, AnnouncedKept
  <2>2. Reads' => Reads /\ FrameEnd(buf) <= FrameEnd(buf')
    BY <1>5, <1>6
  <2> QED BY <1>1, <1>6, <2>1, <2>2
<1>7. OpenSpeech'
  BY <1>1, <1>4, <1>6, OpenKept
<1> QED BY <1>3, <1>7

\* Detection goes on.
LEMMA DetectSpeaks ==
  ASSUME SessionInv, told' = told, cut' = cut, Turns' = Turns,
         \A t \in Turns :
           /\ turns'[t].item = turns[t].item /\ turns'[t].after = turns[t].after
           /\ turns'[t].from = turns[t].from /\ turns'[t].to = turns[t].to,
         NEW b, Fits(b), Detect(b), b.pending = buf.pending, pc \in Open,
         b.active => b.start = buf.start /\ buf.total <= b.total /\ b.scan = buf.scan,
         b.active => Reads \/ (detects => ~FrameReady(buf))
  PROVE  TurnSpeech' /\ OpenSpeech'
<1>1. /\ Fits(buf) /\ cut \in Nat /\ cut' \in Nat /\ cut <= cut'
      /\ buf.total \in Nat /\ buf.start \in Nat /\ buf.scan \in Nat /\ buf.len \in Nat
      /\ buf.start + buf.len = buf.total /\ buf.active \in BOOLEAN
      /\ b.start \in Nat /\ b.scan \in Nat /\ b.active \in BOOLEAN
  BY BufferFields DEF SessionInv, BufferInv
<1>2. \A x : Events(x)' = Events(x)
  BY NextEvents
<1>3. TurnSpeech'
  BY <1>1, <1>2, TurnsKept
<1>4. \A e \in Announced : e.at \in Nat
  BY AnnouncedAreEvents
<1>5. /\ pc' \in {"score", "receive"} /\ Fits(buf') /\ buf'.pending = b.pending
      /\ buf'.active = b.active /\ buf'.start = b.start /\ buf'.total = b.total
      /\ pc' = "score" => detects /\ FrameReady(b) /\ buf'.scan = b.scan + FrameBytes
  BY ScannedFits DEF Detect
<1>6. ASSUME pc' \in Open, buf'.active
      PROVE  /\ pc \in Open /\ buf.active
             /\ buf'.start = buf.start /\ buf.total <= buf'.total
             /\ \A e \in Announced' : e \in Announced
             /\ Reads' => \/ Reads /\ FrameEnd(buf) <= FrameEnd(buf')
                          \/ buf.total <= FrameEnd(buf')
  <2>1. \A e \in Announced' : e \in Announced
    BY <1>5, AnnouncedKept
  <2>2. b.active /\ buf.active
    BY <1>1, <1>5, <1>6 DEF Fits
  <2>3. ASSUME Reads'
        PROVE  \/ Reads /\ FrameEnd(buf) <= FrameEnd(buf')
               \/ buf.total <= FrameEnd(buf')
    <3>1. pc' = "score"
      BY <1>5, <2>3 DEF Reads
    <3>2. FrameEnd(buf') = buf.start + buf.scan + FrameBytes /\ FrameEnd(buf) = buf.start + buf.scan
      BY <1>1, <1>5, <2>2, <3>1, Frames DEF FrameEnd
    <3>3. CASE Reads
      BY <1>1, <3>2, <3>3, Frames
    <3>4. CASE ~FrameReady(buf)
      BY <1>1, <3>2, <3>4, Frames DEF FrameReady
    <3> QED BY <1>5, <2>2, <3>1, <3>3, <3>4
  <2> QED BY <1>5, <1>6, <2>1, <2>2, <2>3
<1>7. OpenSpeech'
  BY <1>1, <1>4, <1>5, <1>6, OpenKept
<1> QED BY <1>3, <1>7

\* Speech starts where the client is told, unless audio was taken after that.
LEMMA StartSpeaks ==
  ASSUME SessionInv, NEW b, SpeechStarts(b), pc = "score", AnnouncedStart(b) \in Nat,
         buf'.pending = NewItem, buf'.start = Max({AnnouncedStart(b), cut})
  PROVE  TurnSpeech' /\ OpenSpeech'
<1> DEFINE at == AnnouncedStart(b)
<1>1. /\ ItemsInv /\ told \in Seq(Seq(ItemEvents)) /\ Len(told) \in Nat
      /\ turns' = turns /\ Turns' = Turns /\ cut' = cut /\ cut \in Nat
      /\ pc' = "started" /\ at \in Nat
      /\ reply' = Event("started", NewItem, at)
      /\ Join(line, Serve, Event("started", NewItem, at))
  BY DEF SessionInv, ItemsInv, BufferInv, SpeechStarts, turnVars, Turns, Say, SayBehind
<1> HIDE DEF at
<1>2. NewItem = Len(told) + 1 /\ NewItem \in 1..(Len(told) + 1)
  BY <1>1 DEF NewItem
<1>3. Events(NewItem) = <<>>
  BY <1>1, <1>2 DEF Events
<1>4. PICK item : item = NewItem
  OBVIOUS
<1>5. /\ \A i : i # item => Events(i)' = Events(i)
      /\ \A e \in Range(Events(item)') :
           e \in Range(Events(item)) \/ e = [kind |-> "started", at |-> at]
  <2>1. told' = Told(Event("started", item, at)) \/ told' = Known(item)
    BY <1>1, <1>4, Joins, EventFields
  <2> QED BY <1>1, <1>2, <1>4, <2>1, KindNames, MoreTold
<1>6. TurnSpeech'
  <2>1. \A t \in Turns : turns[t].item # item
    BY <1>1, <1>2, <1>4 DEF ItemsInv
  <2> QED BY <1>1, <1>5, <2>1, TurnsKept
<1>7. OpenSpeech'
  <2>1. Range(Events(item)) = {}
    BY <1>3, <1>4 DEF Range
  <2>2. Events(buf.pending)' = Events(item)'
    BY <1>4, NextEvents
  <2>3. /\ reply'.kind = "started" /\ reply'.at = at
    BY <1>1, EventFields
  <2>4. \A e \in Announced' : e = [kind |-> "started", at |-> at]
    BY <1>1, <1>5, <2>1, <2>2, <2>3 DEF Announced
  <2>5. \A e \in Announced' : e.kind = "started" /\ e.at = at
    BY <2>4
  <2> QED BY <1>1, <2>5 DEF OpenSpeech, at
<1> QED BY <1>6, <1>7

\* Speech stops at a frame detection has read, or at the end of the audio.
LEMMA StopSpeaks ==
  ASSUME SessionInv, NEW b, NEW end, NEW byDetection \in BOOLEAN, Stop(b, end, byDetection),
         Fits(b), b.start = buf.start, b.total = buf.total, b.scan = buf.scan,
         b.pending = buf.pending, buf.active,
         \/ end = buf.total /\ ~byDetection /\ pc = "receive"
         \/ end = FrameEnd(buf) /\ pc = "score"
  PROVE  TurnSpeech' /\ OpenSpeech'
<1>1. PICK item : item = buf.pending
  OBVIOUS
<1>2. /\ Fits(buf) /\ buf.start \in Nat /\ buf.scan \in Nat /\ buf.len \in Nat
      /\ buf.total \in Nat /\ buf.start + buf.len = buf.total /\ buf.scan <= buf.len
      /\ cut \in Nat
  BY BufferFields DEF SessionInv, BufferInv
<1>3. /\ ItemsInv /\ Len(told) \in Nat
      /\ turns' = turns /\ Turns' = Turns /\ cut' = cut /\ buf' = b
      /\ pc' = "stopped" /\ auto' = byDetection
      /\ reply' = Event("stopped", item, end)
      /\ Join(line, Serve, Event("stopped", item, end))
  BY <1>1 DEF SessionInv, ItemsInv, Stop, turnVars, Turns, Say, SayBehind
<1>4. FrameEnd(buf) = buf.start + buf.scan /\ FrameEnd(buf) \in Nat
      /\ FrameEnd(buf) <= buf.total /\ FrameEnd(b) = FrameEnd(buf)
  BY <1>2 DEF FrameEnd
<1>5. end \in Nat /\ end <= buf.total
  BY <1>2, <1>4
<1>6. item \in 1..Len(told) /\ item \in 1..(Len(told) + 1)
  <2>1. item # None
    BY <1>1, <1>2 DEF Fits
  <2> QED BY <1>1, <1>3, <2>1 DEF ItemsInv, None
<1>7. /\ \A i : i # item => Events(i)' = Events(i)
      /\ \A e \in Range(Events(item)') :
           e \in Range(Events(item)) \/ e = [kind |-> "stopped", at |-> end]
  <2>1. told' = Told(Event("stopped", item, end)) \/ told' = Known(item)
    BY <1>3, Joins, EventFields
  <2> QED BY <1>5, <1>6, <2>1, KindNames, MoreTold
<1>8. TurnSpeech'
  <2>1. \A t \in Turns : turns[t].item # item
    BY <1>1, <1>3 DEF ItemsInv
  <2> QED BY <1>2, <1>3, <1>7, <2>1, TurnsKept
<1>9. OpenSpeech'
  <2>1. /\ OpenSpeech /\ pc \in Open
    BY <1>3, SpeechParts DEF SessionInv, Open, Waits
  <2>2. Events(buf.pending)' = Events(item)'
    BY <1>1, <1>3, NextEvents
  <2>3. reply'.kind = "stopped" /\ reply'.at = end
    BY <1>3, EventFields
  <2>4. \A e \in Announced' : e \in Announced \/ e = [kind |-> "stopped", at |-> end]
    BY <1>1, <1>3, <1>7, <2>2, <2>3 DEF Announced
  <2>5. ASSUME NEW e \in Announced'
        PROVE  /\ e.kind = "started" => b.start = Max({e.at, cut})
               /\ e.kind = "stopped" =>
                    e.at <= b.total /\ (byDetection => e.at <= FrameEnd(b))
    <3>1. CASE e \in Announced
      <4>1. /\ e.kind = "started" => buf.start = Max({e.at, cut})
            /\ e.kind = "stopped" => e.at <= buf.total /\ (Reads => e.at <= FrameEnd(buf))
        BY <2>1, <3>1 DEF OpenSpeech
      <4>2. byDetection => Reads
        BY DEF Reads
      <4> QED BY <1>4, <4>1, <4>2
    <3>2. CASE e = [kind |-> "stopped", at |-> end]
      <4>1. e.kind = "stopped" /\ e.at = end
        BY <3>2
      <4>2. byDetection => end <= FrameEnd(b)
        BY <1>4
      <4> QED BY <1>5, <4>1, <4>2
    <3> QED BY <2>4, <3>1, <3>2
  <2>6. Reads' => byDetection
    BY <1>3 DEF Reads
  <2> QED BY <1>3, <2>5, <2>6 DEF OpenSpeech
<1> QED BY <1>8, <1>9

\* What detection has judged of an active buffer is in the turn.
LEMMA ActiveBytes ==
  ASSUME BufferInv, pc \in Open, pc # "score", buf.active
  PROVE  /\ StartFrames * FrameBytes <= buf.scan /\ StartFrames * FrameBytes \in Nat
<1>1. Fits(buf) /\ InStep(buf, buf.scan, heard, cut)
  BY DEF BufferInv
<1>2. buf.speech >= StartFrames /\ buf.speech \in Nat /\ buf.speech * FrameBytes <= buf.scan
      /\ buf.scan \in Nat
  BY <1>1, BufferFields DEF Fits, InStep
<1>3. /\ StartFrames * FrameBytes <= buf.speech * FrameBytes
      /\ StartFrames * FrameBytes \in Nat /\ buf.speech * FrameBytes \in Nat
  BY <1>2, Frames
<1> QED BY <1>2, <1>3

\* Audio that nobody speaks in.
LEMMA SilentSpeaks ==
  ASSUME SessionInv, turns' = turns, cut' \in Nat, cut <= cut', ~buf'.active,
         \A x : (\E t \in Turns : turns[t].item = x) =>
           \A e \in Range(Events(x)') : e \in Range(Events(x)) \/ e.kind \notin Unsaid
  PROVE  TurnSpeech' /\ OpenSpeech'
<1>1. OpenSpeech'
  BY DEF OpenSpeech
<1>2. TurnSpeech'
  <2>1. Turns' = Turns
    BY DEF Turns
  <2> QED BY <2>1, TurnsKept
<1> QED BY <1>1, <1>2

\* The turn that is taken holds what was said of its item.
LEMMA SnapshotSpeaks ==
  ASSUME SessionInv, auto' \in BOOLEAN, NEW rest, Snapshot(rest),
         \/ pc = "receive" /\ ~auto'
         \/ pc \in {"stopped", "slot"} /\ auto' = auto
  PROVE  TurnSpeech' /\ OpenSpeech'
<1> DEFINE size == Size(buf, auto')
<1>1. /\ ItemsInv /\ BufferInv /\ Fits(buf) /\ turns \in Seq(TurnRecords)
      /\ told \in Seq(Seq(ItemEvents)) /\ Len(told) \in Nat
      /\ cut \in Nat /\ cut <= buf.start /\ pc \in Open /\ pc # "score"
      /\ buf.start \in Nat /\ buf.scan \in Nat /\ buf.len \in Nat /\ buf.total \in Nat
      /\ buf.start + buf.len = buf.total /\ buf.scan <= buf.len
      /\ TurnSpeech /\ OpenSpeech
  <2>1. /\ ItemsInv /\ BufferInv /\ Fits(buf) /\ turns \in Seq(TurnRecords)
        /\ cut \in Nat /\ cut <= buf.start
    BY DEF SessionInv, BufferInv, TasksInv
  <2>2. told \in Seq(Seq(ItemEvents)) /\ Len(told) \in Nat
    BY <2>1 DEF ItemsInv
  <2>3. pc \in Open /\ pc # "score"
    BY DEF Open, Waits, SendsAt
  <2>4. TurnSpeech /\ OpenSpeech
    BY <2>1, SpeechParts DEF SessionInv
  <2> QED BY <2>1, <2>2, <2>3, <2>4, BufferFields
<1>2. CASE pc' = "reply" /\ SayBehind(rest, OtherEvent) /\ UNCHANGED <<turns, buf, cut>>
  <2>1. told' = told /\ Turns' = Turns /\ ~Reads'
    BY <1>2, QuietSpeech DEF Turns, Reads
  <2> QED BY <1>1, <1>2, <2>1, QuietSpeaks
<1>3. CASE pc' = "committed"
  <2>1. PICK item : item = TakenItem
    OBVIOUS
  <2>2. PICK n : n = Len(turns')
    OBVIOUS
  <2>3. /\ Whole(buf, size) /\ size \in Nat
        /\ n = Len(turns) + 1 /\ Turns' = Turns \cup {n} /\ n \notin Turns
        /\ \A u \in Turns : turns'[u] = turns[u]
        /\ turns'[n] = NewTurn(size)
        /\ buf' = Remainder(buf, size) /\ cut' = buf.start + size
        /\ SayBehind(rest, Event("committed", item, 0))
    BY <1>3, <2>1, <2>2, SnapshotCases
  <2>4. /\ turns'[n].item = item /\ turns'[n].after = cut
        /\ turns'[n].from = buf.start /\ turns'[n].to = buf.start + size
    BY <2>1, <2>3, NewTurnFields
  <2>5. ~buf'.active
    BY <1>1, <2>3, RemainderAgrees
  <2>6. OpenSpeech'
    BY <2>5 DEF OpenSpeech
  <2>7. /\ item \in 1..(Len(told) + 1)
        /\ \A t \in Turns : turns[t].item # item
    BY <2>1, TakenItemIsFree
  <2>8. /\ \A i : i # item => Events(i)' = Events(i)
        /\ \A e \in Range(Events(item)') :
             e \in Range(Events(item)) \/ e = [kind |-> "committed", at |-> 0]
    <3>1. told' = Told(Event("committed", item, 0)) \/ told' = Known(item)
      BY <2>3, Joins, EventFields DEF SayBehind
    <3> QED BY <2>7, <3>1, KindNames, MoreTold
  <2>9. size = IF auto' THEN buf.scan ELSE buf.len
    BY DEF Size
  <2> HIDE DEF size
  <2>10. /\ cut' \in Nat /\ cut <= cut' /\ buf.start + size \in Nat
    BY <1>1, <2>3
  <2>11. HoldsSpeech(n)'
    <3>1. Events(turns[n].item)' = Events(item)'
      BY <2>4, NextEvents
    <3>2. ASSUME NEW e \in Range(Events(item)')
          PROVE  /\ e.kind = "started" =>
                      /\ buf.start = Max({e.at, cut})
                      /\ buf.start + StartFrames * FrameBytes <= buf.start + size
                 /\ e.kind = "stopped" => e.at <= buf.start + size
      <4>1. CASE e = [kind |-> "committed", at |-> 0]
        <5>1. e.kind = "committed"
          BY <4>1
        <5> QED BY <5>1
      <4>2. CASE e \in Range(Events(item))
        <5>1. item = buf.pending /\ buf.pending # None
          <6>1. item # NewItem
            <7>1. item = NewItem => Events(item) = <<>>
              BY <1>1 DEF NewItem, Events
            <7> QED BY <4>2, <7>1 DEF Range
          <6> QED BY <2>1, <6>1 DEF TakenItem
        <5>2. buf.active /\ e \in Announced
          BY <1>1, <4>2, <5>1 DEF Fits, Announced
        <5>3. /\ e.kind = "started" => buf.start = Max({e.at, cut})
              /\ e.kind = "stopped" => e.at <= buf.total /\ (Reads => e.at <= FrameEnd(buf))
          BY <1>1, <5>2 DEF OpenSpeech
        <5>4. auto' => Reads
          BY DEF Reads
        <5>5. StartFrames * FrameBytes <= buf.scan /\ StartFrames * FrameBytes \in Nat
          BY <1>1, <5>2, ActiveBytes
        <5>6. e.at \in Nat
          BY <5>2, AnnouncedAreEvents
        <5>7. StartFrames * FrameBytes <= size
          BY <1>1, <2>9, <5>5
        <5>8. e.kind = "stopped" => e.at <= buf.start + size
          <6>1. CASE auto'
            BY <1>1, <2>9, <5>3, <5>4, <5>6, <6>1 DEF FrameEnd
          <6>2. CASE ~auto'
            BY <1>1, <2>9, <5>3, <5>6, <6>2
          <6> QED BY <6>1, <6>2
        <5>9. buf.start + StartFrames * FrameBytes <= buf.start + size
          BY <1>1, <2>3, <5>5, <5>7
        <5> QED BY <5>3, <5>8, <5>9
      <4> QED BY <2>8, <4>1, <4>2
    <3> QED BY <2>3, <2>4, <2>10, <3>1, <3>2 DEF HoldsSpeech
  <2>12. ASSUME NEW t \in Turns
         PROVE  HoldsSpeech(t)' /\ turns'[t].to <= turns'[n].from
    <3>1. PICK x : x = turns[t].item
      OBVIOUS
    <3>2. HoldsSpeech(t) /\ turns[t].to \in Nat /\ x # item
      BY <1>1, <2>7, <3>1, TurnFields DEF TurnSpeech
    <3>3. HoldsSpeech(t)'
      <4>1. turns'[t] = turns[t]
        BY <2>3
      <4>2. \A e \in Range(Events(x)') : e \in Range(Events(x)) \/ e.kind \notin Unsaid
        BY <2>8, <3>2
      <4> QED BY <1>1, <2>10, <3>1, <3>2, <4>1, <4>2, SpeechKept
    <3>4. turns'[t].to <= turns'[n].from
      <4>1. turns'[t].to = turns[t].to /\ turns'[n].from = buf.start
        BY <2>3, <2>4
      <4>2. turns[t].to <= cut
        BY <3>2 DEF HoldsSpeech
      <4> QED BY <1>1, <3>2, <4>1, <4>2
    <3> QED BY <3>3, <3>4
  <2>13. ASSUME NEW t \in Turns', NEW u \in Turns', t < u
         PROVE  turns'[t].to <= turns'[u].from
    <3>1. t \in Turns
      BY <2>3, <2>13 DEF Turns
    <3>2. CASE u \in Turns
      BY <1>1, <2>3, <2>13, <3>1, <3>2 DEF TurnSpeech
    <3>3. CASE u = n
      BY <2>12, <3>1, <3>3
    <3> QED BY <2>3, <3>2, <3>3
  <2>14. \A t \in Turns' : HoldsSpeech(t)'
    BY <2>3, <2>11, <2>12
  <2> QED BY <2>6, <2>13, <2>14 DEF TurnSpeech
<1>4. CASE /\ pc' = "failing" /\ SayBehind(rest, OtherEvent) /\ turns' = turns
           /\ Whole(buf, size) /\ size \in Nat /\ buf' = Remainder(buf, size)
           /\ cut' = buf.start + size
  <2>1. told' = told /\ ~buf'.active
    BY <1>1, <1>4, QuietSpeech, RemainderAgrees
  <2>2. \A x : Events(x)' = Events(x)
    BY <2>1, NextEvents
  <2> HIDE DEF size
  <2>3. cut' \in Nat /\ cut <= cut'
    BY <1>1, <1>4
  <2> QED BY <1>4, <2>1, <2>2, <2>3, SilentSpeaks
<1> QED BY <1>2, <1>3, <1>4, SnapshotCases

LEMMA CommitSpeaks ==
  ASSUME SessionInv, auto' \in BOOLEAN, NEW rest, Commit(rest),
         \/ pc = "receive" /\ ~auto'
         \/ pc = "stopped" /\ auto' = auto
  PROVE  TurnSpeech' /\ OpenSpeech'
<1>1. CASE Snapshot(rest)
  BY <1>1, SnapshotSpeaks
<1>2. CASE pc' = "slot" /\ Rest(rest) /\ UNCHANGED <<turns, buf, cut>>
  <2>1. told' = told /\ Turns' = Turns /\ pc \in Open
    BY <1>2 DEF Rest, Turns, Open, Waits, SendsAt
  <2>2. Reads' => Reads
    BY <1>2 DEF Reads
  <2> QED BY <1>2, <2>1, <2>2, QuietSpeaks
<1> QED BY <1>1, <1>2 DEF Commit

LEMMA OutsideSpeaks ==
  ASSUME SessionInv, Outside
  PROVE  TurnSpeech' /\ OpenSpeech'
<1>1. /\ ItemsInv /\ BufferInv /\ Fits(buf) /\ TasksInv /\ Len(told) \in Nat
      /\ cut \in Nat /\ cut <= buf.start
      /\ pc = "receive" => Agrees(buf, "receive", heard, cut)
  BY BufferAgrees DEF SessionInv, BufferInv, ItemsInv, Open, Waits
<1>2. CASE Connect \/ Complain \/ Reject \/ Deadline
  <2>1. /\ turns' = turns /\ Turns' = Turns /\ buf' = buf /\ cut' = cut
        /\ pc' \in Open => pc \in {"new", "receive"}
        /\ \/ pc' = "done" /\ told' = told
           \/ /\ pc' \in {"created", "reply", "failing"}
              /\ \E rest : SayBehind(rest, OtherEvent)
    BY <1>2 DEF Connect, Complain, Reject, Fail, Deadline, Say, turnVars, Turns, sendVars,
         audioVars, Open
  <2>2. told' = told /\ ~Reads'
    BY <2>1, QuietSpeech DEF Reads
  <2>3. pc' \in Open => pc \in Open
    BY <2>1 DEF Open, Waits
  <2> QED BY <2>1, <2>2, <2>3, QuietSpeaks
<1>3. CASE Update
  <2>1. /\ turns' = turns /\ cut' = cut /\ pc = "receive" /\ buf.len = 0
        /\ buf' = VadReset(buf) /\ SayBehind(line, OtherEvent)
    BY <1>3 DEF Update, Say, turnVars
  <2>2. told' = told /\ ~buf'.active
    BY <1>1, <2>1, QuietSpeech, ResetAgrees
  <2>3. \A x : Events(x)' = Events(x)
    BY <2>2, NextEvents
  <2> QED BY <1>1, <2>1, <2>2, <2>3, SilentSpeaks
<1>4. CASE Clear
  <2>1. PICK item : item = buf.pending
    OBVIOUS
  <2>2. /\ turns' = turns /\ cut' = buf.total /\ buf' = Cleared(buf)
        /\ \/ Say(OtherEvent)
           \/ item # None /\ Say(Event("cleared", item, 0))
    BY <1>4, <2>1 DEF Clear, Fail, turnVars
  <2>3. ~buf'.active /\ cut' \in Nat /\ cut <= cut'
    <3>1. /\ buf.start \in Nat /\ buf.len \in Nat /\ buf.total \in Nat
          /\ buf.start + buf.len = buf.total
      BY <1>1, BufferFields
    <3>2. ~buf'.active
      BY <1>1, <2>2, ClearedAgrees
    <3> QED BY <1>1, <2>2, <3>1, <3>2
  <2>4. CASE Say(OtherEvent)
    <3>1. told' = told
      BY <2>2, <2>4, QuietSpeech DEF Say
    <3>2. \A x : Events(x)' = Events(x)
      BY <3>1, NextEvents
    <3> QED BY <2>2, <2>3, <3>2, SilentSpeaks
  <2>5. CASE item # None /\ Say(Event("cleared", item, 0))
    <3>1. item \in 1..(Len(told) + 1)
      BY <1>1, <2>1, <2>5 DEF ItemsInv, None
    <3>2. told' = Told(Event("cleared", item, 0)) \/ told' = Known(item)
      BY <2>2, <2>5, Joins, EventFields DEF Say, SayBehind
    <3>3. /\ \A i : i # item => Events(i)' = Events(i)
      BY <3>1, <3>2, KindNames, MoreTold
    <3>4. \A t \in Turns : turns[t].item # item
      BY <1>1, <2>1 DEF ItemsInv
    <3> QED BY <2>2, <2>3, <3>3, <3>4, SilentSpeaks
  <2> QED BY <2>2, <2>4, <2>5
<1>5. CASE ManualCommit
  <2>1. pc = "receive"
    BY <1>5 DEF ManualCommit
  <2>2. CASE buf.active /\ Stop(buf, buf.total, FALSE)
    BY <1>1, <2>1, <2>2, StopSpeaks
  <2>3. CASE auto' = FALSE /\ Commit(line)
    BY <1>1, <2>1, <2>3, CommitSpeaks
  <2> QED BY <1>5, <2>2, <2>3 DEF ManualCommit
<1>6. CASE \E size \in Sizes : Receive(size)
  <2>1. PICK size \in Sizes : Receive(size)
    BY <1>6
  <2>2. /\ size \in Nat /\ Detect(Appended(buf, size)) /\ turns' = turns /\ Turns' = Turns
        /\ told' = told /\ cut' = cut /\ pc = "receive"
    BY <2>1, SessionAssumption DEF Receive, SessionAssumption, turnVars, Turns, sendVars
  <2>3. /\ Fits(Appended(buf, size)) /\ Appended(buf, size).pending = buf.pending
        /\ Appended(buf, size).start = buf.start /\ Appended(buf, size).scan = buf.scan
    BY <1>1, <2>2, AppendedFits
  <2>4. buf.total <= Appended(buf, size).total
    <3>1. /\ Appended(buf, size).len = buf.len + size
          /\ Appended(buf, size).start + Appended(buf, size).len = Appended(buf, size).total
      BY <1>1, <2>2, <2>3, AppendedFits, BufferFields
    <3> QED BY <1>1, <2>2, <2>3, <3>1, BufferFields
  <2>5. detects => ~FrameReady(buf)
    BY <1>1, <2>2 DEF BufferInv, AllRead
  <2>6. pc \in Open
    BY <2>2 DEF Open, Waits
  <2> QED BY <2>2, <2>3, <2>4, <2>5, <2>6, DetectSpeaks
<1>7. CASE Disconnect \/ Cancel
  <2>1. Teardown /\ told' = told /\ buf' = buf /\ cut' = cut /\ pc' = "gather"
    BY <1>7 DEF Disconnect, Cancel, Teardown, Rest, audioVars, sendVars
  <2>2. pc' \notin Open
    BY <2>1 DEF Open, Waits, SendsAt
  <2> QED BY <1>1, <2>1, <2>2, CancelledTurns, QuietSpeaks
<1> QED BY <1>2, <1>3, <1>4, <1>5, <1>6, <1>7 DEF Outside

LEMMA ScoredSpeaks ==
  ASSUME SessionInv, NEW isSpeech \in BOOLEAN, FrameScored(isSpeech)
  PROVE  TurnSpeech' /\ OpenSpeech'
<1> DEFINE b == Judged(isSpeech)
<1>1. /\ BufferInv /\ Fits(buf) /\ cut \in Nat /\ pc = "score" /\ pc \in Open
      /\ Agrees(buf, "score", heard, cut) /\ Reads
  <2>1. BufferInv /\ Fits(buf) /\ cut \in Nat /\ pc = "score"
    BY DEF FrameScored, SessionInv, BufferInv
  <2>2. pc \in Open /\ Reads
    BY <2>1 DEF Open, Waits, Reads
  <2> QED BY <2>1, <2>2, BufferAgrees
<1>2. /\ b.pending = buf.pending /\ b.active = buf.active /\ b.start = buf.start
      /\ b.scan = buf.scan /\ b.total = buf.total
  BY <1>1, JudgedFields
<1>3. FrameEnd(b) = FrameEnd(buf)
  BY <1>2 DEF FrameEnd
<1>4. buf.total \in Nat
  BY <1>1, BufferFields
<1>5. ASSUME NEW a, GoesOn(a)
      PROVE  /\ Detect(a) /\ told' = told /\ cut' = cut /\ turns' = turns /\ Turns' = Turns
  BY <1>5 DEF GoesOn, turnVars, Turns, sendVars
<1>6. CASE ~b.active /\ b.speech < StartFrames /\ GoesOn(Trimmed(b))
  <2>1. Fits(Trimmed(b)) /\ ~Trimmed(b).active
    BY <1>1, <1>2, <1>6, TrimmedAgrees
  <2>2. Trimmed(b).pending = buf.pending
    BY <1>1, <1>2, <1>6, <2>1 DEF Fits
  <2> HIDE DEF b
  <2> QED BY <1>1, <1>5, <1>6, <2>1, <2>2, DetectSpeaks
<1>7. CASE ~b.active /\ b.speech >= StartFrames /\ SpeechStarts(b)
  <2>1. NewItem \in Nat \ {None}
    <3>1. Len(told) \in Nat
      BY DEF SessionInv, ItemsInv
    <3> QED BY <3>1 DEF NewItem, None
  <2>2. buf' = [b EXCEPT !.active = TRUE, !.pending = NewItem]
    BY <1>7 DEF SpeechStarts
  <2>3. /\ AnnouncedStart(b) \in Nat /\ buf'.pending = NewItem
        /\ buf'.start = Max({AnnouncedStart(b), cut})
    BY <1>1, <1>2, <1>7, <2>1, <2>2, StartAgrees
  <2> HIDE DEF b
  <2> QED BY <1>1, <1>7, <2>3, StartSpeaks
<1>8. CASE b.active /\ GoesOn(b)
  <2>1. Fits(b)
    BY <1>1, <1>2, <1>8, ActiveAgrees
  <2> HIDE DEF b
  <2> QED BY <1>1, <1>2, <1>4, <1>5, <1>8, <2>1, DetectSpeaks
<1>9. CASE b.active /\ Stop(b, FrameEnd(b), TRUE)
  <2>1. Fits(b)
    BY <1>1, <1>2, <1>9, ActiveAgrees
  <2> HIDE DEF b
  <2> QED BY <1>1, <1>2, <1>3, <1>9, <2>1, StopSpeaks
<1> QED BY <1>6, <1>7, <1>8, <1>9 DEF FrameScored

LEMMA InsideSpeaks ==
  ASSUME SessionInv, Scored \/ StoppedSent \/ ServeSent \/ SlotFrees \/ Closed \/ Release
  PROVE  TurnSpeech' /\ OpenSpeech'
<1>1. /\ BufferInv /\ TasksInv /\ Fits(buf) /\ auto \in BOOLEAN /\ buf.total \in Nat
  <2>1. BufferInv /\ TasksInv /\ Fits(buf) /\ auto \in BOOLEAN
    BY DEF SessionInv, BufferInv
  <2> QED BY <2>1, BufferFields
<1>2. CASE Scored
  BY <1>2, ScoredSpeaks DEF Scored
<1>3. CASE StoppedSent
  <2>1. pc = "stopped" /\ auto' = auto /\ Commit(LeaveLine)
    BY <1>3 DEF StoppedSent
  <2> QED BY <1>1, <2>1, CommitSpeaks
<1>4. CASE SlotFrees
  <2>1. pc = "slot" /\ auto' = auto /\ Snapshot(line)
    BY <1>4 DEF SlotFrees
  <2> QED BY <1>1, <2>1, SnapshotSpeaks
<1>5. CASE ServeSent
  <2>1. told' = told /\ cut' = cut
    BY <1>5 DEF ServeSent, Rest
  <2>2. /\ Turns' = Turns
        /\ \A t \in Turns :
             /\ turns'[t].item = turns[t].item /\ turns'[t].after = turns[t].after
             /\ turns'[t].from = turns[t].from /\ turns'[t].to = turns[t].to
    <3>1. CASE pc = "committed" /\ turns' = At(Len(turns), "work")
      <4>1. /\ Len(turns) \in Turns /\ turns \in Seq(TurnRecords) /\ "work" \in Places
        BY <1>1, <3>1 DEF TasksInv, Places
      <4> QED BY <3>1, <4>1, MovedTurn DEF Turns
    <3>2. CASE turns' = turns
      BY <3>2 DEF Turns
    <3> QED BY <1>5, <3>1, <3>2 DEF ServeSent, turnVars
  <2>3. CASE pc \in {"started", "committed"} /\ Detect(buf)
    <3>1. pc \in Open
      BY <2>3 DEF Open, Waits, SendsAt
    <3>2. buf.active => Reads
      BY <1>1, <2>3 DEF BufferInv, Reads
    <3> QED BY <1>1, <2>1, <2>2, <2>3, <3>1, <3>2, DetectSpeaks
  <2>4. CASE /\ buf' = buf
             /\ \/ pc \in {"created", "reply", "updated", "committed"} /\ pc' = "receive"
                \/ pc = "failing" /\ pc' = "closing"
    <3>1. /\ pc' \in Open => pc \in Open
          /\ pc' \notin {"started", "stopped"} /\ ~Reads'
      BY <2>4 DEF Open, Waits, SendsAt, Reads
    <3> QED BY <2>1, <2>2, <2>4, <3>1, QuietSpeaks
  <2> QED BY <1>5, <2>3, <2>4 DEF ServeSent
<1>6. CASE Closed \/ Release
  <2>1. /\ told' = told /\ buf' = buf /\ cut' = cut
        /\ \/ Teardown /\ pc' = "gather"
           \/ turns' = turns /\ pc' = "done"
    BY <1>6 DEF Closed, Release, Teardown, audioVars, sendVars, turnVars
  <2>2. /\ Turns' = Turns
        /\ \A t \in Turns :
             /\ turns'[t].item = turns[t].item /\ turns'[t].after = turns[t].after
             /\ turns'[t].from = turns[t].from /\ turns'[t].to = turns[t].to
    <3>1. CASE turns' = turns
      BY <3>1 DEF Turns
    <3> QED BY <1>1, <2>1, <3>1, CancelledTurns
  <2>3. pc' \notin Open
    BY <2>1 DEF Open, Waits, SendsAt
  <2> QED BY <2>1, <2>2, <2>3, QuietSpeaks
<1> QED BY <1>2, <1>3, <1>4, <1>5, <1>6

\* What is said of an item that is not open, or what was announced of the one that is.
LEMMA OthersSpeak ==
  ASSUME SessionInv, UNCHANGED <<pc, reply, buf, cut, auto>>, Turns' = Turns,
         \A t \in Turns :
           /\ turns'[t].item = turns[t].item /\ turns'[t].after = turns[t].after
           /\ turns'[t].from = turns[t].from /\ turns'[t].to = turns[t].to,
         NEW item \in 1..(Len(told) + 1), NEW kind \in DOMAIN Ranks, NEW at \in Nat,
         told' = Told(Event(kind, item, at)) \/ told' = Known(item),
         \/ item # buf.pending /\ kind \notin Unsaid
         \/ item = buf.pending /\ pc \in {"started", "stopped"} /\ reply = Event(kind, item, at)
  PROVE  TurnSpeech' /\ OpenSpeech'
<1>1. /\ ItemsInv /\ Fits(buf) /\ cut \in Nat /\ cut' \in Nat /\ cut <= cut'
      /\ buf.total \in Nat /\ buf.start \in Nat /\ buf.scan \in Nat
  <2>1. ItemsInv /\ Fits(buf) /\ cut \in Nat
    BY DEF SessionInv, BufferInv
  <2> QED BY <2>1, BufferFields
<1>2. /\ \A i : i # item => Events(i)' = Events(i)
      /\ \A e \in Range(Events(item)') :
           e \in Range(Events(item)) \/ e = [kind |-> kind, at |-> at]
  BY MoreTold
<1>3. TurnSpeech'
  <2>1. ASSUME NEW x, \E t \in Turns : turns[t].item = x, NEW e \in Range(Events(x)')
        PROVE  e \in Range(Events(x)) \/ e.kind \notin Unsaid
    <3>1. x # buf.pending
      BY <1>1, <2>1 DEF ItemsInv
    <3>2. CASE x = item
      <4>1. e \in Range(Events(item)) \/ e = [kind |-> kind, at |-> at]
        BY <1>2, <2>1, <3>2
      <4>2. e = [kind |-> kind, at |-> at] => e.kind = kind
        OBVIOUS
      <4> QED BY <3>1, <3>2, <4>1, <4>2
    <3>3. CASE x # item
      BY <1>2, <2>1, <3>3
    <3> QED BY <3>2, <3>3
  <2> QED BY <1>1, <2>1, TurnsKept
<1>4. \A e \in Announced' : e \in Announced
  <2>1. PICK x : x = buf.pending
    OBVIOUS
  <2>2. Events(buf.pending)' = Events(x)'
    BY <2>1, NextEvents
  <2>3. CASE x # item
    <3>1. Events(buf.pending)' = Events(buf.pending)
      BY <1>2, <2>1, <2>2, <2>3
    <3> QED BY <3>1 DEF Announced
  <2>4. CASE x = item
    <3>1. /\ pc \in {"started", "stopped"}
          /\ [kind |-> reply.kind, at |-> reply.at] = [kind |-> kind, at |-> at]
      BY <2>1, <2>4, EventFields
    <3>2. [kind |-> kind, at |-> at] \in Announced
      BY <3>1 DEF Announced
    <3>3. \A e \in Range(Events(x)') : e \in Announced
      BY <1>2, <2>1, <2>4, <3>2 DEF Announced
    <3> QED BY <2>2, <3>1, <3>2, <3>3 DEF Announced
  <2> QED BY <2>3, <2>4
<1>5. OpenSpeech'
  <2>1. Reads' => Reads
    BY DEF Reads
  <2>2. FrameEnd(buf') = FrameEnd(buf) /\ FrameEnd(buf) \in Nat
    BY <1>1 DEF FrameEnd
  <2>3. \A e \in Announced : e.at \in Nat
    BY AnnouncedAreEvents
  <2> QED BY <1>1, <1>4, <2>1, <2>2, <2>3, OpenKept
<1> QED BY <1>3, <1>5

LEMMA ObtainSpeaks ==
  ASSUME SessionInv, Obtain
  PROVE  TurnSpeech' /\ OpenSpeech'
<1>1. /\ ItemsInv /\ ReplyInv /\ Flow /\ Len(told) \in Nat
      /\ UNCHANGED <<pc, reply, buf, cut, auto, turns>> /\ Turns' = Turns
  <2>1. ItemsInv /\ ReplyInv /\ Flow
    BY DEF SessionInv, Flow
  <2>2. UNCHANGED <<pc, reply, buf, cut, auto, turns>> /\ Turns' = Turns
    BY DEF Obtain, audioVars, turnVars, Turns
  <2> QED BY <2>1, <2>2 DEF ItemsInv
<1>2. line # <<>> /\ Head(line) \in {Serve} \cup Turns /\ Head(line) \in ToSet(line)
  <2>1. line # <<>> /\ Head(line) \in {Serve} \cup Turns
    BY <1>1, ObtainFlows
  <2>2. line \in Seq(Nat)
    BY <1>1 DEF Flow, LineInv
  <2> QED BY <2>1, <2>2 DEF ToSet
<1>3. CASE Head(line) = Serve
  <2>1. pc \in SendsAt /\ told' = Told(reply)
    BY <1>1, <1>2, <1>3 DEF Flow, LineInv, Obtain
  <2>2. CASE reply = OtherEvent
    <3>1. told' = told
      BY <1>1, <2>1, <2>2, OtherSaid
    <3>2. Reads' => Reads
      BY <1>1 DEF Reads
    <3> QED BY <1>1, <3>1, <3>2, QuietSpeaks
  <2>3. CASE reply # OtherEvent
    <3>1. PICK kind \in DOMAIN Ranks, item \in 1..Len(told), at \in Nat :
            /\ reply = Event(kind, item, at)
            /\ \/ item # buf.pending /\ kind \notin Unsaid
               \/ item = buf.pending /\ pc \in {"started", "stopped"}
      <4>1. CASE pc \in {"started", "stopped"}
        <5>1. PICK kind \in DOMAIN Ranks : /\ reply = Event(kind, buf.pending, reply.at)
                                           /\ reply.at \in Nat
          BY <1>1, <4>1, KindNames DEF ReplyInv
        <5>2. buf.pending # None
          BY <4>1 DEF SessionInv, BufferInv, Fits
        <5>3. buf.pending \in 1..Len(told)
          BY <1>1, <5>2 DEF ItemsInv, None
        <5> QED BY <4>1, <5>1, <5>3
      <4>2. CASE pc = "committed"
        <5>1. Len(turns) \in Turns
          BY <4>2 DEF SessionInv, TasksInv
        <5>2. reply = Event("committed", turns[Len(turns)].item, 0)
          BY <1>1, <4>2 DEF ReplyInv
        <5>3. turns[Len(turns)].item \in 1..Len(told) /\ turns[Len(turns)].item # buf.pending
          BY <1>1, <5>1 DEF ItemsInv
        <5> QED BY <5>2, <5>3, KindNames DEF Unsaid
      <4>3. CASE pc = "reply"
        <5>1. /\ reply = Event("cleared", reply.item, 0) /\ reply.item \in 1..Len(told)
              /\ reply.item # buf.pending
          BY <1>1, <2>3, <4>3 DEF ReplyInv
        <5> QED BY <5>1, KindNames DEF Unsaid
      <4>4. CASE pc \in {"created", "updated", "failing"}
        BY <1>1, <2>3, <4>4 DEF ReplyInv
      <4> QED BY <2>1, <4>1, <4>2, <4>3, <4>4 DEF SendsAt
    <3>2. told' = Told(Event(kind, item, at)) /\ item \in 1..(Len(told) + 1)
      BY <1>1, <2>1, <3>1
    <3> QED BY <1>1, <3>1, <3>2, OthersSpeak
  <2> QED BY <2>2, <2>3
<1>4. CASE Head(line) \in Turns
  <2>1. PICK t \in Turns : t = Head(line)
    BY <1>4
  <2>2. PICK kind \in Speaks : kind = turns[t].at
    <3>1. turns[t].at # "cancelled"
      BY <2>1, TurnNumbers DEF Obtain
    <3>2. turns[t].at \in Speaks \cup {"cancelled"}
      BY <1>1, <1>2, <2>1 DEF Flow, LineInv
    <3> QED BY <3>1, <3>2
  <2>3. PICK item : item = turns[t].item
    OBVIOUS
  <2>4. told' = Told(Event(kind, item, 0))
    <3>1. t # Serve
      BY TurnNumbers
    <3>2. told' = Told(TurnEvent(t, turns[t].at))
      BY <2>1, <3>1 DEF Obtain
    <3> QED BY <2>2, <2>3, <3>2 DEF TurnEvent
  <2>5. item \in 1..(Len(told) + 1) /\ item # buf.pending
    BY <1>1, <2>3 DEF ItemsInv
  <2>6. kind \in DOMAIN Ranks /\ kind \notin Unsaid
    BY KindNames DEF Speaks, Unsaid
  <2> QED BY <1>1, <2>4, <2>5, <2>6, OthersSpeak
<1> QED BY <1>2, <1>3, <1>4

LEMMA TurnSpeaks ==
  ASSUME SessionInv, NEW t \in Turns, Turn(t)
  PROVE  TurnSpeech' /\ OpenSpeech'
<1>1. /\ ItemsInv /\ turns \in Seq(TurnRecords) /\ Len(told) \in Nat
      /\ UNCHANGED <<pc, reply, buf, cut, auto>>
  <2>1. ItemsInv /\ turns \in Seq(TurnRecords)
    BY DEF SessionInv, TasksInv
  <2>2. UNCHANGED <<pc, reply, buf, cut, auto>>
    BY DEF Turn, TurnReturns, TurnSent, TurnUnwinds, audioVars
  <2> QED BY <2>1, <2>2 DEF ItemsInv
<1>2. PICK place \in Places :
        /\ turns' = At(t, place)
        /\ \/ told' = told
           \/ /\ place \in Speaks
              /\ \E rest : Join(rest, t, Event(place, turns[t].item, 0))
  <2>1. {"delta", "failed", "completed", "done"} \subseteq Places
    BY DEF Places
  <2> QED BY <2>1 DEF Turn, TurnReturns, TurnSent, TurnUnwinds, Enter, Rest, sendVars,
        TurnEvent, Speaks
<1>3. /\ Turns' = Turns
      /\ \A u \in Turns :
           /\ turns'[u].item = turns[u].item /\ turns'[u].after = turns[u].after
           /\ turns'[u].from = turns[u].from /\ turns'[u].to = turns[u].to
  BY <1>1, <1>2, MovedTurn DEF Turns
<1>4. CASE told' = told
  <2>1. Reads' => Reads
    BY <1>1 DEF Reads
  <2> QED BY <1>1, <1>3, <1>4, <2>1, QuietSpeaks
<1>5. CASE place \in Speaks /\ \E rest : Join(rest, t, Event(place, turns[t].item, 0))
  <2>1. PICK item : item = turns[t].item
    OBVIOUS
  <2>2. told' = Told(Event(place, item, 0)) \/ told' = Known(item)
    BY <1>5, <2>1, Joins, EventFields
  <2>3. item \in 1..(Len(told) + 1) /\ item # buf.pending
    BY <1>1, <2>1 DEF ItemsInv
  <2>4. place \in DOMAIN Ranks /\ place \notin Unsaid
    BY <1>5, KindNames DEF Speaks, Unsaid
  <2> QED BY <1>1, <1>3, <2>2, <2>3, <2>4, OthersSpeak
<1> QED BY <1>2, <1>4, <1>5

-----------------------------------------------------------------------------
(* The session.                                                             *)

LEMMA InitSession == SessionInit => SessionInv
<1> SUFFICES ASSUME SessionInit PROVE SessionInv
  OBVIOUS
<1>1. /\ pc = "new" /\ told = <<>> /\ turns = <<>> /\ held = {} /\ Turns = {}
      /\ line = <<>> /\ sending = FALSE /\ cut = 0 /\ heard = Nothing /\ auto = FALSE
      /\ detects \in BOOLEAN /\ buf = EmptyBuffer /\ detects = TRUE
  BY DEF SessionInit, Turns, LockInit
<1>2. LineInv
  <2>1. line \in Seq(Nat) /\ IsInjective(line) /\ ToSet(line) = {}
    BY <1>1 DEF IsInjective, ToSet
  <2> QED BY <1>1, <2>1 DEF LineInv, SendsAt
<1>3. TasksInv
  <2>1. Cardinality({}) = 0
    BY FS_EmptySet
  <2> QED BY <1>1, <2>1, SessionAssumption DEF TasksInv, SessionAssumption, Phases
<1>4. HoldInv
  BY <1>1 DEF SessionInit, HoldInv, Listening
<1>5. BufferInv
  <2>1. /\ buf \in Buffers /\ buf.start = 0 /\ buf.len = 0 /\ buf.total = 0 /\ buf.scan = 0
        /\ buf.speech = 0 /\ ~buf.active /\ buf.pending = None
    BY <1>1 DEF EmptyBuffer, Buffers, None
  <2>2. Fits(buf) /\ InStep(buf, buf.scan, AfterReset, 0)
    BY <2>1, FreshAgrees
  <2>3. ~FrameReady(buf)
    BY <2>1, Frames DEF FrameReady
  <2>4. InStep(buf, IF pc = "score" THEN buf.scan - FrameBytes ELSE buf.scan, heard, cut)
    BY <1>1, <2>2 DEF AfterReset
  <2>5. heard \in Nat \cup {Nothing} /\ cut \in Nat /\ cut <= buf.start
    <3>1. cut = 0 /\ heard = Nothing
      BY <1>1
    <3> QED BY <2>1, <3>1
  <2>6. auto \in BOOLEAN
    <3>1. auto = FALSE
      BY <1>1
    <3> QED BY <3>1
  <2> QED BY <1>1, <2>1, <2>2, <2>3, <2>4, <2>5, <2>6 DEF BufferInv
<1>6. ItemsInv
  BY <1>1 DEF ItemsInv, ItemEventsInOrder, EmptyBuffer, None
<1>7. ReplyInv
  BY <1>1 DEF ReplyInv
<1>8. SpeechInv
  BY <1>1 DEF SpeechInv, TurnsHoldTheirSpeech, EmptyBuffer
<1> QED BY <1>2, <1>3, <1>4, <1>5, <1>6, <1>7, <1>8 DEF SessionInv

LEMMA StillSession ==
  ASSUME SessionInv, UNCHANGED vars
  PROVE  SessionInv'
<1>1. /\ UNCHANGED <<pc, expired, slot, lease, stream, language, detects>>
      /\ UNCHANGED <<buf, heard, cut, auto, reply, told, turns, held, line, sending>>
  BY DEF vars, configVars, audioVars, holdVars, turnVars, sendVars, lockVars
<1>2. LineInv' /\ TasksInv' /\ HoldInv'
  BY <1>1 DEF SessionInv, LineInv, TasksInv, HoldInv, Turns
<1>3. BufferInv'
  BY <1>1 DEF SessionInv, BufferInv, AllRead
<1>4. ItemsInv' /\ ReplyInv'
  <2>1. /\ ItemsInv /\ Len(told) \in Nat /\ Turns' = Turns
        /\ \A x : Sends(x)' <=> Sends(x)
    BY <1>1 DEF SessionInv, ItemsInv, Turns, Sends
  <2>2. Kinds(reply.item)' = Kinds(reply.item)
    BY <1>1 DEF Kinds, Events
  <2>3. ItemsInv'
    BY <1>1, <2>1, QuietItems
  <2>4. ReplyInv'
    BY <1>1, <2>1, <2>2, ReplyKept
  <2> QED BY <2>3, <2>4
<1>5. SpeechInv'
  BY <1>1 DEF SessionInv, SpeechInv, TurnsHoldTheirSpeech, Announced, Events, Turns
<1> QED BY <1>2, <1>3, <1>4, <1>5 DEF SessionInv

LEMMA NextSession ==
  ASSUME SessionInv, [Next]_vars
  PROVE  SessionInv'
<1>1. ASSUME Flow', HoldInv', BufferInv', ItemsInv', ReplyInv', TurnSpeech', OpenSpeech'
      PROVE  SessionInv'
  <2>1. SpeechInv'
    BY <1>1, SpeechPartsNext
  <2> QED BY <1>1, <2>1 DEF SessionInv, Flow
<1>2. CASE Outside
  BY <1>1, <1>2, OutsideFlows, OutsideHolds, OutsideBuffer, OutsideItems, OutsideSpeaks
<1>3. CASE Scored \/ StoppedSent \/ ServeSent \/ SlotFrees \/ Closed \/ Release
  <2>1. BufferInv'
    BY <1>3, InsideBuffer, ScoredBuffer DEF Scored
  <2> QED BY <1>1, <1>3, <2>1, InsideFlows, InsideHolds, InsideItems, InsideSpeaks
<1>4. CASE Obtain
  <2>1. Flow'
    BY <1>4, ObtainFlows DEF SessionInv, Flow
  <2>2. HoldInv'
    BY <1>4 DEF Obtain, SessionInv, HoldInv, holdVars, configVars
  <2> QED BY <1>1, <1>4, <2>1, <2>2, InsideBuffer, ObtainItems, ObtainSpeaks
<1>5. CASE \E t \in Turns : Turn(t)
  <2>1. PICK t \in Turns : Turn(t)
    BY <1>5
  <2>2. Flow'
    <3>1. Flow
      BY DEF SessionInv, Flow
    <3> QED BY <2>1, <3>1, TurnReturnsFlows, TurnSentFlows, TurnUnwindsFlows DEF Turn
  <2> QED BY <1>1, <2>1, <2>2, TurnBuffers, TurnItems, TurnSpeaks
<1>6. CASE UNCHANGED vars
  BY <1>6, StillSession
<1> QED BY <1>2, <1>3, <1>4, <1>5, <1>6 DEF Next

(* What the receive loop, its turns' tasks, the buffer, the detector, the   *)
(* stream and the client have in common in every state of a connection.     *)
THEOREM OpenAISessionInvariant == Spec => []SessionInv
BY InitSession, NextSession, PTL DEF Spec

(* _commit waits for one of the tasks before it takes the next turn: no     *)
(* more than max_pending_turns are being transcribed.                       *)
THEOREM PendingTurnsAreBounded == Spec => []TurnsAreBounded
<1>1. SessionInv => TurnsAreBounded
  <2> SUFFICES ASSUME SessionInv PROVE TurnsAreBounded
    OBVIOUS
  <2> DEFINE busy == {t \in Turns : turns[t].at \notin {"snapshot", "done"}}
  <2>1. TasksInv /\ busy \subseteq held
    BY DEF SessionInv, TasksInv
  <2>2. IsFiniteSet(held) /\ Cardinality(held) \in Nat /\ Cardinality(held) <= MaxPending
    BY <2>1, HeldIsFinite DEF TasksInv
  <2>3. Cardinality(busy) <= Cardinality(held) /\ Cardinality(busy) \in Nat
    BY <2>1, <2>2, FS_Subset, FS_CardinalityType
  <2>4. Cardinality(busy) <= MaxPending
    BY <2>2, <2>3, SessionAssumption DEF SessionAssumption
  <2> QED BY <2>4 DEF TurnsAreBounded
<1> QED BY <1>1, OpenAISessionInvariant, PTL

(* However a connection ends, its place in the registry is free again, its  *)
(* stream is closed and no task of it is left; while it listens the stream, *)
(* the lease and the configuration agree.                                   *)
THEOREM OpenAISessionLeavesNothing == Spec => []NothingOutlivesSession
<1>1. SessionInv => NothingOutlivesSession
  <2> SUFFICES ASSUME SessionInv PROVE NothingOutlivesSession
    OBVIOUS
  <2>1. LineInv /\ TasksInv /\ HoldInv
    BY DEF SessionInv
  <2>2. pc = "done" => \A t \in Turns : turns[t].at \in {"snapshot", "done"}
    BY <2>1 DEF TasksInv
  <2>3. ASSUME pc = "done" PROVE line = <<>>
    <3>1. \A x : x \notin ToSet(line)
      <4>1. Serve \notin ToSet(line)
        BY <2>1, <2>3 DEF LineInv, SendsAt
      <4>2. \A t \in Turns : t \notin ToSet(line)
        BY <2>1, <2>2, <2>3 DEF LineInv, Speaks
      <4> QED BY <2>1, <4>1, <4>2 DEF LineInv
    <3>2. line \in Seq(Nat)
      BY <2>1 DEF LineInv
    <3>3. line # <<>> => Head(line) \in ToSet(line)
      BY <3>2 DEF ToSet
    <3> QED BY <3>1, <3>3
  <2>4. /\ pc \notin {"new", "done"} => slot
        /\ pc = "done" => ~slot /\ ~stream
        /\ pc \in Listening => (lease <=> stream) /\ (language => (stream <=> detects))
    BY <2>1 DEF HoldInv
  <2> QED BY <2>2, <2>3, <2>4 DEF NothingOutlivesSession
<1> QED BY <1>1, OpenAISessionInvariant, PTL

(* Whatever of the buffer is trimmed, committed, cleared or reset, the      *)
(* stream has heard exactly the audio detection has read, and an item is    *)
(* announced exactly while speech is active.                                *)
THEOREM BufferAndStreamAgree == Spec => []BufferIsConsistent
<1>1. SessionInv => BufferIsConsistent
  <2> SUFFICES ASSUME SessionInv PROVE BufferIsConsistent
    OBVIOUS
  <2>1. /\ BufferInv /\ Fits(buf) /\ buf.speech \in Nat /\ buf.scan \in Nat /\ buf.start \in Nat
    <3>1. BufferInv /\ Fits(buf)
      BY DEF SessionInv, BufferInv
    <3> QED BY <3>1, BufferFields
  <2>2. ASSUME pc \in Listening \ {"score"}
        PROVE  IF heard = Nothing THEN buf.scan = 0 /\ buf.speech = 0 /\ ~buf.active
                                  ELSE heard = FrameEnd(buf)
    <3>1. pc \in Open /\ InStep(buf, buf.scan, heard, cut)
      BY <2>1, <2>2 DEF BufferInv, Listening, Open, Waits, SendsAt
    <3>2. CASE heard = Nothing
      <4>1. buf.scan = 0 /\ ~buf.active /\ buf.speech * FrameBytes <= 0
        BY <3>1, <3>2 DEF InStep
      <4>2. buf.speech = 0
        <5>1. buf.speech >= 1 => 1 * FrameBytes <= buf.speech * FrameBytes
          BY <2>1, Frames
        <5>2. 1 * FrameBytes = FrameBytes /\ FrameBytes \in Nat \ {0}
              /\ buf.speech * FrameBytes \in Nat
          BY <2>1, Frames
        <5> QED BY <2>1, <4>1, <5>1, <5>2
      <4> QED BY <3>2, <4>1, <4>2
    <3>3. CASE heard # Nothing
      BY <3>1, <3>3 DEF InStep, FrameEnd
    <3> QED BY <3>2, <3>3
  <2>3. ASSUME pc = "score" PROVE heard \in {Nothing, FrameEnd(buf) - FrameBytes}
    <3>1. InStep(buf, buf.scan - FrameBytes, heard, cut)
      BY <2>1, <2>3 DEF BufferInv, Open, Waits
    <3>2. heard = Nothing \/ heard = buf.start + (buf.scan - FrameBytes)
      BY <3>1 DEF InStep
    <3> QED BY <2>1, <3>2, Frames DEF FrameEnd
  <2>4. /\ buf.start + buf.len = buf.total /\ buf.scan <= buf.len
        /\ buf.active <=> buf.pending # None
    BY <2>1 DEF Fits
  <2> QED BY <2>2, <2>3, <2>4 DEF BufferIsConsistent
<1> QED BY <1>1, OpenAISessionInvariant, PTL

(* Turns overlap in the engine and wait for one lock: still the events of   *)
(* an item reach the client in the order of the protocol.                   *)
THEOREM EventsOfItemsInOrder == Spec => []ItemEventsInOrder
<1>1. SessionInv => ItemEventsInOrder
  BY DEF SessionInv, ItemsInv
<1> QED BY <1>1, OpenAISessionInvariant, PTL

(* What _commit takes is the speech that was announced, with its prefix     *)
(* unless that was taken before, and no audio is in two turns.              *)
THEOREM TurnsAreTheSpeechAnnounced == Spec => []TurnsHoldTheirSpeech
<1>1. SessionInv => TurnsHoldTheirSpeech
  BY DEF SessionInv, SpeechInv
<1> QED BY <1>1, OpenAISessionInvariant, PTL
=============================================================================
