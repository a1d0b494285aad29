------------------------------ MODULE VADBench ------------------------------
(***************************************************************************)
(* scripts/benchmark_vad.py measuring one provider (benchmark_provider):   *)
(* it scores a labelled recording frame by frame, holds streams open to    *)
(* measure memory, and searches for the number of streams the provider     *)
(* sustains, on top of the VAD runtime the service uses.  The streams are  *)
(* those of vad/energy.py; each is scored by one coroutine at a time and   *)
(* never again after a failure, so their flags never refuse a call here.   *)
(*                                                                         *)
(* A trial opens fresh streams and scores one frame of each at a time with *)
(* gather: the first failure ends it at once, its streams are closed, and  *)
(* the other calls stay in the runtime while the search goes on.           *)
(***************************************************************************)
EXTENDS VADRuntime, SequencesExt

CONSTANTS
  Maximum,    \* --max-concurrency
  RssStreams, \* --rss-streams
  Rounds,     \* --capacity-probe-frames
  Length      \* the frames of the recording

ASSUME BenchAssumption ==
  /\ Clients = 1..Maximum
  /\ {Maximum, RssStreams, Rounds, Length} \subseteq Nat \ {0}

VARIABLES
  stage,     \* where the benchmark's coroutine is
  leases,    \* of the provider, handed out
  streams,   \* the streams the benchmark holds open
  unscored,  \* the streams whose coroutine in gather has yet to begin
  current,   \* the calls of the gather that is awaited
  broken,    \* has one of them raised?
  rounds,    \* gathers completed by the trial
  low, high, \* the search
  attempts,  \* the trials: <<concurrency, passed>>
  labels,    \* the labels of the recording
  decisions  \* the scores so far, against the threshold

searchVars == <<low, high, attempts>>
gatherVars == <<streams, unscored, current, broken, rounds>>
scoreVars  == <<labels, decisions>>
benchVars  == <<vars, stage, leases, gatherVars, searchVars, scoreVars>>

-----------------------------------------------------------------------------
(* The metrics of a recording.                                              *)

\* One flag of true_runs: a run begins, ends, or goes on.
NextFlag(acc, flag, i) ==
  IF flag /\ acc.start = 0 THEN [acc EXCEPT !.start = i]
  ELSE IF ~flag /\ acc.start # 0
       THEN [runs |-> Append(acc.runs, <<acc.start, i>>), start |-> 0]
       ELSE acc

\* true_runs: one pass over the flags; a run is <<start, end>>, half open.
TrueRuns(flags) ==
  LET pass[i \in 0..Len(flags)] ==
        IF i = 0 THEN [runs |-> <<>>, start |-> 0]
        ELSE NextFlag(pass[i - 1], flags[i], i)
      end == pass[Len(flags)]
  IN IF end.start = 0 THEN end.runs
     ELSE Append(end.runs, <<end.start, Len(flags) + 1>>)

\* Do a predicted and a reference run have a frame in common?
\* (Mutant: runs that only touch do.)
Touches(run, reference)  == run[1] <= reference[2] /\ run[2] >= reference[1]
Overlaps(run, reference) == run[1] < reference[2] /\ run[2] > reference[1]

\* segment_delays: for each reference run that is detected, how late the first
\* of the predicted runs begins and the last ends.
SegmentDelays(reference, predicted) ==
  LET references  == TrueRuns(reference)
      runs        == TrueRuns(predicted)
      overlaps(k) == {j \in DOMAIN runs : Overlaps(runs[j], references[k])}
  IN [k \in {k \in DOMAIN references : overlaps(k) # {}} |->
        [onset    |-> runs[Min(overlaps(k))][1] - references[k][1],
         endpoint |-> runs[Max(overlaps(k))][2] - references[k][2]]]

FalseActivations(reference, predicted) ==
  {run \in ToSet(TrueRuns(predicted)) : \A i \in run[1]..(run[2] - 1) : ~reference[i]}

Confusion(reference, predicted, expected, actual) ==
  Cardinality({i \in DOMAIN predicted : reference[i] = expected /\ predicted[i] = actual})

-----------------------------------------------------------------------------
(* Streams.                                                                 *)

\* _provider_settings: vad_max_streams.
MaxStreams == IF Maximum > RssStreams THEN Maximum ELSE RssStreams

\* close for some of the streams, then new_stream for others.
\* (Mutant: a stream with a call in the runtime keeps its lease.)
LeasesIdle(closed, opened) ==
  leases - closed + opened + Cardinality({j \in current : caller[j] = "awaiting"})
Leases(closed, opened) == (IF leases > closed THEN leases - closed ELSE 0) + opened

Reopen(closed, opened) ==
  /\ Leases(closed, 0) + opened <= MaxStreams
  /\ leases' = Leases(closed, opened)

\* gather over the streams: their coroutines begin in order.
BeginGather(opened) ==
  /\ streams' = opened /\ unscored' = opened
  /\ current' = {} /\ broken' = FALSE

\* The coroutine of the next stream begins: score submits the frame, or raises
\* because the queue is full.
BeginScore ==
  /\ unscored # {}
  /\ LET c == CHOOSE c \in unscored : \A d \in unscored : c <= d IN
       /\ unscored' = unscored \ {c}
       /\ \/ /\ Accept(c)
             /\ current' = current \cup {count'}
             /\ UNCHANGED broken
          \/ /\ ~HasRoom
             /\ broken' = TRUE
             /\ UNCHANGED <<vars, current>>
  /\ UNCHANGED <<stage, leases, streams, rounds, searchVars, scoreVars>>

\* A call returns or raises; one of an earlier trial tells nobody.
\* (Mutant: a call that raised counts as one that returned.)
BreaksNothing(j) == FALSE
Breaks(j)        == j \in current /\ future[j] # "result"

CallAnswered(j) ==
  /\ Answer(j)
  /\ broken' = (broken \/ Breaks(j))
  /\ UNCHANGED <<stage, leases, streams, unscored, current, rounds, searchVars,
                 scoreVars>>

\* The deadline of the runtime.
CallExpires(j) ==
  /\ GiveUp(j)
  /\ broken' = (broken \/ j \in current)
  /\ UNCHANGED <<stage, leases, streams, unscored, current, rounds, searchVars,
                 scoreVars>>

\* gather raises as soon as one call has, or returns when all have.
GatherRaises  == unscored = {} /\ broken
GatherReturns == unscored = {} /\ ~broken /\ \A j \in current : caller[j] = "answered"

-----------------------------------------------------------------------------
(* benchmark_provider.                                                      *)

\* The provider starts; the recording is read and a stream opened for it.
BeginRecording ==
  /\ stage = "new"
  /\ Start
  /\ Reopen(0, 1) /\ BeginGather({1})
  /\ stage' = "recording"
  /\ UNCHANGED <<rounds, searchVars, scoreVars>>

\* read_frames does not find the recording that the manifest describes.
RejectRecording ==
  /\ stage = "new"
  /\ Start
  /\ stage' = "rejected"
  /\ UNCHANGED <<leases, gatherVars, searchVars, scoreVars>>

\* score_frames: a score, and the next frame if there is one;
Decide == \E speech \in BOOLEAN : decisions' = Append(decisions, speech)

NextFrame ==
  /\ stage = "recording" /\ GatherReturns
  /\ Decide
  /\ Len(decisions') < Length
  /\ BeginGather({1})
  /\ UNCHANGED <<vars, stage, leases, rounds, searchVars, labels>>

\* after the last one, measure_rss_per_stream up to its sleep(0).
LastFrame ==
  /\ stage = "recording" /\ GatherReturns
  /\ Decide
  /\ Len(decisions') = Length
  /\ Reopen(1, RssStreams)
  /\ stage' = "rss" /\ streams' = {}
  /\ UNCHANGED <<vars, unscored, current, broken, rounds, searchVars, labels>>

\* The loop of maximum_sustainable_concurrency: the next trial, or the finally
\* of benchmark_provider.  (Mutant: the search stops one trial early.)
Midpoint(from, to)  == (from + to + 1) \div 2
StopsEarly(from, to) == from + 1 < to
Continues(from, to)  == from < to

Search(closed) ==
  \/ LET candidate == Midpoint(low', high') IN
       /\ Continues(low', high')
       /\ Reopen(closed, candidate)
       /\ BeginGather(1..candidate)
       /\ stage' = "trial" /\ rounds' = 0
       /\ UNCHANGED vars
  \/ /\ ~Continues(low', high')
     /\ Reopen(closed, 0)
     /\ stage' = "closing" /\ streams' = {}
     /\ BeginClose
     /\ UNCHANGED <<unscored, current, broken, rounds>>

BeginSearch ==
  /\ stage = "rss"
  /\ labels' = <<>> /\ decisions' = <<>>
  /\ UNCHANGED searchVars
  /\ Search(RssStreams)

NextRound ==
  /\ stage = "trial" /\ GatherReturns
  /\ rounds + 1 < Rounds
  /\ rounds' = rounds + 1
  /\ BeginGather(streams)
  /\ UNCHANGED <<vars, stage, leases, searchVars, scoreVars>>

\* What the search makes of a trial.
Record(passed) ==
  LET candidate == Midpoint(low, high) IN
  /\ attempts' = attempts \cup {<<candidate, passed>>}
  /\ low' = IF passed THEN candidate ELSE low
  /\ high' = IF passed THEN high ELSE candidate - 1
  /\ Search(Cardinality(streams))
  /\ UNCHANGED scoreVars

\* A trial in which every call returned may still have been too slow.
TrialEnds ==
  /\ stage = "trial" /\ GatherReturns
  /\ rounds + 1 = Rounds
  /\ \E passed \in BOOLEAN : Record(passed)

TrialFails ==
  /\ stage = "trial" /\ GatherRaises
  /\ Record(FALSE)

\* The finally of benchmark_provider when the recording cannot be read, a call
\* raises, or a score is out of range.
GiveUpRecording ==
  /\ \/ stage = "rejected" /\ UNCHANGED leases
     \/ /\ stage = "recording" /\ (GatherRaises \/ GatherReturns)
        /\ Reopen(1, 0)
  /\ BeginClose
  /\ stage' = "closing" /\ streams' = {}
  /\ UNCHANGED <<unscored, current, broken, rounds, searchVars, scoreVars>>

Leave ==
  /\ stage = "closing"
  /\ \/ PutStop /\ UNCHANGED stage
     \/ EndClose /\ stage' = "over"
  /\ UNCHANGED <<leases, gatherVars, searchVars, scoreVars>>

-----------------------------------------------------------------------------
BenchInit ==
  /\ Init
  /\ stage = "new" /\ leases = 0
  /\ streams = {} /\ unscored = {} /\ current = {}
  /\ broken = FALSE /\ rounds = 0
  /\ low = 0 /\ high = Maximum /\ attempts = {}
  /\ labels \in [1..Length -> BOOLEAN] /\ decisions = <<>>

Main ==
  \/ BeginRecording \/ RejectRecording \/ NextFrame \/ LastFrame \/ GiveUpRecording
  \/ BeginSearch \/ NextRound \/ TrialEnds \/ TrialFails
  \/ Leave

BenchWorker(w) ==
  /\ Worker(w)
  /\ UNCHANGED <<stage, leases, gatherVars, searchVars, scoreVars>>

BenchNext ==
  \/ Main \/ BeginScore
  \/ \E j \in Jobs : CallAnswered(j) \/ CallExpires(j)
  \/ \E w \in Workers : BenchWorker(w)

(* Everything here runs by itself: ready coroutines, threads that return,   *)
(* and, if a call is not answered, its deadline.                            *)
BenchSpec ==
  /\ BenchInit /\ [][BenchNext]_benchVars
  /\ WF_benchVars(Main) /\ WF_benchVars(BeginScore)
  /\ \A j \in 1..MaxJobs :
       WF_benchVars(j \in Jobs /\ (CallAnswered(j) \/ CallExpires(j)))
  /\ \A w \in Workers : WF_benchVars(BenchWorker(w))

-----------------------------------------------------------------------------
(* Properties.                                                              *)

\* What the trials so far say of the bracket.
BracketIsRight ==
  /\ \A a \in attempts : IF a[2] THEN a[1] <= low ELSE a[1] > high
  /\ low > 0 => <<low, TRUE>> \in attempts
  /\ high < Maximum => <<high + 1, FALSE>> \in attempts
  /\ stage \in {"closing", "over"} /\ attempts # {} => low = high

(* "largest concurrency observed by the reported bounded binary search where *)
(* every score call completed without error" (result_definitions): a trial   *)
(* only counts as passed if all its calls returned a result, the trials      *)
(* never contradict the bracket, and the search ends next to a failed trial  *)
(* or at its bound.  Calls left over by a failed trial are not mistaken for  *)
(* calls of the next one.                                                    *)
SearchIsExact ==
  /\ BracketIsRight
  /\ stage = "trial" /\ GatherReturns =>
       /\ Cardinality(current) = Midpoint(low, high)
       /\ \A j \in current : future[j] = "result"

\* The first and the last of the set frames around frame i.
AllSet(flags, a, b) ==
  a \in 1..Len(flags) /\ b \in 1..Len(flags) /\ \A i \in a..b : flags[i]
StartOf(flags, i) == CHOOSE a \in 1..i : AllSet(flags, a, i) /\ ~AllSet(flags, a - 1, i)
EndOf(flags, i) ==
  CHOOSE b \in i..Len(flags) : AllSet(flags, i, b) /\ ~AllSet(flags, i, b + 1)

Frames(flags)   == {i \in 1..Len(flags) : flags[i]}
Segments(flags) == {<<StartOf(flags, i), EndOf(flags, i)>> : i \in Frames(flags)}

\* The frames of a segment that were predicted; the segments that have one.
Hits(predicted, s) == {i \in s[1]..s[2] : predicted[i]}
Detected(reference, predicted) == {s \in Segments(reference) : Hits(predicted, s) # {}}

(* The segment metrics agree with the frames they are made from: a labelled *)
(* segment is detected exactly if one of its frames was predicted, its      *)
(* onset and endpoint are those of the activations around its first and its *)
(* last predicted frame, and every activation is false or detects a segment.*)
MetricsAgree(reference, predicted) ==
  LET delays == SegmentDelays(reference, predicted)
      pairs(expected, actual) == Confusion(reference, predicted, expected, actual)
  IN /\ Cardinality(DOMAIN delays) = Cardinality(Detected(reference, predicted))
     /\ Range(delays) =
          {[onset    |-> StartOf(predicted, Min(Hits(predicted, s))) - s[1],
            endpoint |-> EndOf(predicted, Max(Hits(predicted, s))) - s[2]] :
             s \in Detected(reference, predicted)}
     /\ Cardinality(FalseActivations(reference, predicted)) =
          Cardinality({StartOf(predicted, i) : i \in Frames(predicted)}
            \ {StartOf(predicted, i) : i \in Frames(predicted) \cap Frames(reference)})
     /\ Len(predicted) = pairs(TRUE, TRUE) + pairs(TRUE, FALSE)
                           + pairs(FALSE, TRUE) + pairs(FALSE, FALSE)

SegmentsAgreeWithFrames ==
  stage \in {"recording", "rss"} =>
    MetricsAgree(SubSeq(labels, 1, Len(decisions)), decisions)

(* The benchmark comes to an end, whatever calls are late, and then has     *)
(* given back every lease and left nothing in the runtime.                  *)
EndsClean ==
  <>[](/\ stage = "over" /\ leases = 0 /\ phase = "down"
       /\ \A j \in Jobs : ~Pending(j)
       /\ \A w \in Workers : at[w] = "exited")

(* The inductive invariant behind SearchIsExact, on top of that of the       *)
(* runtime.                                                                  *)

\* The bracket is one, and only trials are recorded.
SearchTypes ==
  /\ low \in Nat /\ high \in Nat /\ low <= high /\ high <= Maximum
  /\ attempts \subseteq Nat \X BOOLEAN

\* Before the first trial nothing is known.
NothingTried ==
  stage \in {"new", "recording", "rejected", "rss"} =>
    low = 0 /\ high = Maximum /\ attempts = {}

\* A trial holds the streams of its concurrency open.
TrialIsOpen == stage = "trial" => low < high /\ streams = 1..Midpoint(low, high)

\* As long as no call of the gather has raised, each stream that has begun has
\* a call in it, and those that were answered had a result.
GatherIsAwaited ==
  /\ current \subseteq Jobs /\ unscored \subseteq Clients
  /\ ~broken => \A j \in current : caller[j] = "answered" => future[j] = "result"
  /\ stage = "trial" =>
       /\ unscored \subseteq streams
       /\ ~broken => Cardinality(current) = Cardinality(streams \ unscored)

\* The leases handed out are those of the streams held open.
LeasesAreHeld ==
  leases = CASE stage = "recording" -> 1
             [] stage = "rss"       -> RssStreams
             [] stage = "trial"     -> Midpoint(low, high)
             [] OTHER               -> 0

BenchInv ==
  /\ IInv
  /\ SearchTypes
  /\ NothingTried
  /\ TrialIsOpen
  /\ GatherIsAwaited
  /\ LeasesAreHeld
  /\ BracketIsRight

\* And behind SegmentsAgreeWithFrames: no frame is scored that has no label.
FramesHaveLabels ==
  /\ decisions \in Seq(BOOLEAN)
  /\ stage \in {"new", "recording", "rss"} =>
       labels \in [1..Length -> BOOLEAN] /\ Len(decisions) <= Length
=============================================================================
