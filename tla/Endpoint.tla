------------------------------ MODULE Endpoint ------------------------------
(***************************************************************************)
(* EndpointDetector of src/app/audio/endpoint.py: voice decisions of 20 ms *)
(* frames become utterances.  Durations are counted in frames.              *)
(***************************************************************************)
EXTENDS Integers

CONSTANTS
  StartFrames, \* speech_start_ms: speech that opens an utterance
  EndFrames,   \* speech_end_ms: silence that ends it
  MinFrames,   \* min_utterance_ms
  MaxFrames    \* max_utterance_ms

(* The last conjunct is not validated by the code; the defaults are 3 and   *)
(* 1500 frames.  Without it speech could start in a buffer that is full.    *)
ASSUME EndpointAssumption ==
  /\ {StartFrames, EndFrames, MinFrames, MaxFrames} \subseteq Nat \ {0}
  /\ MinFrames <= MaxFrames
  /\ StartFrames < MaxFrames

VARIABLES
  active,    \* state is SPEECH
  speechRun, \* _speech_run
  silentRun, \* _silence_run
  uttered    \* _utterance_frames

endpointVars == <<active, speechRun, silentRun, uttered>>

EndpointReset ==
  /\ active' = FALSE
  /\ speechRun' = 0 /\ silentRun' = 0 /\ uttered' = 0

\* process, while idle.
Listen(isSpeech, event) ==
  /\ ~active
  /\ \/ /\ ~isSpeech /\ event = "none"
        /\ speechRun' = 0
        /\ UNCHANGED <<active, silentRun, uttered>>
     \/ /\ isSpeech /\ speechRun + 1 < StartFrames /\ event = "none"
        /\ speechRun' = speechRun + 1
        /\ UNCHANGED <<active, silentRun, uttered>>
     \/ /\ isSpeech /\ speechRun + 1 >= StartFrames /\ event = "started"
        /\ active' = TRUE
        /\ uttered' = speechRun + 1
        /\ silentRun' = 0 /\ speechRun' = 0

\* process, during speech: the limit is looked at before the silence.
Follow(isSpeech, event) ==
  LET spoken == uttered + 1
      silent == IF isSpeech THEN 0 ELSE silentRun + 1
      ended  == spoken >= MinFrames /\ silent >= EndFrames
  IN /\ active
     /\ \/ /\ spoken >= MaxFrames /\ event = "limit"
           /\ EndpointReset
        \/ /\ spoken < MaxFrames /\ ended /\ event = "ended"
           /\ EndpointReset
        \/ /\ spoken < MaxFrames /\ ~ended /\ event = "none"
           /\ uttered' = spoken /\ silentRun' = silent
           /\ UNCHANGED <<active, speechRun>>

Process(isSpeech, event) == Listen(isSpeech, event) \/ Follow(isSpeech, event)

EndpointInit ==
  /\ active = FALSE
  /\ speechRun = 0 /\ silentRun = 0 /\ uttered = 0
=============================================================================
