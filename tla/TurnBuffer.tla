----------------------------- MODULE TurnBuffer -----------------------------
(***************************************************************************)
(* RealtimeSessionState of src/app/openai_compat/realtime/state.py: the     *)
(* audio a session has received and not yet committed, and how far turn     *)
(* detection has read it.  Sizes and positions are bytes; a position counts *)
(* from the beginning of the session.  A buffer is a record of the fields   *)
(*   start     buffer_start_bytes      speech    speech_run_frames          *)
(*   len       len(audio)              silence   silence_run_frames         *)
(*   total     total_audio_bytes       active    speech_active              *)
(*   scan      vad_scan_bytes          pending   pending_item_id, or None   *)
(***************************************************************************)
EXTENDS Integers

CONSTANTS
  FrameBytes,  \* _VAD_FRAME_BYTES: 960, 20 ms
  PrefixBytes, \* prefix_padding_ms in bytes: 48 a millisecond
  StartFrames, \* frames of speech that start a turn: 3
  StopFrames,  \* frames of silence that end it: silence_duration_ms / 20
  MaxAudio     \* max_audio_bytes

ASSUME BufferAssumption ==
  /\ FrameBytes \in Nat \ {0} /\ FrameBytes % 2 = 0
  /\ PrefixBytes \in Nat /\ PrefixBytes % 2 = 0
  /\ {StartFrames, StopFrames} \subseteq Nat \ {0}
  /\ MaxAudio \in Nat

None == 0

EmptyBuffer == [start |-> 0, len |-> 0, total |-> 0, scan |-> 0, speech |-> 0,
                silence |-> 0, active |-> FALSE, pending |-> None]

\* reset_vad.
VadReset(b) == [b EXCEPT !.scan = 0, !.speech = 0, !.silence = 0, !.active = FALSE]

HasRoom(b, size) == b.total + size <= MaxAudio

Appended(b, size) == [b EXCEPT !.len = @ + size, !.total = @ + size]

Cleared(b) == [VadReset(b) EXCEPT !.len = 0, !.start = b.total, !.pending = None]

\* next_vad_frame: is there one, and the buffer once it has been copied.
FrameReady(b) == b.scan + FrameBytes <= b.len
Scanned(b)    == [b EXCEPT !.scan = @ + FrameBytes]

\* Where the frame that was copied last ends.
FrameEnd(b) == b.start + b.scan

\* trim_pre_speech.  (Mutant: the frames of the speech run are not kept.)
RetainedPrefix(b) == PrefixBytes
Retained(b)       == PrefixBytes + b.speech * FrameBytes

Trimmed(b) ==
  LET discard == b.scan - Retained(b)
  IN IF discard > 0
     THEN [b EXCEPT !.len = @ - discard, !.start = @ + discard, !.scan = @ - discard]
     ELSE b

\* speech_started's audio_start_ms and speech_stopped's audio_end_ms.
Onset(b) == FrameEnd(b) - StartFrames * FrameBytes
AnnouncedStart(b) ==
  IF Onset(b) > PrefixBytes THEN Onset(b) - PrefixBytes ELSE 0

\* snapshot: is the size one it takes, and what is left.  (Mutant: the next
\* turn gets the same item.)
Whole(b, size) == size > 0 /\ size <= b.len /\ size % 2 = 0

RemainderSameItem(b, size) == [VadReset(b) EXCEPT !.len = b.len - size, !.start = b.start + size]
Remainder(b, size)         == [RemainderSameItem(b, size) EXCEPT !.pending = None]
=============================================================================
