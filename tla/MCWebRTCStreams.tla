-------------------------- MODULE MCWebRTCStreams --------------------------
(* Instances of WebRTCStreams for TLC.                                     *)
EXTENDS WebRTCStreams, TLC

\* Workers are interchangeable; so are streams that nobody resets.
Symmetry == Permutations(Workers) \cup
            (IF Resettable = {} THEN Permutations(Clients) ELSE {})
=============================================================================
