-------------------------- MODULE MCNativeSession --------------------------
(* The instance of NativeSession for TLC: its constants are numbers given   *)
(* in the cfg.                                                              *)
EXTENDS NativeSession
=============================================================================
