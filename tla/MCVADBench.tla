----------------------------- MODULE MCVADBench -----------------------------
(* Instance of VADBench for TLC.                                            *)
EXTENDS VADBench
=============================================================================
