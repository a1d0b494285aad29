--------------------------- MODULE StreamCapacity ---------------------------
(* The lease counter of src/app/vad/base.py (StreamCapacity): one lease per *)
(* live stream of a provider, with a hard upper bound.                      *)
EXTENDS Integers

CONSTANT Limit \* max_streams

VARIABLE active \* leases handed out

ASSUME CapacityAssumption == Limit \in Nat \ {0}

\* (Mutant: the bound admits one lease too many.)
FreeLeaseLoosely == active <= Limit
FreeLease        == active < Limit

Acquire == FreeLease /\ active' = active + 1

\* Never below zero, even when a lease is released twice.
Release == active' = IF active > 0 THEN active - 1 ELSE 0
=============================================================================
