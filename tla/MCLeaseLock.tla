---------------------------- MODULE MCLeaseLock ----------------------------
(***************************************************************************)
(* LeaseLock with two sessions, each of which may ask, hold, refresh,      *)
(* release and die at any point.                                           *)
(***************************************************************************)
EXTENDS LeaseLock

FairLease == LeaseSpec /\ LeaseFairness
=============================================================================
