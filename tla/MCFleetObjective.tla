-------------------------- MODULE MCFleetObjective --------------------------
(***************************************************************************)
(* FleetObjective with two objectives: the profile's, and the one that the *)
(* fleet commands and the VEN UI sets.                                     *)
(***************************************************************************)
EXTENDS FleetObjective

CONSTANTS cost, carbon

MCObjectives == {carbon}
=============================================================================
