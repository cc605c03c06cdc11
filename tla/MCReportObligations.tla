------------------------ MODULE MCReportObligations ------------------------
(***************************************************************************)
(* An event that asks for a plan forecast and for usage.                   *)
(***************************************************************************)
EXTENDS ReportObligations

MCEventOf == [s \in Slots |-> "event"]
=============================================================================
