-------------------------- MODULE MCEvSessionQueue --------------------------
(***************************************************************************)
(* EvSessionQueue with three session ids and six instants: queues of up to *)
(* three sessions with room before, between and after them, windows that   *)
(* touch, and candidates that clash with none, one or two queued sessions. *)
(***************************************************************************)
EXTENDS EvSessionQueue

CONSTANTS s1, s2, s3

MCSessionIds == {s1, s2, s3}
MCTimes == 0 .. 5
=============================================================================
