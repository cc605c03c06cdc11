----------------------------- MODULE MCPollPlan -----------------------------
(***************************************************************************)
(* PollPlan for TLC.  A configuration picks the events; p carries a price, *)
(* l a capacity limit, a an alert, s a SIMPLE level, d a dispatch.         *)
(***************************************************************************)
EXTENDS PollPlan

CONSTANTS p, l, a, s, d

MCKind ==
    [e \in Events |->
        CASE e = p -> "price" [] e = l -> "limit" [] e = a -> "alert"
          [] e = s -> "simple" [] e = d -> "dispatch"]
=============================================================================
