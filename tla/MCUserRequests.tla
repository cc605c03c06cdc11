--------------------------- MODULE MCUserRequests ---------------------------
(***************************************************************************)
(* UserRequests for TLC.  A configuration picks which requests exist; what *)
(* each of them asks for is fixed here.  e1, e2 and the trip t1 are for    *)
(* one EV: e1 clashes with both others, e2 and t1 touch.  h1 and h2 are    *)
(* for one heater, l1 and l2 use one asset id, and l3 asks for an asset id *)
(* the simulator was booted with.                                          *)
(***************************************************************************)
EXTENDS UserRequests

CONSTANTS e1, e2, t1, h1, h2, l1, l2, l3, ev, heater, battery, washer

MCAssetOf ==
    [r \in Requests \cup Trips |->
        IF r \in EvSessions THEN ev
        ELSE IF r \in HeaterRequests THEN heater
        ELSE IF r = l3 THEN battery ELSE washer]

MCWindowStart == [s \in EvSessions |-> IF s = e2 THEN 1 ELSE 0]

MCDeadline == [s \in EvSessions \cup HeaterRequests |-> IF s \in {t1, h1} THEN 1 ELSE 2]

\* Heater requests and loads share no state but the planner's reads and the
\* settlement: a behaviour submits requests of one kind.
OneKind == \A h \in HeaterRequests, l \in LoadRequests : submission[h] = "new" \/ submission[l] = "new"
=============================================================================
