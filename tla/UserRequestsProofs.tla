------------------------- MODULE UserRequestsProofs -------------------------
(***************************************************************************)
(* What the handlers of user requests keep true, for every set of requests *)
(* and trips, every assignment of assets and windows to them and every     *)
(* interleaving.                                                           *)
(***************************************************************************)
EXTENDS UserRequests, TLAPS

\* The steps that are left when a request or trip has been picked.
LEMMA NextCases ==
    ASSUME [Next]_vars
    PROVE  \/ \E r \in Requests :
                \/ \E ids \in SUBSET ev_sessions : InstallEvSession(r, ids)
                \/ InstallHeaterTarget(r)
                \/ AcceptLoad(r)
                \/ AddToRoster(r)
                \/ AnnounceDisplaced(r)
                \/ UpsertRequest(r)
                \/ AnnounceRequest(r)
                \/ CheckCancel(r)
                \/ CancelInRoster(r)
                \/ CancelRequest(r)
                \/ AnnounceCancel(r)
           \/ BeginTick
           \/ \E t \in Trips : PlanAhead(t)
           \/ \E start \in SUBSET LoadRequests : \E finish \in SUBSET LoadRequests :
                Physics(start, finish)
           \/ FindFinishedLoads
           \/ \E l \in LoadRequests : CompleteShiftable(l)
           \/ AnnounceCompletion
           \/ SettleRequests
           \/ AnnounceSettled
           \/ Plan
           \/ Advance
           \/ UNCHANGED vars
BY DEF Next, Submit, Cancel, Tick

LEMMA FinishTyped ==
    ASSUME TypeOK, NEW ended, NEW status \in {"Completed", "Cancelled"}, NEW at \in 0 .. MaxTime,
           Finish(ended, status, at)
    PROVE  /\ user_requests' \in [Requests -> {"unlisted", "Active", "Completed", "Cancelled"}]
           /\ finished_at' \in [Requests -> 0 .. MaxTime]
BY DEF TypeOK, Finish

\* Every variable stays in its type: the statuses and program counters of
\* the handlers are the ones the code can be in.
LEMMA TypeStep == TypeOK /\ [Next]_vars => TypeOK'
<1> SUFFICES ASSUME TypeOK, [Next]_vars
             PROVE  TypeOK'
  OBVIOUS
<1> USE DEF TypeOK, vars, hemsVars, simVars, httpVars, tickVars, planVars
<1>1. ASSUME NEW r \in Requests, NEW ids \in SUBSET ev_sessions, InstallEvSession(r, ids)
      PROVE  TypeOK'
  <2>1. /\ user_requests' \in [Requests -> {"unlisted", "Active", "Completed", "Cancelled"}]
        /\ finished_at' \in [Requests -> 0 .. MaxTime]
    BY <1>1, FinishTyped DEF InstallEvSession
  <2> QED
    BY <1>1, <2>1 DEF InstallEvSession, EvSessions
<1>2. ASSUME NEW r \in Requests, InstallHeaterTarget(r)
      PROVE  TypeOK'
  <2>1. /\ user_requests' \in [Requests -> {"unlisted", "Active", "Completed", "Cancelled"}]
        /\ finished_at' \in [Requests -> 0 .. MaxTime]
    BY <1>2, FinishTyped DEF InstallHeaterTarget
  <2> QED
    BY <1>2, <2>1 DEF InstallHeaterTarget
<1>3. ASSUME NEW r \in Requests, AcceptLoad(r)
      PROVE  TypeOK'
  BY <1>3 DEF AcceptLoad
<1>4. ASSUME NEW r \in Requests, AddToRoster(r)
      PROVE  TypeOK'
  BY <1>4 DEF AddToRoster
<1>5. ASSUME NEW r \in Requests, AnnounceDisplaced(r)
      PROVE  TypeOK'
  BY <1>5 DEF AnnounceDisplaced
<1>6. ASSUME NEW r \in Requests, UpsertRequest(r) \/ AnnounceRequest(r)
      PROVE  TypeOK'
  BY <1>6 DEF UpsertRequest, AnnounceRequest
<1>7. ASSUME NEW r \in Requests, CheckCancel(r) \/ AnnounceCancel(r)
      PROVE  TypeOK'
  BY <1>7 DEF CheckCancel, AnnounceCancel
<1>8. ASSUME NEW r \in Requests, CancelInRoster(r)
      PROVE  TypeOK'
  <2>1. /\ running' \in [LoadRequests -> {"absent", "pending", "started"}]
        /\ boot' \subseteq BootAssets
        /\ cancellation' \in [Requests -> {"none", "roster", "clear", "announce"}]
    BY <1>8 DEF CancelInRoster
  <2> QED
    BY <1>8, <2>1 DEF CancelInRoster
<1>9. ASSUME NEW r \in Requests, CancelRequest(r)
      PROVE  TypeOK'
  <2>1. CASE Listed(r)
    <3>1. /\ user_requests' \in [Requests -> {"unlisted", "Active", "Completed", "Cancelled"}]
          /\ finished_at' \in [Requests -> 0 .. MaxTime]
      BY <1>9, <2>1, FinishTyped DEF CancelRequest
    <3> QED
      BY <1>9, <2>1, <3>1 DEF CancelRequest
  <2>2. CASE ~Listed(r)
    BY <1>9, <2>2 DEF CancelRequest
  <2> QED
    BY <2>1, <2>2
<1>10. CASE BeginTick \/ AnnounceCompletion \/ AnnounceSettled
  BY <1>10 DEF BeginTick, AnnounceCompletion, AnnounceSettled
<1>11. ASSUME NEW t \in Trips, PlanAhead(t)
       PROVE  TypeOK'
  BY <1>11 DEF PlanAhead, EvSessions
<1>12. ASSUME NEW start \in SUBSET LoadRequests, NEW finish \in SUBSET LoadRequests,
              Physics(start, finish)
       PROVE  TypeOK'
  <2>1. snapshot' \subseteq Assets
    BY <1>12 DEF Physics, Assets, InRoster, Requests
  <2> QED
    BY <1>12, <2>1 DEF Physics
<1>13. CASE FindFinishedLoads
  BY <1>13 DEF FindFinishedLoads
<1>14. ASSUME NEW l \in LoadRequests, CompleteShiftable(l)
       PROVE  TypeOK'
  <2>1. /\ user_requests' \in [Requests -> {"unlisted", "Active", "Completed", "Cancelled"}]
        /\ finished_at' \in [Requests -> 0 .. MaxTime]
    BY <1>14, FinishTyped DEF CompleteShiftable
  <2> QED
    BY <1>14, <2>1 DEF CompleteShiftable
<1>15. CASE SettleRequests
  BY <1>15 DEF SettleRequests, Passed
<1>16. CASE Plan
  BY <1>16 DEF Plan, WakeOnTrigger, WakeOnInterval, ReadEvSessions, ReadHeaterTargets
<1>17. CASE Advance
  BY <1>17, TimeAssumption DEF Advance
<1>18. CASE UNCHANGED vars
  BY <1>18
<1> QED
  BY NextCases, <1>1, <1>2, <1>3, <1>4, <1>5, <1>6, <1>7, <1>8, <1>9, <1>10, <1>11, <1>12,
     <1>13, <1>14, <1>15, <1>16, <1>17, <1>18

LEMMA TypeInit == Init => TypeOK
<1> SUFFICES ASSUME Init PROVE TypeOK
  OBVIOUS
<1>1. /\ now \in 0 .. MaxTime /\ tick_now \in 0 .. MaxTime
      /\ finished_at \in [Requests -> 0 .. MaxTime]
  BY TimeAssumption DEF Init
<1> QED
  BY <1>1 DEF Init, TypeOK, Assets

\* The handlers' state is always one the code can be in.
THEOREM TypeCorrect == Spec => []TypeOK
<1>1. Init => TypeOK
  BY TypeInit
<1>2. TypeOK /\ [Next]_vars => TypeOK'
  BY TypeStep
<1> QED
  BY <1>1, <1>2, PTL DEF Spec

-----------------------------------------------------------------------------

\* A request is listed, and can be cancelled, only once its submission has
\* recorded it.
ListedIsRecorded ==
    \A r \in Requests :
        Listed(r) \/ cancellation[r] # "none" => submission[r] \in {"recorded", "done"}

\* A load whose cancellation got past the roster has left it, and does not
\* come back: only its submission, which is over by then, could add it.
ClearedHasLeft ==
    \A l \in LoadRequests :
        cancellation[l] \in {"clear", "announce"} \/ user_requests[l] = "Cancelled" =>
            running[l] = "absent"

IInv == TypeOK /\ ListedIsRecorded /\ ClearedHasLeft /\ SessionHasOwner

LEMMA RecordedStep == IInv /\ [Next]_vars => ListedIsRecorded'
<1> SUFFICES ASSUME IInv, [Next]_vars,
                    NEW q \in Requests, (Listed(q) \/ cancellation[q] # "none")'
             PROVE  submission'[q] \in {"recorded", "done"}
  BY DEF ListedIsRecorded
<1> USE DEF IInv, TypeOK, vars, hemsVars, simVars, httpVars, tickVars, planVars,
            ListedIsRecorded, Listed
<1>1. ASSUME NEW r \in Requests, NEW ids \in SUBSET ev_sessions, InstallEvSession(r, ids)
      PROVE  submission'[q] \in {"recorded", "done"}
  BY <1>1 DEF InstallEvSession, Finish
<1>2. ASSUME NEW r \in Requests, InstallHeaterTarget(r)
      PROVE  submission'[q] \in {"recorded", "done"}
  BY <1>2 DEF InstallHeaterTarget, Finish
<1>3. ASSUME NEW r \in Requests, AcceptLoad(r) \/ AddToRoster(r) \/ AnnounceDisplaced(r)
      PROVE  submission'[q] \in {"recorded", "done"}
  BY <1>3 DEF AcceptLoad, AddToRoster, AnnounceDisplaced
<1>4. ASSUME NEW r \in Requests, UpsertRequest(r) \/ AnnounceRequest(r)
      PROVE  submission'[q] \in {"recorded", "done"}
  BY <1>4 DEF UpsertRequest, AnnounceRequest
<1>5. ASSUME NEW r \in Requests, CheckCancel(r) \/ CancelInRoster(r) \/ AnnounceCancel(r)
      PROVE  submission'[q] \in {"recorded", "done"}
  BY <1>5 DEF CheckCancel, CancelInRoster, AnnounceCancel
<1>6. ASSUME NEW r \in Requests, CancelRequest(r)
      PROVE  submission'[q] \in {"recorded", "done"}
  BY <1>6 DEF CancelRequest, Finish
<1>7. ASSUME NEW l \in LoadRequests, CompleteShiftable(l)
      PROVE  submission'[q] \in {"recorded", "done"}
  BY <1>7 DEF CompleteShiftable, Finish
<1>8. CASE SettleRequests
  <2>1. Listed(q) \/ cancellation[q] # "none"
    BY <1>8 DEF SettleRequests
  <2> QED
    BY <1>8, <2>1 DEF SettleRequests
<1>9. CASE \/ BeginTick \/ AnnounceCompletion \/ AnnounceSettled \/ FindFinishedLoads
           \/ Plan \/ Advance \/ UNCHANGED vars
           \/ \E t \in Trips : PlanAhead(t)
           \/ \E start \in SUBSET LoadRequests : \E finish \in SUBSET LoadRequests :
                Physics(start, finish)
  BY <1>9 DEF BeginTick, AnnounceCompletion, AnnounceSettled, FindFinishedLoads, Plan,
              WakeOnTrigger, WakeOnInterval, ReadEvSessions, ReadHeaterTargets, Advance,
              PlanAhead, Physics
<1> QED
  BY NextCases, <1>1, <1>2, <1>3, <1>4, <1>5, <1>6, <1>7, <1>8, <1>9

LEMMA ClearedStep == IInv /\ [Next]_vars => ClearedHasLeft'
<1> SUFFICES ASSUME IInv, [Next]_vars, NEW q \in LoadRequests,
                    (cancellation[q] \in {"clear", "announce"} \/ user_requests[q] = "Cancelled")'
             PROVE  running'[q] = "absent"
  BY DEF ClearedHasLeft
<1>q. q \in Requests /\ q \notin EvRequests /\ q \notin HeaterRequests
  BY KindsAssumption DEF Requests
<1> USE DEF IInv, TypeOK, vars, hemsVars, simVars, httpVars, tickVars, planVars,
            ListedIsRecorded, ClearedHasLeft, Listed
<1>1. ASSUME NEW r \in Requests, NEW ids \in SUBSET ev_sessions, InstallEvSession(r, ids)
      PROVE  running'[q] = "absent"
  <2>1. q \notin ids
    BY <1>q, KindsAssumption DEF EvSessions
  <2> QED
    BY <1>1, <1>q, <2>1 DEF InstallEvSession, Finish
<1>2. ASSUME NEW r \in Requests, InstallHeaterTarget(r)
      PROVE  running'[q] = "absent"
  BY <1>2, <1>q DEF InstallHeaterTarget, Finish
<1>3. ASSUME NEW r \in Requests, AcceptLoad(r) \/ AnnounceDisplaced(r) \/ AnnounceRequest(r)
      PROVE  running'[q] = "absent"
  BY <1>3, <1>q DEF AcceptLoad, AnnounceDisplaced, AnnounceRequest
<1>4. ASSUME NEW r \in Requests, AddToRoster(r)
      PROVE  running'[q] = "absent"
  <2>1. q # r
    BY <1>4, <1>q DEF AddToRoster
  <2> QED
    BY <1>4, <1>q, <2>1 DEF AddToRoster
<1>5. ASSUME NEW r \in Requests, UpsertRequest(r)
      PROVE  running'[q] = "absent"
  BY <1>5, <1>q DEF UpsertRequest
<1>6. ASSUME NEW r \in Requests, CheckCancel(r) \/ AnnounceCancel(r)
      PROVE  running'[q] = "absent"
  BY <1>6, <1>q DEF CheckCancel, AnnounceCancel
<1>7. ASSUME NEW r \in Requests, CancelInRoster(r)
      PROVE  running'[q] = "absent"
  <2>1. CASE r = q
    BY <1>7, <1>q, <2>1 DEF CancelInRoster, InRoster
  <2>2. CASE r # q
    <3>1. running[q] = "absent"
      BY <1>7, <1>q, <2>2 DEF CancelInRoster
    <3> QED
      BY <1>7, <1>q, <3>1 DEF CancelInRoster
  <2> QED
    BY <2>1, <2>2
<1>8. ASSUME NEW r \in Requests, CancelRequest(r)
      PROVE  running'[q] = "absent"
  BY <1>8, <1>q DEF CancelRequest, Finish
<1>9. ASSUME NEW l \in LoadRequests, CompleteShiftable(l)
      PROVE  running'[q] = "absent"
  BY <1>9, <1>q DEF CompleteShiftable, Finish
<1>10. CASE SettleRequests
  <2>1. cancellation[q] \in {"clear", "announce"} \/ user_requests[q] = "Cancelled"
    BY <1>10, <1>q DEF SettleRequests
  <2> QED
    BY <1>10, <2>1 DEF SettleRequests
<1>11. ASSUME NEW start \in SUBSET LoadRequests, NEW finish \in SUBSET LoadRequests,
              Physics(start, finish)
       PROVE  running'[q] = "absent"
  BY <1>11, <1>q DEF Physics
<1>12. CASE \/ BeginTick \/ AnnounceCompletion \/ AnnounceSettled \/ FindFinishedLoads
            \/ Plan \/ Advance \/ UNCHANGED vars
            \/ \E t \in Trips : PlanAhead(t)
  BY <1>12, <1>q DEF BeginTick, AnnounceCompletion, AnnounceSettled, FindFinishedLoads, Plan,
              WakeOnTrigger, WakeOnInterval, ReadEvSessions, ReadHeaterTargets, Advance,
              PlanAhead
<1> QED
  BY NextCases, <1>1, <1>2, <1>3, <1>4, <1>5, <1>6, <1>7, <1>8, <1>9, <1>10, <1>11, <1>12

\* Only finished requests are pruned from the list.
LEMMA PrunedAreFinished ==
    ASSUME NEW status, NEW ends, NEW at, NEW pruned \in Pruned(status, ends, at)
    PROVE  \A r \in pruned : r \in Requests /\ status[r] \in {"Completed", "Cancelled"}
BY DEF Pruned

\* Sessions that a step leaves alone keep their owner; those it takes away
\* need none.
LEMMA OwnerStep == IInv /\ [Next]_vars => SessionHasOwner'
<1> SUFFICES ASSUME IInv, [Next]_vars, NEW q \in (Sessions \cap Requests)'
             PROVE  \/ user_requests'[q] = "Active"
                    \/ submission'[q] \in {"accepted", "installed", "recording"}
  BY DEF SessionHasOwner
<1>q. q \in Requests
  BY DEF Requests
<1> DEFINE Owned == \/ user_requests'[q] = "Active"
                    \/ submission'[q] \in {"accepted", "installed", "recording"}
<1> USE DEF IInv, TypeOK, vars, hemsVars, simVars, httpVars, tickVars, planVars,
            SessionHasOwner, Sessions
<1>1. ASSUME NEW r \in Requests, NEW ids \in SUBSET ev_sessions, InstallEvSession(r, ids)
      PROVE  Owned
  <2>1. CASE q = r
    BY <1>1, <1>q, <2>1 DEF InstallEvSession
  <2>2. CASE q # r
    <3>1. q \in Sessions /\ q \notin ids
      BY <1>1, <2>2, KindsAssumption DEF InstallEvSession, EvSessions, Requests
    <3> QED
      BY <1>1, <1>q, <2>2, <3>1 DEF InstallEvSession, Finish
  <2> QED
    BY <2>1, <2>2
<1>2. ASSUME NEW r \in Requests, InstallHeaterTarget(r)
      PROVE  Owned
  <2>1. CASE q = r
    BY <1>2, <1>q, <2>1 DEF InstallHeaterTarget
  <2>2. CASE q # r
    <3>1. /\ q \in Sessions
          /\ q \notin { h \in heater_targets : AssetOf[h] = AssetOf[r] /\ user_requests[h] = "Active" }
      BY <1>2, <2>2, KindsAssumption DEF InstallHeaterTarget, EvSessions, Requests
    <3> QED
      BY <1>2, <1>q, <2>2, <3>1 DEF InstallHeaterTarget, Finish
  <2> QED
    BY <2>1, <2>2
<1>3. ASSUME NEW r \in Requests, AcceptLoad(r)
      PROVE  Owned
  BY <1>3, <1>q DEF AcceptLoad
<1>4. ASSUME NEW r \in Requests, AddToRoster(r) \/ AnnounceDisplaced(r)
      PROVE  Owned
  BY <1>4, <1>q DEF AddToRoster, AnnounceDisplaced
<1>5. ASSUME NEW r \in Requests, UpsertRequest(r) \/ AnnounceRequest(r)
      PROVE  Owned
  BY <1>5, <1>q DEF UpsertRequest, AnnounceRequest
<1>6. ASSUME NEW r \in Requests, CheckCancel(r) \/ CancelInRoster(r) \/ AnnounceCancel(r)
      PROVE  Owned
  BY <1>6, <1>q DEF CheckCancel, CancelInRoster, AnnounceCancel
<1>7. ASSUME NEW r \in Requests, CancelRequest(r)
      PROVE  Owned
  <2>1. CASE Listed(r)
    <3>1. q # r /\ q \in Sessions
      BY <1>7, <2>1 DEF CancelRequest
    <3> QED
      BY <1>7, <1>q, <2>1, <3>1 DEF CancelRequest, Finish
  <2>2. CASE ~Listed(r)
    BY <1>7, <1>q, <2>2 DEF CancelRequest
  <2> QED
    BY <2>1, <2>2
<1>8. ASSUME NEW t \in Trips, PlanAhead(t)
      PROVE  Owned
  <2>1. q # t
    BY <1>q, KindsAssumption
  <2> QED
    BY <1>8, <1>q, <2>1 DEF PlanAhead
<1>9. ASSUME NEW l \in LoadRequests, CompleteShiftable(l)
      PROVE  Owned
  <2>1. q # l /\ q \in Sessions
    BY <1>9, KindsAssumption DEF CompleteShiftable, EvSessions, Requests
  <2> QED
    BY <1>9, <1>q, <2>1 DEF CompleteShiftable, Finish
<1>10. CASE SettleRequests
  <2>1. q \in Sessions /\ q \notin Passed(tick_now)
    BY <1>10, KindsAssumption DEF SettleRequests, Passed, Requests, EvSessions
  <2>2. CASE user_requests[q] # "Active"
    BY <1>10, <1>q, <2>1, <2>2 DEF SettleRequests
  <2>3. CASE user_requests[q] = "Active"
    <3> DEFINE completed == { r \in Passed(tick_now) \cap Requests : user_requests[r] = "Active" }
               status == [r \in Requests |->
                   IF r \in completed THEN "Completed" ELSE user_requests[r]]
               ends == [r \in Requests |-> IF r \in completed THEN tick_now ELSE finished_at[r]]
    <3>1. PICK pruned \in Pruned(status, ends, tick_now) :
            user_requests' = [r \in Requests |->
                IF r \in pruned THEN "unlisted" ELSE status[r]]
      BY <1>10 DEF SettleRequests
    <3>2. status[q] = "Active"
      BY <1>q, <2>1, <2>3
    <3>3. q \notin pruned
      BY <3>2, PrunedAreFinished
    <3> QED
      BY <1>q, <3>1, <3>2, <3>3
  <2> QED
    BY <2>2, <2>3
<1>11. CASE \/ BeginTick \/ AnnounceCompletion \/ AnnounceSettled \/ FindFinishedLoads
            \/ Plan \/ Advance \/ UNCHANGED vars
            \/ \E start \in SUBSET LoadRequests : \E finish \in SUBSET LoadRequests :
                Physics(start, finish)
  BY <1>11, <1>q DEF BeginTick, AnnounceCompletion, AnnounceSettled, FindFinishedLoads, Plan,
              WakeOnTrigger, WakeOnInterval, ReadEvSessions, ReadHeaterTargets, Advance, Physics
<1> QED
  BY NextCases, <1>1, <1>2, <1>3, <1>4, <1>5, <1>6, <1>7, <1>8, <1>9, <1>10, <1>11

LEMMA InitInvariant == Init => IInv
<1> SUFFICES ASSUME Init PROVE IInv
  OBVIOUS
<1>1. TypeOK
  BY TypeInit
<1>2. ListedIsRecorded /\ ClearedHasLeft
  BY KindsAssumption DEF Init, ListedIsRecorded, ClearedHasLeft, Listed, Requests
<1>3. SessionHasOwner
  BY DEF Init, SessionHasOwner, Sessions
<1> QED
  BY <1>1, <1>2, <1>3 DEF IInv

LEMMA NextInvariant == IInv /\ [Next]_vars => IInv'
BY TypeStep, RecordedStep, ClearedStep, OwnerStep DEF IInv

\* No session outlives its request, however submissions, cancellations,
\* displacements, completions and expiries interleave.
THEOREM SessionsHaveOwners == Spec => []SessionHasOwner
<1>1. IInv => SessionHasOwner
  BY DEF IInv
<1> QED
  BY <1>1, InitInvariant, NextInvariant, PTL DEF Spec

\* A cancelled load is never left running, although the roster is asked in
\* one step and the request cancelled in a later one.
THEOREM CancelledLoadsNeverRun == Spec => []CancelledNeverRuns
<1>1. IInv => CancelledNeverRuns
  BY DEF IInv, ClearedHasLeft, CancelledNeverRuns
<1> QED
  BY <1>1, InitInvariant, NextInvariant, PTL DEF Spec

\* A step that takes a listed request's session away ends the request too.
THEOREM SessionsEndWithRequests == Spec => EndedSessionEndsRequest
<1> DEFINE A == \A r \in Sessions \cap Requests :
                    r \notin Sessions' /\ Listed(r) => user_requests'[r] # "Active"
<1>1. IInv /\ [Next]_vars => A \/ UNCHANGED vars
  <2> SUFFICES ASSUME IInv, [Next]_vars, NEW q \in Sessions \cap Requests,
                      q \notin Sessions', Listed(q)
               PROVE  user_requests'[q] # "Active"
    OBVIOUS
  <2> USE DEF IInv, TypeOK, vars, hemsVars, simVars, httpVars, tickVars, planVars, Sessions, Listed
  <2>1. ASSUME NEW r \in Requests, NEW ids \in SUBSET ev_sessions, InstallEvSession(r, ids)
        PROVE  user_requests'[q] # "Active"
    BY <2>1 DEF InstallEvSession, Finish
  <2>2. ASSUME NEW r \in Requests, InstallHeaterTarget(r)
        PROVE  user_requests'[q] # "Active"
    BY <2>2 DEF InstallHeaterTarget, Finish
  <2>3. ASSUME NEW r \in Requests, CancelRequest(r)
        PROVE  user_requests'[q] # "Active"
    BY <2>3 DEF CancelRequest, Finish
  <2>4. ASSUME NEW l \in LoadRequests, CompleteShiftable(l)
        PROVE  user_requests'[q] # "Active"
    BY <2>4 DEF CompleteShiftable, Finish
  <2>5. CASE SettleRequests
    <3>1. q \in Passed(tick_now)
      BY <2>5 DEF SettleRequests, Passed
    <3> DEFINE completed == { r \in Passed(tick_now) \cap Requests : user_requests[r] = "Active" }
               status == [r \in Requests |->
                   IF r \in completed THEN "Completed" ELSE user_requests[r]]
               ends == [r \in Requests |-> IF r \in completed THEN tick_now ELSE finished_at[r]]
    <3>2. PICK pruned \in Pruned(status, ends, tick_now) :
            user_requests' = [r \in Requests |->
                IF r \in pruned THEN "unlisted" ELSE status[r]]
      BY <2>5 DEF SettleRequests
    <3>3. status[q] # "Active"
      BY <3>1
    <3> QED
      BY <3>2, <3>3
  <2>6. ASSUME NEW r \in Requests,
               \/ AcceptLoad(r) \/ AddToRoster(r) \/ AnnounceDisplaced(r) \/ UpsertRequest(r)
               \/ AnnounceRequest(r) \/ CheckCancel(r) \/ CancelInRoster(r) \/ AnnounceCancel(r)
        PROVE  FALSE
    BY <2>6 DEF AcceptLoad, AddToRoster, AnnounceDisplaced, UpsertRequest, AnnounceRequest,
                CheckCancel, CancelInRoster, AnnounceCancel
  <2>7. CASE \/ BeginTick \/ AnnounceCompletion \/ AnnounceSettled \/ FindFinishedLoads
             \/ Plan \/ Advance \/ UNCHANGED vars
             \/ \E t \in Trips : PlanAhead(t)
             \/ \E start \in SUBSET LoadRequests : \E finish \in SUBSET LoadRequests :
                  Physics(start, finish)
    BY <2>7 DEF BeginTick, AnnounceCompletion, AnnounceSettled, FindFinishedLoads, Plan,
                WakeOnTrigger, WakeOnInterval, ReadEvSessions, ReadHeaterTargets, Advance,
                PlanAhead, Physics
  <2> QED
    BY NextCases, <2>1, <2>2, <2>3, <2>4, <2>5, <2>6, <2>7
<1> QED
  BY <1>1, InitInvariant, NextInvariant, PTL DEF Spec, EndedSessionEndsRequest

-----------------------------------------------------------------------------

\* Only loads wait to be added to the roster.
AcceptedIsLoad == \A r \in Requests : submission[r] = "accepted" => r \in LoadRequests

\* A cancellation that has yet to be announced is still listed as such: the
\* handler is quicker than the retention.
UnannouncedIsListed ==
    /\ tick_now <= now
    /\ \A r \in Requests : cancellation[r] = "announce" =>
        user_requests[r] = "Cancelled" /\ now - finished_at[r] <= Retention

LEMMA AcceptedStep ==
    ASSUME TypeOK, AcceptedIsLoad, [Next]_vars
    PROVE  AcceptedIsLoad'
<1> SUFFICES ASSUME NEW q \in Requests, submission'[q] = "accepted", q \notin LoadRequests
             PROVE  FALSE
  BY DEF AcceptedIsLoad
<1>1. submission[q] # "accepted"
  BY DEF AcceptedIsLoad
<1> USE DEF TypeOK, vars, hemsVars, simVars, httpVars, tickVars, planVars
<1>2. ASSUME NEW r \in Requests,
             \/ \E ids \in SUBSET ev_sessions : InstallEvSession(r, ids)
             \/ InstallHeaterTarget(r) \/ AcceptLoad(r) \/ AddToRoster(r)
             \/ AnnounceDisplaced(r) \/ UpsertRequest(r) \/ AnnounceRequest(r)
      PROVE  FALSE
  BY <1>1, <1>2 DEF InstallEvSession, InstallHeaterTarget, AcceptLoad, AddToRoster,
                    AnnounceDisplaced, UpsertRequest, AnnounceRequest
<1>3. submission' # submission
  BY <1>1
<1>4. ASSUME NEW r \in Requests,
             CheckCancel(r) \/ CancelInRoster(r) \/ CancelRequest(r) \/ AnnounceCancel(r)
      PROVE  FALSE
  BY <1>3, <1>4 DEF CheckCancel, CancelInRoster, CancelRequest, AnnounceCancel
<1>5. CASE \/ BeginTick \/ AnnounceCompletion \/ AnnounceSettled \/ FindFinishedLoads
           \/ SettleRequests \/ Plan \/ Advance \/ UNCHANGED vars
           \/ \E t \in Trips : PlanAhead(t)
           \/ \E l \in LoadRequests : CompleteShiftable(l)
           \/ \E start \in SUBSET LoadRequests : \E finish \in SUBSET LoadRequests :
                Physics(start, finish)
  BY <1>3, <1>5 DEF BeginTick, AnnounceCompletion, AnnounceSettled, FindFinishedLoads,
                    SettleRequests, Plan, WakeOnTrigger, WakeOnInterval, ReadEvSessions,
                    ReadHeaterTargets, Advance, PlanAhead, CompleteShiftable, Physics
<1> QED
  BY NextCases, <1>2, <1>4, <1>5

\* A pruned request's end lies behind by more than the retention.
LEMMA PrunedAreOld ==
    ASSUME NEW status, NEW ends, NEW at, NEW pruned \in Pruned(status, ends, at)
    PROVE  \A r \in pruned : ends[r] < at - Retention
BY DEF Pruned

LEMMA UnannouncedStep ==
    ASSUME IInv, UnannouncedIsListed, [Next]_vars
    PROVE  UnannouncedIsListed'
<1>1. /\ now \in Int /\ tick_now \in Int /\ Retention \in Nat /\ tick_now <= now
      /\ \A r \in Requests : finished_at[r] \in Int
  BY TimeAssumption DEF IInv, TypeOK, UnannouncedIsListed
<1>2. now' \in {now, now + 1} /\ tick_now' \in {now, tick_now}
  BY NextCases DEF vars, hemsVars, simVars, httpVars, tickVars, planVars, InstallEvSession,
        InstallHeaterTarget, AcceptLoad, AddToRoster, AnnounceDisplaced, UpsertRequest,
        AnnounceRequest, CheckCancel, CancelInRoster, CancelRequest, AnnounceCancel, BeginTick,
        PlanAhead, Physics, FindFinishedLoads, CompleteShiftable, AnnounceCompletion,
        SettleRequests, AnnounceSettled, Plan, WakeOnTrigger, WakeOnInterval, ReadEvSessions,
        ReadHeaterTargets, Advance
<1>3. tick_now' <= now'
  BY <1>1, <1>2
<1> SUFFICES ASSUME NEW q \in Requests, cancellation'[q] = "announce"
             PROVE  user_requests'[q] = "Cancelled" /\ now' - finished_at'[q] <= Retention
  BY <1>3 DEF UnannouncedIsListed
<1> DEFINE Kept == user_requests'[q] = "Cancelled" /\ now' - finished_at'[q] <= Retention
           Same == cancellation[q] = "announce" /\ UNCHANGED <<now, user_requests, finished_at>>
<1>4. ASSUME cancellation[q] = "announce"
      PROVE  user_requests[q] = "Cancelled" /\ now - finished_at[q] <= Retention
             /\ submission[q] \in {"recorded", "done"}
  BY <1>4 DEF UnannouncedIsListed, IInv, ListedIsRecorded
<1>5. ASSUME Same
      PROVE  Kept
  BY <1>4, <1>5
<1>6. now - now <= Retention
  BY <1>1
<1> USE DEF IInv, TypeOK, vars, hemsVars, simVars, httpVars, tickVars, planVars
<1>7. ASSUME NEW r \in Requests, NEW ids \in SUBSET ev_sessions, InstallEvSession(r, ids)
      PROVE  Kept
  BY <1>4, <1>6, <1>7 DEF InstallEvSession, Finish
<1>8. ASSUME NEW r \in Requests, InstallHeaterTarget(r)
      PROVE  Kept
  BY <1>4, <1>6, <1>8 DEF InstallHeaterTarget, Finish
<1>9. ASSUME NEW r \in Requests, UpsertRequest(r)
      PROVE  Kept
  <2>1. q # r
    BY <1>4, <1>9 DEF UpsertRequest
  <2> QED
    BY <1>4, <1>9, <2>1 DEF UpsertRequest
<1>10. ASSUME NEW r \in Requests, CancelRequest(r)
       PROVE  Kept
  <2>1. CASE Listed(r)
    BY <1>4, <1>6, <1>10, <2>1 DEF CancelRequest, Finish
  <2>2. CASE ~Listed(r)
    BY <1>5, <1>10, <2>2 DEF CancelRequest
  <2> QED
    BY <2>1, <2>2
<1>11. ASSUME NEW l \in LoadRequests, CompleteShiftable(l)
       PROVE  Kept
  BY <1>4, <1>11 DEF CompleteShiftable, Finish
<1>12. CASE SettleRequests
  <2> DEFINE completed == { r \in Passed(tick_now) \cap Requests : user_requests[r] = "Active" }
             status == [r \in Requests |->
                 IF r \in completed THEN "Completed" ELSE user_requests[r]]
             ends == [r \in Requests |-> IF r \in completed THEN tick_now ELSE finished_at[r]]
  <2>1. PICK pruned \in Pruned(status, ends, tick_now) :
          user_requests' = [r \in Requests |-> IF r \in pruned THEN "unlisted" ELSE status[r]]
    BY <1>12 DEF SettleRequests
  <2>2. finished_at' = ends /\ now' = now /\ cancellation[q] = "announce"
    BY <1>12 DEF SettleRequests
  <2>3. q \notin completed /\ status[q] = "Cancelled" /\ ends[q] = finished_at[q]
    BY <1>4, <2>2
  <2>4. q \notin pruned
    <3>1. ~(finished_at[q] < tick_now - Retention)
      BY <1>1, <1>4, <2>2
    <3> QED
      BY <2>1, <2>3, <3>1, PrunedAreOld
  <2> QED
    BY <1>4, <2>1, <2>2, <2>3, <2>4
<1>13. CASE Advance
  <2>1. cancellation[q] = "announce" /\ now - finished_at[q] < Retention
    BY <1>13 DEF Advance
  <2>2. now' = now + 1 /\ UNCHANGED <<user_requests, finished_at>>
    BY <1>13 DEF Advance
  <2>3. (now + 1) - finished_at[q] <= Retention
    BY <1>1, <2>1
  <2> QED
    BY <1>4, <2>1, <2>2, <2>3
<1>14. ASSUME NEW r \in Requests,
              \/ AcceptLoad(r) \/ AddToRoster(r) \/ AnnounceDisplaced(r) \/ AnnounceRequest(r)
              \/ CheckCancel(r) \/ CancelInRoster(r) \/ AnnounceCancel(r)
       PROVE  Kept
  <2>1. Same
    BY <1>14 DEF AcceptLoad, AddToRoster, AnnounceDisplaced, AnnounceRequest,
                 CheckCancel, CancelInRoster, AnnounceCancel
  <2> QED
    BY <1>5, <2>1
<1>15. CASE \/ BeginTick \/ AnnounceCompletion \/ AnnounceSettled \/ FindFinishedLoads
            \/ Plan \/ UNCHANGED vars
            \/ \E t \in Trips : PlanAhead(t)
            \/ \E start \in SUBSET LoadRequests : \E finish \in SUBSET LoadRequests :
                 Physics(start, finish)
  <2>1. Same
    BY <1>15 DEF BeginTick, AnnounceCompletion, AnnounceSettled, FindFinishedLoads, Plan,
                 WakeOnTrigger, WakeOnInterval, ReadEvSessions, ReadHeaterTargets, PlanAhead,
                 Physics
  <2> QED
    BY <1>5, <2>1
<1> QED
  BY NextCases, <1>7, <1>8, <1>9, <1>10, <1>11, <1>12, <1>13, <1>14, <1>15

\* Which requests have sessions the planner reads, and which are announcing one.
Planable == EvRequests \cup HeaterRequests
AnnouncesFor(r) == submission[r] \in {"installed", "recording", "recorded"} \/ cancellation[r] = "announce"

\* What the planner has not read, it is going to, or somebody is about to ask
\* for it.
Known(read, there, due) == read # there => trigger \/ due \/ Announcing

LEMMA PlanKnows ==
    /\ PlanKnowsSessions <=>
        /\ Known(planned \cap EvRequests, ev_sessions \cap EvRequests, planner = "ev_sessions")
        /\ Known(planned \cap HeaterRequests, heater_targets, planner # "waiting")
    /\ Announcing <=> tick = "settled" \/ \E r \in Planable : AnnouncesFor(r)
BY DEF PlanKnowsSessions, Known, Announcing, Planable, AnnouncesFor

\* A step that changes neither what is there nor what was read, and lets no
\* announcement go, keeps the planner informed.
LEMMA NothingNew ==
    ASSUME PlanKnowsSessions, planned' = planned, planner' = planner,
           ev_sessions' \cap EvRequests = ev_sessions \cap EvRequests,
           heater_targets' = heater_targets,
           trigger \/ Announcing => trigger' \/ Announcing'
    PROVE  PlanKnowsSessions'
BY DEF PlanKnowsSessions

LEMMA PlanStep ==
    ASSUME IInv, AcceptedIsLoad, UnannouncedIsListed, PlanKnowsSessions, [Next]_vars
    PROVE  PlanKnowsSessions'
<1> DEFINE Told == trigger' \/ Announcing'
           Unread == /\ planned' = planned /\ planner' = planner
                     /\ ev_sessions' \cap EvRequests = ev_sessions \cap EvRequests
                     /\ heater_targets' = heater_targets
<1>1. ASSUME Told PROVE PlanKnowsSessions'
  BY <1>1 DEF PlanKnowsSessions
<1>p. /\ Announcing <=> tick = "settled" \/ \E r \in Planable : AnnouncesFor(r)
      /\ Announcing' <=> tick' = "settled" \/ \E r \in Planable : AnnouncesFor(r)'
  BY PlanKnows DEF Announcing, Planable, AnnouncesFor
<1>k. Planable \subseteq Requests /\ \A l \in LoadRequests : l \notin Planable
  BY KindsAssumption DEF Planable, Requests
<1> USE DEF IInv, TypeOK, vars, hemsVars, simVars, httpVars, tickVars, planVars
<1>2. ASSUME NEW r \in Requests, NEW ids \in SUBSET ev_sessions, InstallEvSession(r, ids)
      PROVE  PlanKnowsSessions'
  <2>1. r \in Planable /\ AnnouncesFor(r)'
    BY <1>2 DEF InstallEvSession, Planable, AnnouncesFor
  <2> QED
    BY <1>1, <1>p, <2>1
<1>3. ASSUME NEW r \in Requests, InstallHeaterTarget(r)
      PROVE  PlanKnowsSessions'
  <2>1. r \in Planable /\ AnnouncesFor(r)'
    BY <1>3 DEF InstallHeaterTarget, Planable, AnnouncesFor
  <2> QED
    BY <1>1, <1>p, <2>1
<1>4. ASSUME NEW r \in Requests,
             \/ AcceptLoad(r) \/ AddToRoster(r) \/ AnnounceDisplaced(r) \/ UpsertRequest(r)
             \/ CheckCancel(r) \/ CancelInRoster(r)
      PROVE  PlanKnowsSessions'
  <2>1. Unread /\ tick' = tick /\ (trigger => trigger')
    BY <1>4 DEF AcceptLoad, AddToRoster, AnnounceDisplaced, UpsertRequest, CheckCancel,
                CancelInRoster
  <2>2. \A q \in Planable : AnnouncesFor(q) => AnnouncesFor(q)'
    BY <1>4, <1>k DEF AcceptLoad, AddToRoster, AnnounceDisplaced, UpsertRequest, CheckCancel,
                CancelInRoster, AnnouncesFor
  <2> QED
    BY <1>p, <2>1, <2>2, NothingNew
<1>5. ASSUME NEW r \in Requests, AnnounceRequest(r)
      PROVE  PlanKnowsSessions'
  BY <1>1, <1>5 DEF AnnounceRequest
<1>6. ASSUME NEW r \in Requests, CancelRequest(r)
      PROVE  PlanKnowsSessions'
  <2>1. CASE Listed(r) /\ r \in Planable
    <3>1. AnnouncesFor(r)'
      BY <1>6, <2>1 DEF CancelRequest, AnnouncesFor
    <3> QED
      BY <1>1, <1>p, <2>1, <3>1
  <2>2. CASE ~(Listed(r) /\ r \in Planable)
    <3>1. ev_sessions' \cap EvRequests = ev_sessions \cap EvRequests
          /\ heater_targets' = heater_targets
      <4>1. CASE r \notin Planable
        <5>1. r \notin EvRequests /\ r \notin heater_targets
          BY <4>1 DEF Planable
        <5> QED
          BY <1>6, <5>1 DEF CancelRequest
      <4>2. CASE ~Listed(r)
        BY <1>6, <4>2 DEF CancelRequest
      <4> QED
        BY <2>2, <4>1, <4>2
    <3>2. Unread /\ tick' = tick /\ trigger' = trigger
      BY <1>6, <3>1 DEF CancelRequest
    <3>3. \A q \in Planable : AnnouncesFor(q) => AnnouncesFor(q)'
      BY <1>6, <1>k DEF CancelRequest, AnnouncesFor
    <3> QED
      BY <1>p, <3>2, <3>3, NothingNew
  <2> QED
    BY <2>1, <2>2
<1>7. ASSUME NEW r \in Requests, AnnounceCancel(r)
      PROVE  PlanKnowsSessions'
  <2>1. Listed(r)
    BY <1>7 DEF AnnounceCancel, UnannouncedIsListed, Listed
  <2> QED
    BY <1>1, <1>7, <2>1 DEF AnnounceCancel
<1>8. ASSUME NEW t \in Trips, PlanAhead(t)
      PROVE  PlanKnowsSessions'
  <2>1. t \notin EvRequests
    BY KindsAssumption DEF Requests
  <2>2. Unread /\ tick' = tick /\ trigger' = trigger
    BY <1>8, <2>1 DEF PlanAhead
  <2>3. \A q \in Planable : AnnouncesFor(q) => AnnouncesFor(q)'
    BY <1>8 DEF PlanAhead, AnnouncesFor
  <2> QED
    BY <1>p, <2>2, <2>3, NothingNew
<1>9. CASE \/ BeginTick \/ FindFinishedLoads \/ Advance \/ UNCHANGED vars
           \/ \E l \in LoadRequests : CompleteShiftable(l)
           \/ \E start \in SUBSET LoadRequests : \E finish \in SUBSET LoadRequests :
                Physics(start, finish)
  <2>1. Unread /\ trigger' = trigger /\ (tick = "settled" => tick' = "settled")
    BY <1>9 DEF BeginTick, FindFinishedLoads, Advance, CompleteShiftable, Physics
  <2>2. \A q \in Planable : AnnouncesFor(q) => AnnouncesFor(q)'
    BY <1>9 DEF BeginTick, FindFinishedLoads, Advance, CompleteShiftable, Physics, AnnouncesFor
  <2> QED
    BY <1>p, <2>1, <2>2, NothingNew
<1>10. CASE AnnounceCompletion \/ AnnounceSettled
  BY <1>1, <1>10 DEF AnnounceCompletion, AnnounceSettled
<1>11. CASE SettleRequests
  <2> DEFINE ended == Passed(tick_now)
             completed == { r \in ended \cap Requests : user_requests[r] = "Active" }
  <2>1. /\ ev_sessions' = ev_sessions \ ended /\ heater_targets' = heater_targets \ ended
        /\ tick' = IF completed = {} THEN "idle" ELSE "settled"
        /\ UNCHANGED <<httpVars, planVars>> /\ tick = "closing"
    BY <1>11 DEF SettleRequests
  <2>2. \A q \in Planable : AnnouncesFor(q) <=> AnnouncesFor(q)'
    BY <2>1 DEF AnnouncesFor
  <2>3. CASE completed # {}
    BY <1>1, <1>p, <2>1, <2>3
  <2>4. CASE \E q \in ended : q \in Planable /\ q \notin completed
    <3>1. PICK q \in ended : q \in Planable /\ q \notin completed
      BY <2>4
    <3>2. q \in Requests /\ q \in Sessions /\ user_requests[q] # "Active" /\ q \notin LoadRequests
      BY <1>k, <3>1 DEF Passed, Sessions
    <3>3. submission[q] \in {"installed", "recording"}
      BY <3>2 DEF SessionHasOwner, AcceptedIsLoad
    <3>4. AnnouncesFor(q)'
      BY <2>2, <3>1, <3>3 DEF AnnouncesFor
    <3> QED
      BY <1>1, <1>p, <3>1, <3>4
  <2>5. CASE completed = {} /\ ~ \E q \in ended : q \in Planable /\ q \notin completed
    <3>1. \A q \in ended : q \notin Planable
      BY <2>5
    <3> HIDE DEF ended, completed
    <3>2. Unread
      BY <2>1, <3>1 DEF Planable
    <3> QED
      BY <1>p, <2>1, <2>2, <3>2, NothingNew
  <2> QED
    BY <2>3, <2>4, <2>5
<1>12. CASE Plan
  <2>1. UNCHANGED <<ev_sessions, heater_targets, tick, submission, cancellation>>
    BY <1>12 DEF Plan, WakeOnTrigger, WakeOnInterval, ReadEvSessions, ReadHeaterTargets
  <2>2. Announcing' <=> Announcing
    BY <2>1 DEF Announcing
  <2>3. CASE WakeOnTrigger \/ WakeOnInterval
    BY <2>3 DEF WakeOnTrigger, WakeOnInterval, PlanKnowsSessions
  <2>4. CASE ReadEvSessions
    <3>1. /\ planned' \cap EvRequests = ev_sessions \cap EvRequests
          /\ planned' \cap HeaterRequests = planned \cap HeaterRequests
      BY <2>4, KindsAssumption DEF ReadEvSessions
    <3> QED
      BY <2>1, <2>4, <3>1 DEF ReadEvSessions, PlanKnowsSessions
  <2>5. CASE ReadHeaterTargets
    <3>1. /\ planned' \cap EvRequests = planned \cap EvRequests
          /\ planned' \cap HeaterRequests = heater_targets
      BY <2>5, KindsAssumption DEF ReadHeaterTargets
    <3> QED
      BY <2>1, <2>2, <2>5, <3>1 DEF ReadHeaterTargets, PlanKnowsSessions
  <2> QED
    BY <1>12, <2>3, <2>4, <2>5 DEF Plan
<1> QED
  BY NextCases, <1>2, <1>3, <1>4, <1>5, <1>6, <1>7, <1>8, <1>9, <1>10, <1>11, <1>12

\* The planner never rests on sessions that changed since it read them, for any
\* set of requests and trips: every change of a session is announced after it is
\* made, and an announcement made while a cycle is under way starts the next.
THEOREM PlannerIsTold == Spec => []PlanKnowsSessions
<1> DEFINE PInv == IInv /\ AcceptedIsLoad /\ UnannouncedIsListed /\ PlanKnowsSessions
<1>1. Init => PInv
  <2> SUFFICES ASSUME Init PROVE PInv
    OBVIOUS
  <2>1. IInv
    BY InitInvariant
  <2>2. AcceptedIsLoad /\ UnannouncedIsListed /\ PlanKnowsSessions
    BY DEF Init, AcceptedIsLoad, UnannouncedIsListed, PlanKnowsSessions
  <2> QED
    BY <2>1, <2>2
<1>2. PInv /\ [Next]_vars => PInv'
  <2> SUFFICES ASSUME PInv, [Next]_vars PROVE PInv'
    OBVIOUS
  <2>1. TypeOK
    BY DEF IInv
  <2>2. IInv' /\ AcceptedIsLoad' /\ UnannouncedIsListed'
    BY <2>1, NextInvariant, AcceptedStep, UnannouncedStep
  <2>3. PlanKnowsSessions'
    BY PlanStep
  <2> QED
    BY <2>2, <2>3
<1> QED
  BY <1>1, <1>2, PTL DEF Spec

-----------------------------------------------------------------------------

\* The booking a session is, and the bookings of one EV.
Booking(s) == [id |-> s, window_start |-> WindowStart[s], departure_time |-> Deadline[s]]

LEMMA BookingsAre ==
    ASSUME NEW e
    PROVE  /\ \A b : b \in Bookings(e) <=>
                  \E s \in ev_sessions : AssetOf[s] = e /\ b = Booking(s)
           /\ \A b : b \in Bookings(e)' <=>
                  \E s \in ev_sessions' : AssetOf[s] = e /\ b = Booking(s)
BY DEF Bookings, Booking

LEMMA BookingFields ==
    /\ \A s, q : Booking(s) = Booking(q) => s = q
    /\ \A s : /\ Booking(s).id = s
              /\ Booking(s).window_start = WindowStart[s]
              /\ Booking(s).departure_time = Deadline[s]
    /\ \A e : \A s \in EvSessions : Booking(s) \in Calendar(e)!EvSession
<1>1. ASSUME NEW e, NEW s \in EvSessions
      PROVE  Booking(s) \in Calendar(e)!EvSession
  BY <1>1, TimeAssumption DEF Booking, Calendar!EvSession
<1> QED
  BY <1>1 DEF Booking

\* A session that takes the place of exactly the ones it conflicts with is
\* booked in the calendar of its EV and noticed in no other.
LEMMA InstallIsBooking ==
    ASSUME TypeOK, NEW r \in EvSessions, r \notin ev_sessions,
           ev_sessions' = (ev_sessions \ Conflicts(r)) \cup {r}, NEW e
    PROVE  Calendar(e)!Next \/ Bookings(e)' = Bookings(e)
<1>1. CASE AssetOf[r] # e
  <2>1. \A s \in Conflicts(r) : AssetOf[s] # e
    BY <1>1 DEF Conflicts, Overlaps
  <2> QED
    BY <1>1, <2>1 DEF Bookings
<1>2. CASE AssetOf[r] = e
  <2> DEFINE displaced_bookings == { Booking(s) : s \in Conflicts(r) }
  <2>1. \A s \in ev_sessions : AssetOf[s] = e =>
            (s \in Conflicts(r) <=> Calendar(e)!Overlaps(Booking(s), Booking(r)))
    BY <1>2, BookingFields DEF Conflicts, Overlaps, Calendar!Overlaps
  <2>2. \A s \in Conflicts(r) : s \in ev_sessions /\ AssetOf[s] = e
    BY <1>2 DEF Conflicts, Overlaps
  <2>3. displaced_bookings = Calendar(e)!Clashing(Booking(r))
    BY <2>1, <2>2, BookingsAre, BookingFields DEF Calendar!Clashing
  <2>4. \A b \in Bookings(e) : b.id # Booking(r).id
    BY BookingsAre, BookingFields
  <2>5. Bookings(e)' = (Bookings(e) \ displaced_bookings) \cup {Booking(r)}
    <3>1. \A b : b \in Bookings(e)' <=>
              b \in (Bookings(e) \ displaced_bookings) \cup {Booking(r)}
      BY <1>2, <2>2, BookingsAre, BookingFields
    <3> QED
      BY <3>1
  <2>6. displaced_bookings \in SUBSET Bookings(e)
    BY <2>2, BookingsAre
  <2>7. Booking(r) \in Calendar(e)!EvSession
    BY BookingFields
  <2>8. Calendar(e)!Book(Booking(r), displaced_bookings)
    BY <2>3, <2>4, <2>5 DEF Calendar!Book
  <2> HIDE DEF displaced_bookings
  <2> QED
    BY <2>6, <2>7, <2>8 DEF Calendar!Next
<1> QED
  BY <1>1, <1>2

LEMMA CalendarStep ==
    ASSUME IInv, [Next]_vars, NEW e
    PROVE  Calendar(e)!Next \/ Bookings(e)' = Bookings(e)
<1> DEFINE Stays == Calendar(e)!Next \/ Bookings(e)' = Bookings(e)
<1> USE DEF IInv, vars, hemsVars, simVars, httpVars, tickVars, planVars
<1>1. ASSUME NEW r \in Requests, NEW ids \in SUBSET ev_sessions, InstallEvSession(r, ids)
      PROVE  Stays
  <2>1. r \in EvSessions /\ ev_sessions' = (ev_sessions \ Conflicts(r)) \cup {r}
    BY <1>1 DEF InstallEvSession, EvSessions
  <2>2. r \notin ev_sessions
    BY <1>1 DEF InstallEvSession, SessionHasOwner, Sessions, ListedIsRecorded, Listed
  <2> QED
    BY <2>1, <2>2, InstallIsBooking
<1>2. ASSUME NEW t \in Trips, PlanAhead(t)
      PROVE  Stays
  <2>1. t \in EvSessions /\ ev_sessions' = (ev_sessions \ Conflicts(t)) \cup {t}
    BY <1>2 DEF PlanAhead, EvSessions
  <2>2. t \notin ev_sessions
    BY <1>2 DEF PlanAhead
  <2> QED
    BY <2>1, <2>2, InstallIsBooking
<1>3. ASSUME NEW r \in Requests, CancelRequest(r)
      PROVE  Stays
  <2>1. CASE r \in ev_sessions /\ AssetOf[r] = e /\ ev_sessions' = ev_sessions \ {r}
    <3>1. Booking(r) \in Bookings(e)
      BY <2>1, BookingsAre
    <3>2. \A b : b \in Bookings(e)' <=> b \in Bookings(e) \ {Booking(r)}
      BY <2>1, BookingsAre, BookingFields
    <3>3. Calendar(e)!Release(Booking(r))
      BY <3>1, <3>2 DEF Calendar!Release
    <3> QED
      BY <3>1, <3>3 DEF Calendar!Next
  <2>2. CASE /\ r \notin ev_sessions \/ AssetOf[r] # e
             /\ ev_sessions' = ev_sessions \ {r}
    BY <2>2 DEF Bookings
  <2>3. CASE ev_sessions' = ev_sessions
    BY <2>3 DEF Bookings
  <2> QED
    BY <1>3, <2>1, <2>2, <2>3 DEF CancelRequest
<1>4. CASE SettleRequests
  <2>1. tick_now \in 0 .. MaxTime
    BY DEF TypeOK
  <2>2. \A s \in ev_sessions : Deadline[s] \in Int
    BY TimeAssumption DEF TypeOK
  <2>3. \A s : s \in ev_sessions' <=> s \in ev_sessions /\ Deadline[s] > tick_now
    BY <1>4, <2>1, <2>2, TimeAssumption DEF SettleRequests, Passed
  <2>4. \A b : b \in Bookings(e)' <=>
            b \in { c \in Bookings(e) : c.departure_time > tick_now }
    BY <2>3, BookingsAre, BookingFields
  <2>5. Calendar(e)!Depart(tick_now)
    BY <2>4 DEF Calendar!Depart
  <2> QED
    BY <2>1, <2>5 DEF Calendar!Next
<1>5. ASSUME NEW r \in Requests,
             \/ InstallHeaterTarget(r) \/ AcceptLoad(r) \/ AddToRoster(r) \/ AnnounceDisplaced(r)
             \/ UpsertRequest(r) \/ AnnounceRequest(r) \/ CheckCancel(r) \/ CancelInRoster(r)
             \/ AnnounceCancel(r)
      PROVE  Stays
  BY <1>5 DEF InstallHeaterTarget, AcceptLoad, AddToRoster, AnnounceDisplaced, UpsertRequest,
              AnnounceRequest, CheckCancel, CancelInRoster, AnnounceCancel, Bookings
<1>6. CASE \/ BeginTick \/ AnnounceCompletion \/ AnnounceSettled \/ FindFinishedLoads
           \/ Plan \/ Advance \/ UNCHANGED vars
           \/ \E l \in LoadRequests : CompleteShiftable(l)
           \/ \E start \in SUBSET LoadRequests : \E finish \in SUBSET LoadRequests :
                Physics(start, finish)
  <2>1. ev_sessions' = ev_sessions
    BY <1>6 DEF BeginTick, AnnounceCompletion, AnnounceSettled, FindFinishedLoads, Plan,
                WakeOnTrigger, WakeOnInterval, ReadEvSessions, ReadHeaterTargets, Advance,
                CompleteShiftable, Physics
  <2> QED
    BY <2>1 DEF Bookings
<1> QED
  BY NextCases, <1>1, <1>2, <1>3, <1>4, <1>5, <1>6

\* The sessions of every EV implement a calendar, whichever of the handlers
\* writes them; with CalendarHasNoOverlap, no EV is ever promised twice.
THEOREM SessionsAreCalendars == Spec => EvCalendars
<1>1. Init => \A e \in Assets : Calendar(e)!Init
  BY DEF Init, Calendar!Init, Bookings
<1>2. IInv /\ [Next]_vars => \A e \in Assets : [Calendar(e)!Next]_(Bookings(e))
  BY CalendarStep
<1>3. IInv /\ [Next]_vars => [\A e \in Assets : [Calendar(e)!Next]_(Bookings(e))]_vars
  BY <1>2
<1> QED
  BY <1>1, <1>3, InitInvariant, NextInvariant, PTL DEF Spec, EvCalendars

=============================================================================
