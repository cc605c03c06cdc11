---------------------------- MODULE UserRequests ----------------------------
(***************************************************************************)
(* The life of a user request in a VEN: submitted over HTTP, given a       *)
(* device session (an EV charging session, a heater target or a shiftable  *)
(* load), listed, and ended by its user, by a newer request, by its asset  *)
(* or by the clock.                                                        *)
(*                                                                         *)
(* Four kinds of process touch the same state: one submission and one      *)
(* cancellation per request (HTTP handlers), the simulator tick, and the   *)
(* planner.  An action is one critical section: what a handler does under  *)
(* one guard of the hems lock or of the simulator lock.  Everything can    *)
(* interleave between two of them.                                         *)
(*                                                                         *)
(* A request and the session it owns carry the same id here.  What a       *)
(* request asks for (asset, window) is given by constant functions of its  *)
(* id, so "for all values of the constants" covers every submission.       *)
(***************************************************************************)
EXTENDS Integers, FiniteSets

CONSTANTS
    EvRequests, HeaterRequests, LoadRequests,   \* request ids, by what they become
    Trips,          \* sessions the simulated usage schedule plans ahead
    AssetOf,        \* the asset id a request or trip names
    WindowStart,    \* when the charging window of an EV session opens
    Deadline,       \* departure_time of an EV session, ready_by of a target
    BootAssets,     \* the ids of the assets the simulator is booted with
    FinishedKept,   \* FINISHED_REQUESTS_KEPT
    Retention,      \* FINISHED_REQUEST_RETENTION_DAYS
    MaxTime         \* bound: the clock stops here

Requests == EvRequests \cup HeaterRequests \cup LoadRequests
EvSessions == EvRequests \cup Trips
Assets == BootAssets \cup { AssetOf[r] : r \in Requests \cup Trips }

ASSUME KindsAssumption ==
    /\ EvRequests \cap HeaterRequests = {}
    /\ EvRequests \cap LoadRequests = {}
    /\ HeaterRequests \cap LoadRequests = {}
    /\ Trips \cap Requests = {}

ASSUME TimeAssumption ==
    /\ MaxTime \in Nat /\ Retention \in Nat /\ FinishedKept \in Nat
    /\ WindowStart \in [EvSessions -> Int]
    /\ Deadline \in [EvSessions \cup HeaterRequests -> Int]
    /\ \A s \in EvSessions : WindowStart[s] < Deadline[s]

VARIABLES
    now,
    (* the hems state, behind one lock *)
    user_requests,     \* the listed status of each request
    finished_at,       \* updated_at of a finished request
    ev_sessions,       \* the queued charging sessions of all EVs
    heater_targets,    \* the targets in force
    shiftable_loads,   \* the accepted loads
    (* the simulator's roster, behind the simulator lock *)
    boot,              \* the boot assets still in it
    running,           \* loads in it, each "pending" or "started"; "absent" otherwise
    (* the HTTP handlers *)
    submission,        \* how far the submission of each request got
    displaced,         \* the sessions it displaced and has yet to announce
    cancellation,      \* how far a cancellation of each request got
    (* the simulator tick *)
    tick,              \* its next step
    tick_now,          \* the instant it started at
    snapshot,          \* the asset ids in the SimSnapshot it took
    closing,           \* loads it found missing from the snapshot
    (* the planning loop *)
    trigger,           \* an unseen value is in the trigger channel
    planner,           \* "waiting", or what the new cycle reads next
    planned            \* the EV and heater sessions of users it last read

hemsVars == <<user_requests, finished_at, ev_sessions, heater_targets, shiftable_loads>>
simVars == <<boot, running>>
httpVars == <<submission, displaced, cancellation>>
tickVars == <<tick, tick_now, snapshot, closing>>
planVars == <<trigger, planner, planned>>
vars == <<now, hemsVars, simVars, httpVars, tickVars, planVars>>

-----------------------------------------------------------------------------
(* Operators                                                               *)

Listed(r) == user_requests[r] # "unlisted"
Finished(r) == user_requests[r] \in {"Completed", "Cancelled"}

Sessions == ev_sessions \cup heater_targets \cup shiftable_loads

\* Half-open windows of two sessions of one EV.
Overlaps(a, b) ==
    /\ AssetOf[a] = AssetOf[b]
    /\ WindowStart[a] < Deadline[b]
    /\ WindowStart[b] < Deadline[a]

Conflicts(s) == { q \in ev_sessions \ {s} : Overlaps(q, s) }

\* The asset ids in the simulator, and the loads behind one of them.
InRoster == { l \in LoadRequests : running[l] # "absent" }
Roster == boot \cup { AssetOf[l] : l \in InRoster }

\* UserRequest::finish for every request of `ended`.
Finish(ended, status, at) ==
    /\ user_requests' = [r \in Requests |-> IF r \in ended THEN status ELSE user_requests[r]]
    /\ finished_at' = [r \in Requests |-> IF r \in ended THEN at ELSE finished_at[r]]

-----------------------------------------------------------------------------

TypeOK ==
    /\ now \in 0 .. MaxTime
    /\ user_requests \in [Requests -> {"unlisted", "Active", "Completed", "Cancelled"}]
    /\ finished_at \in [Requests -> 0 .. MaxTime]
    /\ ev_sessions \subseteq EvSessions
    /\ heater_targets \subseteq HeaterRequests
    /\ shiftable_loads \subseteq LoadRequests
    /\ boot \subseteq BootAssets
    /\ running \in [LoadRequests -> {"absent", "pending", "started"}]
    /\ submission \in [Requests ->
        {"new", "accepted", "installed", "recording", "recorded", "done"}]
    /\ displaced \in [Requests -> SUBSET (EvSessions \cup HeaterRequests)]
    /\ cancellation \in [Requests -> {"none", "roster", "clear", "announce"}]
    /\ tick \in {"idle", "plan_ahead", "publish", "closing", "announce", "settled"}
    /\ tick_now \in 0 .. MaxTime
    /\ snapshot \subseteq Assets
    /\ closing \subseteq LoadRequests
    /\ trigger \in BOOLEAN
    /\ planner \in {"waiting", "ev_sessions", "heater_targets"}
    /\ planned \subseteq EvRequests \cup HeaterRequests

Init ==
    /\ now = 0
    /\ user_requests = [r \in Requests |-> "unlisted"]
    /\ finished_at = [r \in Requests |-> 0]
    /\ ev_sessions = {} /\ heater_targets = {} /\ shiftable_loads = {}
    /\ boot = BootAssets
    /\ running = [l \in LoadRequests |-> "absent"]
    /\ submission = [r \in Requests |-> "new"]
    /\ displaced = [r \in Requests |-> {}]
    /\ cancellation = [r \in Requests |-> "none"]
    /\ tick = "idle" /\ tick_now = 0 /\ snapshot = BootAssets /\ closing = {}
    /\ trigger = FALSE /\ planner = "waiting" /\ planned = {}

-----------------------------------------------------------------------------
(* Submission: POST /user-requests                                         *)

\* Mutant: the requests of displaced sessions stay open.
InstallOverSessions(r, ids) ==
    /\ r \in EvRequests
    /\ submission[r] = "new"
    /\ ids = Conflicts(r)
    /\ ev_sessions' = (ev_sessions \ ids) \cup {r}
    /\ submission' = [submission EXCEPT ![r] = "installed"]
    /\ displaced' = [displaced EXCEPT ![r] = ids]
    /\ UNCHANGED <<now, user_requests, finished_at, heater_targets, shiftable_loads, simVars,
                   cancellation, tickVars, planVars>>

\* submit_charge_session up to its first await past the hems lock: the
\* session enters the queue, displacing exactly the sessions the caller named,
\* which must be exactly the ones it clashes with (insert_ev_session is the
\* case of none); the requests of the displaced sessions end with them.  A
\* refused submission changes nothing.
InstallEvSession(r, ids) ==
    /\ r \in EvRequests
    /\ submission[r] = "new"
    /\ ids = Conflicts(r)
    /\ ev_sessions' = (ev_sessions \ ids) \cup {r}
    /\ Finish({ q \in ids \cap Requests : Listed(q) }, "Cancelled", now)
    /\ submission' = [submission EXCEPT ![r] = "installed"]
    /\ displaced' = [displaced EXCEPT ![r] = ids]
    /\ UNCHANGED <<now, heater_targets, shiftable_loads, simVars, cancellation,
                   tickVars, planVars>>

\* replace_heater_target: the heater's previous target goes, and the open
\* request that owned it ends with it.
InstallHeaterTarget(r) ==
    /\ r \in HeaterRequests
    /\ submission[r] = "new"
    /\ LET previous == { h \in heater_targets : AssetOf[h] = AssetOf[r] }
           open == { h \in previous : user_requests[h] = "Active" }
       IN  /\ heater_targets' = (heater_targets \ previous) \cup {r}
           /\ Finish(open, "Cancelled", now)
           /\ displaced' = [displaced EXCEPT ![r] = open]
    /\ submission' = [submission EXCEPT ![r] = "installed"]
    /\ UNCHANGED <<now, ev_sessions, shiftable_loads, simVars, cancellation,
                   tickVars, planVars>>

\* add_shiftable_load refuses an asset id another accepted load has.
AcceptLoad(r) ==
    /\ r \in LoadRequests
    /\ submission[r] = "new"
    /\ \A l \in shiftable_loads : AssetOf[l] # AssetOf[r]
    /\ shiftable_loads' = shiftable_loads \cup {r}
    /\ submission' = [submission EXCEPT ![r] = "accepted"]
    /\ UNCHANGED <<now, user_requests, finished_at, ev_sessions, heater_targets, simVars,
                   displaced, cancellation, tickVars, planVars>>

\* SimRosterPort::add_shiftable: the load enters the roster, not yet started.
\* A taken asset id is refused with a warning and the submission goes on.
AddToRoster(r) ==
    /\ submission[r] = "accepted"
    /\ running' = IF AssetOf[r] \in Roster THEN running
                                           ELSE [running EXCEPT ![r] = "pending"]
    /\ submission' = [submission EXCEPT ![r] = "recording"]
    /\ UNCHANGED <<now, hemsVars, boot, displaced, cancellation, tickVars, planVars>>

\* The displaced requests that are listed are announced: a replan is asked for.
AnnounceDisplaced(r) ==
    /\ submission[r] = "installed"
    /\ trigger' = (trigger \/ \E q \in displaced[r] \cap Requests : Listed(q))
    /\ displaced' = [displaced EXCEPT ![r] = {}]
    /\ submission' = [submission EXCEPT ![r] = "recording"]
    /\ UNCHANGED <<now, hemsVars, simVars, cancellation, tickVars, planner, planned>>

\* upsert_request: the request is listed, Active whatever happened to its
\* session since it was installed.
UpsertRequest(r) ==
    /\ submission[r] = "recording"
    /\ user_requests' = [user_requests EXCEPT ![r] = "Active"]
    /\ submission' = [submission EXCEPT ![r] = "recorded"]
    /\ UNCHANGED <<now, finished_at, ev_sessions, heater_targets, shiftable_loads, simVars,
                   displaced, cancellation, tickVars, planVars>>

\* announce_request_transition: the planner is asked for a replan.
AnnounceRequest(r) ==
    /\ submission[r] = "recorded"
    /\ trigger' = TRUE
    /\ submission' = [submission EXCEPT ![r] = "done"]
    /\ UNCHANGED <<now, hemsVars, simVars, displaced, cancellation, tickVars, planner, planned>>

-----------------------------------------------------------------------------
(* Cancellation: DELETE /user-requests/:id                                 *)

\* Mutant: a load is cancelled without asking the simulator first.
SkipRosterCheck(r) ==
    /\ cancellation[r] = "none"
    /\ user_requests[r] = "Active"
    /\ cancellation' = [cancellation EXCEPT ![r] = "clear"]
    /\ UNCHANGED <<now, hemsVars, simVars, submission, displaced, tickVars, planVars>>

\* UserRequestService::cancel looks at a copy of the list and refuses a
\* request that is already in a terminal state.
CheckCancel(r) ==
    /\ cancellation[r] = "none"
    /\ user_requests[r] = "Active"
    /\ cancellation' = [cancellation EXCEPT ![r] =
        IF r \in LoadRequests THEN "roster" ELSE "clear"]
    /\ UNCHANGED <<now, hemsVars, simVars, submission, displaced, tickVars, planVars>>

\* cancel_if_cancellable, under the simulator lock: refused while the asset
\* of that id is a started load, otherwise whatever has the id is removed.
CancelInRoster(r) ==
    /\ cancellation[r] = "roster"
    /\ LET found == { l \in InRoster : AssetOf[l] = AssetOf[r] }
       IN  IF \E l \in found : running[l] = "started"
           THEN /\ cancellation' = [cancellation EXCEPT ![r] = "none"]
                /\ UNCHANGED simVars
           ELSE /\ cancellation' = [cancellation EXCEPT ![r] = "clear"]
                /\ running' = [l \in LoadRequests |-> IF l \in found THEN "absent" ELSE running[l]]
                /\ boot' = boot \ {AssetOf[r]}
    /\ UNCHANGED <<now, hemsVars, submission, displaced, tickVars, planVars>>

\* Mutant: cancelling a heater request leaves its target in force.
CancelLeavesTarget(r) ==
    /\ cancellation[r] = "clear"
    /\ IF Listed(r)
       THEN /\ Finish({r}, "Cancelled", now)
            /\ ev_sessions' = ev_sessions \ {r}
            /\ shiftable_loads' = shiftable_loads \ {r}
            /\ cancellation' = [cancellation EXCEPT ![r] = "announce"]
            /\ UNCHANGED heater_targets
       ELSE /\ cancellation' = [cancellation EXCEPT ![r] = "none"]
            /\ UNCHANGED hemsVars
    /\ UNCHANGED <<now, simVars, submission, displaced, tickVars, planVars>>

\* AppState::cancel_request: marks the request Cancelled, whatever its status
\* is by now, and clears the session it owns, by id.  A request pruned from
\* the list meanwhile is not found.
CancelRequest(r) ==
    /\ cancellation[r] = "clear"
    /\ IF Listed(r)
       THEN /\ Finish({r}, "Cancelled", now)
            /\ ev_sessions' = ev_sessions \ {r}
            /\ heater_targets' = heater_targets \ {r}
            /\ shiftable_loads' = shiftable_loads \ {r}
            /\ cancellation' = [cancellation EXCEPT ![r] = "announce"]
       ELSE /\ cancellation' = [cancellation EXCEPT ![r] = "none"]
            /\ UNCHANGED hemsVars
    /\ UNCHANGED <<now, simVars, submission, displaced, tickVars, planVars>>

AnnounceCancel(r) ==
    /\ cancellation[r] = "announce"
    /\ trigger' = (trigger \/ Listed(r))
    /\ cancellation' = [cancellation EXCEPT ![r] = "none"]
    /\ UNCHANGED <<now, hemsVars, simVars, submission, displaced, tickVars, planner, planned>>

-----------------------------------------------------------------------------
(* The simulator tick                                                      *)

BeginTick ==
    /\ tick = "idle"
    /\ tick' = "plan_ahead"
    /\ tick_now' = now
    /\ UNCHANGED <<now, hemsVars, simVars, httpVars, snapshot, closing, planVars>>

\* Mutant: a predicted trip is queued without looking for a clash.
PlanOverSessions(t) ==
    /\ tick = "plan_ahead"
    /\ Deadline[t] > tick_now
    /\ t \notin ev_sessions
    /\ ev_sessions' = ev_sessions \cup {t}
    /\ UNCHANGED <<now, user_requests, finished_at, heater_targets, shiftable_loads, simVars,
                   httpVars, tickVars, planVars>>

\* install_planned_sessions, for one predicted trip: queued unless a session
\* with its departure is queued already or it clashes with a queued one.
PlanAhead(t) ==
    /\ tick = "plan_ahead"
    /\ Deadline[t] > tick_now
    /\ ~ \E s \in ev_sessions : AssetOf[s] = AssetOf[t] /\ Deadline[s] = Deadline[t]
    /\ Conflicts(t) = {}
    /\ ev_sessions' = ev_sessions \cup {t}
    /\ UNCHANGED <<now, user_requests, finished_at, heater_targets, shiftable_loads, simVars,
                   httpVars, tickVars, planVars>>

\* The part of tick_once under the simulator lock.  A pending load may get
\* its first non-zero setpoint, a started one may complete its run; finished
\* loads leave the roster before the snapshot is taken.
Physics(start, finish) ==
    /\ tick = "plan_ahead"
    /\ \A l \in start : running[l] = "pending"
    /\ \A l \in finish : running[l] = "started" \/ l \in start
    /\ running' = [l \in LoadRequests |->
        IF l \in finish THEN "absent" ELSE IF l \in start THEN "started" ELSE running[l]]
    /\ snapshot' = boot \cup { AssetOf[l] : l \in InRoster \ finish }
    /\ tick' = "publish"
    /\ UNCHANGED <<now, hemsVars, boot, httpVars, tick_now, closing, planVars>>

\* publish_sim_tick_result compares the accepted loads of this moment with
\* the snapshot taken earlier.
FindFinishedLoads ==
    /\ tick = "publish"
    /\ closing' = { l \in shiftable_loads : AssetOf[l] \notin snapshot }
    /\ tick' = "closing"
    /\ UNCHANGED <<now, hemsVars, simVars, httpVars, tick_now, snapshot, planVars>>

\* Mutant: the request is Completed and the accepted load forgotten in it.
CompleteLeavesLoad(l) ==
    /\ tick = "closing"
    /\ l \in closing
    /\ closing' = closing \ {l}
    /\ Finish({ q \in {l} : user_requests[q] = "Active" }, "Completed", tick_now)
    /\ tick' = "announce"
    /\ UNCHANGED <<now, ev_sessions, heater_targets, shiftable_loads, simVars, httpVars,
                   tick_now, snapshot, planVars>>

\* complete_shiftable: the load goes, its open request is Completed.
CompleteShiftable(l) ==
    /\ tick = "closing"
    /\ l \in closing
    /\ closing' = closing \ {l}
    /\ shiftable_loads' = shiftable_loads \ {l}
    /\ Finish({ q \in {l} : user_requests[q] = "Active" }, "Completed", tick_now)
    /\ tick' = "announce"
    /\ UNCHANGED <<now, ev_sessions, heater_targets, simVars, httpVars, tick_now, snapshot,
                   planVars>>

\* A replan is asked for whether or not the load had an open request.
AnnounceCompletion ==
    /\ tick = "announce"
    /\ trigger' = TRUE
    /\ tick' = "closing"
    /\ UNCHANGED <<now, hemsVars, simVars, httpVars, tick_now, snapshot, closing, planner, planned>>

\* prune_finished over the statuses and ends of settle_requests: all but the
\* newest FinishedKept go once their retention has passed.  Ties are broken
\* by UUID, that is, arbitrarily.
Pruned(status, ends, at) ==
    LET finished == { r \in Requests : status[r] \in {"Completed", "Cancelled"} }
        IsNewest(kept) ==
            /\ Cardinality(kept) = FinishedKept \/ kept = finished
            /\ Cardinality(kept) <= FinishedKept
            /\ \A k \in kept, f \in finished \ kept : ends[k] >= ends[f]
    IN  { { r \in finished \ kept : ends[r] < at - Retention } :
            kept \in { k \in SUBSET finished : IsNewest(k) } }

\* Mutant: only charging sessions are settled by the clock.
PassedSessions(at) == { s \in ev_sessions : Deadline[s] <= at }

\* Mutant: only heater targets are settled by the clock.
PassedTargets(at) == { s \in heater_targets : Deadline[s] <= at }

\* Sessions and targets whose departure or ready-by time has come.
Passed(at) == { s \in ev_sessions \cup heater_targets : Deadline[s] <= at }

\* settle_requests: sessions and targets whose time has passed go, the open
\* requests that owned them are Completed, and old finished ones are pruned.
SettleRequests ==
    /\ tick = "closing"
    /\ closing = {}
    /\ LET ended == Passed(tick_now)
           completed == { r \in ended \cap Requests : user_requests[r] = "Active" }
           status == [r \in Requests |->
               IF r \in completed THEN "Completed" ELSE user_requests[r]]
           ends == [r \in Requests |-> IF r \in completed THEN tick_now ELSE finished_at[r]]
       IN  /\ ev_sessions' = ev_sessions \ ended
           /\ heater_targets' = heater_targets \ ended
           /\ \E pruned \in Pruned(status, ends, tick_now) :
               user_requests' = [r \in Requests |->
                   IF r \in pruned THEN "unlisted" ELSE status[r]]
           /\ finished_at' = ends
           /\ tick' = IF completed = {} THEN "idle" ELSE "settled"
    /\ UNCHANGED <<now, shiftable_loads, simVars, httpVars, tick_now, snapshot, closing, planVars>>

AnnounceSettled ==
    /\ tick = "settled"
    /\ trigger' = TRUE
    /\ tick' = "idle"
    /\ UNCHANGED <<now, hemsVars, simVars, httpVars, tick_now, snapshot, closing, planner, planned>>

-----------------------------------------------------------------------------
(* The planning loop                                                       *)

\* It wakes on the trigger, or because its replan interval has passed.
WakeOnTrigger ==
    /\ planner = "waiting"
    /\ trigger
    /\ trigger' = FALSE
    /\ planner' = "ev_sessions"
    /\ UNCHANGED <<now, hemsVars, simVars, httpVars, tickVars, planned>>

WakeOnInterval ==
    /\ planner = "waiting"
    /\ planner' = "ev_sessions"
    /\ UNCHANGED <<now, hemsVars, simVars, httpVars, tickVars, trigger, planned>>

\* Mutant: the cycle also takes up the trips planned ahead.
ReadEverySession ==
    /\ planner = "ev_sessions"
    /\ planned' = (planned \ EvRequests) \cup ev_sessions
    /\ planner' = "heater_targets"
    /\ UNCHANGED <<now, hemsVars, simVars, httpVars, tickVars, trigger>>

\* read_cycle_state reads the sessions kind by kind, each under the lock anew.
ReadEvSessions ==
    /\ planner = "ev_sessions"
    /\ planned' = (planned \ EvRequests) \cup (ev_sessions \cap EvRequests)
    /\ planner' = "heater_targets"
    /\ UNCHANGED <<now, hemsVars, simVars, httpVars, tickVars, trigger>>

\* Mutant: the trigger is marked as seen when the cycle has read its inputs.
SeenAfterReading ==
    /\ planner = "heater_targets"
    /\ planned' = (planned \ HeaterRequests) \cup heater_targets
    /\ planner' = "waiting"
    /\ trigger' = FALSE
    /\ UNCHANGED <<now, hemsVars, simVars, httpVars, tickVars>>

ReadHeaterTargets ==
    /\ planner = "heater_targets"
    /\ planned' = (planned \ HeaterRequests) \cup heater_targets
    /\ planner' = "waiting"
    /\ UNCHANGED <<now, hemsVars, simVars, httpVars, tickVars, trigger>>

\* Time passes, but no handler takes as long over one step as a finished
\* request stays listed (milliseconds against days).
Advance ==
    /\ now < MaxTime
    /\ \A r \in Requests : cancellation[r] = "announce" => now - finished_at[r] < Retention
    /\ now' = now + 1
    /\ UNCHANGED <<hemsVars, simVars, httpVars, tickVars, planVars>>

-----------------------------------------------------------------------------

Submit(r) ==
    \/ \E ids \in SUBSET ev_sessions : InstallEvSession(r, ids)
    \/ InstallHeaterTarget(r)
    \/ AcceptLoad(r)
    \/ AddToRoster(r)
    \/ AnnounceDisplaced(r)
    \/ UpsertRequest(r)
    \/ AnnounceRequest(r)

Cancel(r) == CheckCancel(r) \/ CancelInRoster(r) \/ CancelRequest(r) \/ AnnounceCancel(r)

Tick ==
    \/ BeginTick
    \/ \E t \in Trips : PlanAhead(t)
    \/ \E start \in SUBSET LoadRequests : \E finish \in SUBSET LoadRequests :
        Physics(start, finish)
    \/ FindFinishedLoads
    \/ \E l \in LoadRequests : CompleteShiftable(l)
    \/ AnnounceCompletion
    \/ SettleRequests
    \/ AnnounceSettled

Plan == WakeOnTrigger \/ WakeOnInterval \/ ReadEvSessions \/ ReadHeaterTargets

Next ==
    \/ \E r \in Requests : Submit(r) \/ Cancel(r)
    \/ Tick
    \/ Plan
    \/ Advance

Spec == Init /\ [][Next]_vars

\* Handlers run to their end once started, the tick loop and the planning
\* loop are restarted by their supervisor if they die, and time passes.
\* Nobody has to submit or cancel anything.
Fairness ==
    /\ WF_vars(Tick)
    /\ WF_vars(Plan)
    /\ WF_vars(Advance)
    /\ \A r \in Requests :
        /\ WF_vars(AddToRoster(r) \/ AnnounceDisplaced(r) \/ UpsertRequest(r) \/ AnnounceRequest(r))
        /\ WF_vars(CancelInRoster(r) \/ CancelRequest(r) \/ AnnounceCancel(r))

FairSpec == Spec /\ Fairness

-----------------------------------------------------------------------------
(* What the handlers keep true between them                                *)

\* No session outlives its request: one in force belongs to a request that is
\* still open, or to a submission that has yet to list its request.
SessionHasOwner ==
    \A r \in Sessions \cap Requests :
        \/ user_requests[r] = "Active"
        \/ submission[r] \in {"accepted", "installed", "recording"}

\* A step that takes a listed request's session away ends the request in the
\* same step: displacing, expiring and completing are one critical section.
EndedSessionEndsRequest ==
    [][\A r \in Sessions \cap Requests :
        r \notin Sessions' /\ Listed(r) => user_requests'[r] # "Active"]_vars

\* Somebody is about to ask for a replan because of an EV or heater session.
Announcing ==
    \/ \E r \in EvRequests \cup HeaterRequests :
        \/ submission[r] \in {"installed", "recording", "recorded"}
        \/ cancellation[r] = "announce"
    \/ tick = "settled"

\* The planner never rests on sessions that have changed since it read them:
\* whoever changes one asks for a replan afterwards, and the trigger channel,
\* which keeps only its latest value, loses no request for a cycle.
PlanKnowsSessions ==
    /\ planned \cap EvRequests # ev_sessions \cap EvRequests =>
        trigger \/ planner = "ev_sessions" \/ Announcing
    /\ planned \cap HeaterRequests # heater_targets =>
        trigger \/ planner # "waiting" \/ Announcing

\* A cancelled load is not left running: "cancelling it now is refused rather
\* than silently desyncing the request from the asset still actually drawing
\* power" (services/user_request.rs:217-218).
CancelledNeverRuns ==
    \A l \in LoadRequests : user_requests[l] = "Cancelled" => running[l] # "started"

\* Every EV's sessions are a calendar (EvCalendar), whichever of the
\* submissions, the cancellations and the two halves of the tick writes them.
Bookings(e) ==
    { [id |-> s, window_start |-> WindowStart[s], departure_time |-> Deadline[s]] :
        s \in { q \in ev_sessions : AssetOf[q] = e } }

Calendar(e) ==
    INSTANCE EvCalendar WITH
        SessionIds <- EvSessions,
        Times <- 0 .. MaxTime \cup { WindowStart[s] : s \in EvSessions }
                             \cup { Deadline[s] : s \in EvSessions },
        bookings <- Bookings(e)

EvCalendars ==
    /\ \A e \in Assets : Calendar(e)!Init
    /\ [][\A e \in Assets : [Calendar(e)!Next]_(Bookings(e))]_vars

\* A session whose time has passed does not act as an obligation forever
\* (state/user_requests.rs:122-124).
PassedSessionsEnd ==
    \A s \in EvSessions \cup HeaterRequests :
        (s \in Sessions /\ Deadline[s] <= now) ~> (s \notin Sessions)

-----------------------------------------------------------------------------
(* What the source says of the handlers, and they do not keep              *)

\* "a request and the session it owns never disagree"
\* (state/user_requests.rs:6-7).
OpenRequestHasSession ==
    \A r \in Requests : user_requests[r] = "Active" => r \in Sessions

\* "Completed, cancelled or failed: nothing will change it again"
\* (entities/user_request.rs:87).
FinishedIsFinal ==
    [][\A r \in Requests : Finished(r) => user_requests'[r] \in {user_requests[r], "unlisted"}]_vars

\* "Close out a shiftable-load request once its asset has finished running"
\* (state/user_requests.rs:99).
CompletedLoadHasRun ==
    \A l \in LoadRequests : user_requests[l] = "Completed" => running[l] = "absent"

\* A roster refusal is "Unreachable while add_shiftable_load refuses a reused
\* asset_id" (services/request_submission.rs:58).
RosterTakesAcceptedLoads ==
    \A r \in LoadRequests : submission[r] = "accepted" => AssetOf[r] \notin Roster

\* The "boot-fixed roster [...] (Battery/EvCharger/Heater/PvInverter/BaseLoad
\* never grow or shrink)" (simulator/mod.rs:242-243).
BootAssetsStay == boot = BootAssets

=============================================================================
