------------------------------ MODULE PollPlan ------------------------------
(***************************************************************************)
(* How what the VTN announces becomes the plan a VEN dispatches: the event *)
(* poll, the grid signals it leaves in AppState, the trigger channel and   *)
(* the planning loop.                                                      *)
(*                                                                         *)
(* The two loops are supervised tasks that run concurrently; a panic loses *)
(* a loop's local variables and nothing else.  An action is what a loop    *)
(* does up to the next await on shared state.  The channel is a watch      *)
(* channel: it keeps one value, and a newer one replaces an unseen one.    *)
(*                                                                         *)
(* An event is of one kind and has a version (0: the VTN does not list     *)
(* it).  A reading of the event list is a function from events to          *)
(* versions; what is parsed out of a reading for one kind of signal (rates *)
(* for "price", the capacity schedule for "limit", the windows of the      *)
(* others) is the part of the reading with that kind's events.             *)
(***************************************************************************)
EXTENDS Integers

CONSTANTS
    Events,         \* event ids
    Kind,           \* the signal an event carries
    Versions,       \* modificationDateTime, by order of appearance
    OtherTriggers,  \* what the request handlers and the arbiter send
    Decay,          \* rejected periodic plans until plan_adoption_decay_s has passed
    SolverFails,    \* whether a solve can end without a solution
    MaxChanges,     \* bound: edits of the event list, boundaries passed, changes of
                    \* objective, triggers of other parts
    MaxPollPanics, MaxPlannerPanics   \* bounds: panics of the two loops

Signals == {"price", "limit", "alert", "simple", "dispatch"}
Objectives == {"planned", "opportunistic"}
Triggers == {"Periodic", "RateChange", "CapacityChange", "Alert", "UserRequest",
             "ResidualThreshold"}

ASSUME EventsAssumption ==
    /\ Kind \in [Events -> Signals]
    /\ 0 \notin Versions
    /\ OtherTriggers \subseteq {"UserRequest", "ResidualThreshold"}

ASSUME BoundsAssumption ==
    /\ Decay \in Nat \ {0}
    /\ SolverFails \in BOOLEAN
    /\ MaxChanges \in Nat
    /\ MaxPollPanics \in Nat /\ MaxPlannerPanics \in Nat

Readings == [Events -> Versions \cup {0}]
Nothing == [e \in Events |-> 0]

\* The capacity picture of a reading: the schedule, and what of it is in force.
Limits(reading) == { <<e, reading[e]>> : e \in { x \in Events : Kind[x] = "limit" /\ reading[x] # 0 } }
CapacityPicture(reading, at) ==
    [schedule |-> Limits(reading), in_force |-> IF Limits(reading) = {} THEN FALSE ELSE at]

NoPicture == [schedule |-> {}, in_force |-> FALSE]
Pictures == [schedule : SUBSET (Events \X Versions), in_force : BOOLEAN]

NoPlan == [objective |-> "none", solved |-> FALSE, reading |-> Nothing]
Plans == [objective : Objectives, solved : BOOLEAN, reading : Readings]

VARIABLES
    vtn,            \* the event list of the VTN
    turned,         \* the clock has passed a boundary of the announced limits
    (* the event poll *)
    poll,           \* its next step
    fetched,        \* the list it is working on
    prev_known,     \* the events of its previous poll
    prev_capacity,  \* the capacity picture of its previous poll
    prev_signals,   \* the alerts, SIMPLE levels and dispatches it last applied
    plan_trigger,   \* the replan this poll's changes ask for, or "none"
    signal_trigger_sent,
    (* AppState *)
    grid,           \* the grid signals: a reading, replaced kind by kind
    objective,      \* the active objective
    active_plan,
    (* the trigger channel *)
    channel,        \* its value
    sent,           \* a value was sent since boot
    changed,        \* the planner's receiver has not seen it
    (* the planning loop *)
    planner,        \* its next step
    wake_trigger,
    plan,           \* the plan it works on; `reading` is what it has read so far
    age,            \* rejected periodic plans since the last adoption
    (* bounds *)
    changes, poll_panics, planner_panics

vtnVars == <<vtn, turned>>
prevVars == <<prev_known, prev_capacity, prev_signals>>
pollVars == <<poll, fetched, prevVars, plan_trigger, signal_trigger_sent>>
channelVars == <<channel, sent, changed>>
loopVars == <<planner, wake_trigger, plan>>
panicVars == <<poll_panics, planner_panics>>
vars == <<vtnVars, pollVars, grid, objective, active_plan, channelVars, loopVars, age,
          changes, panicVars>>

TypeOK ==
    /\ vtn \in Readings /\ turned \in BOOLEAN
    /\ poll \in {"fetch", "tariffs", "limits", "alerts", "announce alerts", "simple",
                 "announce simple", "dispatch", "finish"}
    /\ {fetched, prev_known, prev_signals, grid} \subseteq Readings
    /\ prev_capacity \in Pictures
    /\ plan_trigger \in {"none", "RateChange", "CapacityChange"}
    /\ {signal_trigger_sent, sent, changed} \subseteq BOOLEAN
    /\ objective \in Objectives
    /\ active_plan \in Plans \cup {NoPlan}
    /\ channel \in Triggers /\ wake_trigger \in Triggers
    /\ planner \in {"hold", "state", "limits", "alerts", "simple", "solve", "adopt", "wait"}
    /\ plan \in Plans
    /\ age \in 0 .. Decay
    /\ changes \in 0 .. MaxChanges
    /\ poll_panics \in 0 .. MaxPollPanics /\ planner_panics \in 0 .. MaxPlannerPanics

FirstPlan == [objective |-> "planned", solved |-> FALSE, reading |-> Nothing]

\* What the VTN lists at boot is what its first edits, before the first fetch, make it.
Init ==
    /\ vtn = Nothing /\ turned = FALSE
    /\ poll = "fetch" /\ fetched = Nothing
    /\ prev_known = Nothing /\ prev_capacity = NoPicture /\ prev_signals = Nothing
    /\ plan_trigger = "none" /\ signal_trigger_sent = FALSE
    /\ grid = Nothing /\ objective = "planned" /\ active_plan = NoPlan
    /\ channel = "Periodic" /\ sent = FALSE /\ changed = FALSE
    /\ planner = "hold" /\ wake_trigger = "Periodic" /\ plan = FirstPlan
    /\ age = 0 /\ changes = 0 /\ poll_panics = 0 /\ planner_panics = 0

-----------------------------------------------------------------------------
(* The VTN and the clock                                                   *)

\* An event is created, edited in place, or removed, which cancels it.
EditEvent(e) ==
    /\ changes < MaxChanges
    /\ \E v \in (Versions \cup {0}) \ {vtn[e]} : vtn' = [vtn EXCEPT ![e] = v]
    /\ changes' = changes + 1
    /\ UNCHANGED <<turned, pollVars, grid, objective, active_plan, channelVars, loopVars, age,
                   panicVars>>

\* A boundary of the capacity schedule passes: what is in force changes.
TurnOver ==
    /\ changes < MaxChanges /\ Limits(vtn) # {}
    /\ turned' = ~turned
    /\ changes' = changes + 1
    /\ UNCHANGED <<vtn, pollVars, grid, objective, active_plan, channelVars, loopVars, age,
                   panicVars>>

-----------------------------------------------------------------------------
(* The trigger channel                                                     *)

Send(t) == channel' = t /\ sent' = TRUE /\ changed' = TRUE

-----------------------------------------------------------------------------
(* The event poll                                                          *)

Replaced(reading, kind) ==
    [e \in Events |-> IF Kind[e] = kind THEN fetched[e] ELSE reading[e]]

\* Mutant: what is no longer listed does not count as a change.
SignalArrived(kind) == \E e \in Events : Kind[e] = kind /\ fetched[e] > prev_signals[e]

\* Mutant: signals are told apart by event id, not by what they say.
SignalListed(kind) ==
    \E e \in Events : Kind[e] = kind /\ (fetched[e] = 0) # (prev_signals[e] = 0)

SignalChanged(kind) == \E e \in Events : Kind[e] = kind /\ fetched[e] # prev_signals[e]

\* EventChanges::plan_trigger of a poll that read `list` at `at`.
PlanTrigger(list, at) ==
    IF CapacityPicture(list, at) # prev_capacity THEN "CapacityChange"
    ELSE IF list # prev_known THEN "RateChange" ELSE "none"

\* A successful fetch is read against the previous poll's.
Fetch ==
    /\ poll = "fetch"
    /\ fetched' = vtn
    /\ plan_trigger' = PlanTrigger(vtn, turned)
    /\ prev_known' = vtn
    /\ prev_capacity' = CapacityPicture(vtn, turned)
    /\ poll' = "tariffs"
    /\ UNCHANGED <<vtnVars, prev_signals, signal_trigger_sent, grid, objective, active_plan,
                   channelVars, loopVars, age, changes, panicVars>>

SetPlannedTariffs ==
    /\ poll = "tariffs"
    /\ grid' = Replaced(grid, "price")
    /\ poll' = "limits"
    /\ UNCHANGED <<vtnVars, fetched, prevVars, plan_trigger, signal_trigger_sent, objective,
                   active_plan, channelVars, loopVars, age, changes, panicVars>>

SetPlannedCapacityLimits ==
    /\ poll = "limits"
    /\ grid' = Replaced(grid, "limit")
    /\ poll' = "alerts"
    /\ UNCHANGED <<vtnVars, fetched, prevVars, plan_trigger, signal_trigger_sent, objective,
                   active_plan, channelVars, loopVars, age, changes, panicVars>>

SetAlertWindows ==
    /\ poll = "alerts"
    /\ IF SignalChanged("alert")
         THEN grid' = Replaced(grid, "alert") /\ poll' = "announce alerts"
         ELSE UNCHANGED grid /\ poll' = "simple"
    /\ UNCHANGED <<vtnVars, fetched, prevVars, plan_trigger, signal_trigger_sent, objective,
                   active_plan, channelVars, loopVars, age, changes, panicVars>>

\* After a notification for each new alert window.
SendAlert ==
    /\ poll = "announce alerts"
    /\ prev_signals' = Replaced(prev_signals, "alert")
    /\ Send("Alert")
    /\ signal_trigger_sent' = TRUE
    /\ poll' = "simple"
    /\ UNCHANGED <<vtnVars, fetched, prev_known, prev_capacity, plan_trigger, grid, objective,
                   active_plan, loopVars, age, changes, panicVars>>

SetSimpleWindows ==
    /\ poll = "simple"
    /\ IF SignalChanged("simple")
         THEN grid' = Replaced(grid, "simple") /\ poll' = "announce simple"
         ELSE UNCHANGED grid /\ poll' = "dispatch"
    /\ UNCHANGED <<vtnVars, fetched, prevVars, plan_trigger, signal_trigger_sent, objective,
                   active_plan, channelVars, loopVars, age, changes, panicVars>>

\* An alert of the same poll has been announced already: "Alert wins the label".
SendSimple ==
    /\ poll = "announce simple"
    /\ prev_signals' = Replaced(prev_signals, "simple")
    /\ IF signal_trigger_sent THEN UNCHANGED channelVars ELSE Send("CapacityChange")
    /\ signal_trigger_sent' = TRUE
    /\ poll' = "dispatch"
    /\ UNCHANGED <<vtnVars, fetched, prev_known, prev_capacity, plan_trigger, grid, objective,
                   active_plan, loopVars, age, changes, panicVars>>

\* Dispatch setpoints steer the tick: no replan.
SetDispatchWindows ==
    /\ poll = "dispatch"
    /\ IF SignalChanged("dispatch")
         THEN /\ grid' = Replaced(grid, "dispatch")
              /\ prev_signals' = Replaced(prev_signals, "dispatch")
         ELSE UNCHANGED <<grid, prev_signals>>
    /\ poll' = "finish"
    /\ UNCHANGED <<vtnVars, fetched, prev_known, prev_capacity, plan_trigger,
                   signal_trigger_sent, objective, active_plan, channelVars, loopVars, age,
                   changes, panicVars>>

\* Mutant: Every poll sends its trigger, changed or not.
SendOnEveryPoll ==
    /\ poll = "finish"
    /\ IF ~signal_trigger_sent THEN Send(plan_trigger) ELSE UNCHANGED channelVars
    /\ poll' = "fetch" /\ plan_trigger' = "none" /\ signal_trigger_sent' = FALSE
    /\ UNCHANGED <<vtnVars, fetched, prevVars, grid, objective, active_plan, loopVars, age,
                   changes, panicVars>>

FinishPoll ==
    /\ poll = "finish"
    /\ IF plan_trigger # "none" /\ ~signal_trigger_sent
         THEN Send(plan_trigger) ELSE UNCHANGED channelVars
    /\ poll' = "fetch" /\ plan_trigger' = "none" /\ signal_trigger_sent' = FALSE
    /\ UNCHANGED <<vtnVars, fetched, prevVars, grid, objective, active_plan, loopVars, age,
                   changes, panicVars>>

\* The supervisor starts the task again: what it remembered is gone.
PollPanics ==
    /\ poll_panics < MaxPollPanics
    /\ poll_panics' = poll_panics + 1
    /\ poll' = "fetch" /\ fetched' = Nothing
    /\ prev_known' = Nothing /\ prev_capacity' = NoPicture /\ prev_signals' = Nothing
    /\ plan_trigger' = "none" /\ signal_trigger_sent' = FALSE
    /\ UNCHANGED <<vtnVars, grid, objective, active_plan, channelVars, loopVars, age,
                   changes, planner_panics>>

-----------------------------------------------------------------------------
(* The other parts that ask for a replan                                   *)

\* The objective is written first, under its own lock, and then announced; a
\* planner that wakes in between reads the new one, as it does here.
SetObjective(o) ==
    /\ changes < MaxChanges
    /\ changes' = changes + 1
    /\ objective' = o
    /\ Send("UserRequest")
    /\ UNCHANGED <<vtnVars, pollVars, grid, active_plan, loopVars, age, panicVars>>

\* A submission, a cancellation, or the arbiter's residual escalation.
OtherTrigger(t) ==
    /\ changes < MaxChanges
    /\ changes' = changes + 1
    /\ Send(t)
    /\ UNCHANGED <<vtnVars, pollVars, grid, objective, active_plan, loopVars, age, panicVars>>

-----------------------------------------------------------------------------
(* The planning loop                                                       *)

Read(kind) == [e \in Events |-> IF Kind[e] = kind THEN grid[e] ELSE plan.reading[e]]

\* hold_rate_change: only a RateChange waits, for a time that may be 0.  The
\* loop does not look at the channel while it does.
HoldRateChange ==
    /\ planner = "hold"
    /\ planner' = "state"
    /\ UNCHANGED <<vtnVars, pollVars, grid, objective, active_plan, channelVars, wake_trigger,
                   plan, age, changes, panicVars>>

\* read_cycle_state: the tariffs and the objective, into a fresh request.
ReadCycleState ==
    /\ planner = "state"
    /\ plan' = [objective |-> objective, solved |-> FALSE,
                       reading |-> [e \in Events |-> IF Kind[e] = "price" THEN grid[e] ELSE 0]]
    /\ planner' = "limits"
    /\ UNCHANGED <<vtnVars, pollVars, grid, objective, active_plan, channelVars, wake_trigger,
                   age, changes, panicVars>>

\* assemble_solve_request reads the other signals, one after the other.
Assemble(kind, next) ==
    /\ planner' = next
    /\ plan' = [plan EXCEPT !.reading = Read(kind)]
    /\ UNCHANGED <<vtnVars, pollVars, grid, objective, active_plan, channelVars, wake_trigger,
                   age, changes, panicVars>>

ReadLimits == planner = "limits" /\ Assemble("limit", "alerts")
ReadAlerts == planner = "alerts" /\ Assemble("alert", "simple")
ReadSimple == planner = "simple" /\ Assemble("simple", "solve")

\* plan_for: a solve, or a forecast, which reads the dispatch windows and
\* always has a result.
Solve ==
    /\ planner = "solve"
    /\ \/ /\ plan.objective = "opportunistic"
          /\ plan' = [plan EXCEPT !.solved = TRUE, !.reading = Read("dispatch")]
       \/ /\ plan.objective = "planned"
          /\ \E ok \in (IF SolverFails THEN BOOLEAN ELSE {TRUE}) :
                plan' = [plan EXCEPT !.solved = ok]
    /\ planner' = "adopt"
    /\ UNCHANGED <<vtnVars, pollVars, grid, objective, active_plan, channelVars, wake_trigger,
                   age, changes, panicVars>>

\* Mutant: The gate never takes a decayed plan for decayed.
NoDecay(current, new) ==
    \/ new.objective = "opportunistic"
    \/ current.objective = "opportunistic"
    \/ new.solved /\ ~current.solved
    \/ (new.solved <=> current.solved) /\ wake_trigger # "Periodic"

\* Mutant: The gate has no rule for a change of regime back to planning.
RegimeRuleForgotten(current, new) ==
    \/ new.objective = "opportunistic"
    \/ new.solved /\ ~current.solved
    \/ (new.solved <=> current.solved) /\ (wake_trigger # "Periodic" \/ age = Decay)

\* evaluate_acceptance_gate: the plan must be adopted, or must not; between
\* the two it depends on its cost.
MustAdopt(current, new) ==
    \/ new.objective = "opportunistic"
    \/ current.objective = "opportunistic"
    \/ new.solved /\ ~current.solved
    \/ (new.solved <=> current.solved) /\ (wake_trigger # "Periodic" \/ age = Decay)

\* Mutant: The failed-solve rule is dropped.
NeverRejected(current, new) == FALSE

MustReject(current, new) ==
    /\ current.objective = "planned" /\ new.objective = "planned"
    /\ current.solved /\ ~new.solved

AdoptIfWarranted ==
    /\ planner = "adopt"
    /\ \/ /\ active_plan = NoPlan \/ ~MustReject(active_plan, plan)
          /\ active_plan' = plan
          /\ age' = 0
       \/ /\ active_plan # NoPlan /\ ~MustAdopt(active_plan, plan)
          /\ age' = IF age < Decay THEN age + 1 ELSE age
          /\ UNCHANGED active_plan
    /\ planner' = "wait"
    /\ UNCHANGED <<vtnVars, pollVars, grid, objective, channelVars, wake_trigger, plan,
                   changes, panicVars>>

WakeOnTrigger ==
    /\ planner = "wait" /\ changed
    /\ wake_trigger' = channel
    /\ changed' = FALSE
    /\ planner' = "hold"
    /\ UNCHANGED <<vtnVars, pollVars, grid, objective, active_plan, channel, sent, plan, age,
                   changes, panicVars>>

WakeOnReplanGrid ==
    /\ planner = "wait"
    /\ wake_trigger' = "Periodic"
    /\ planner' = "hold"
    /\ UNCHANGED <<vtnVars, pollVars, grid, objective, active_plan, channelVars, plan, age,
                   changes, panicVars>>

\* Mutant: The new task gets the receiver as its predecessor left it.
PanicKeepsReceiver ==
    /\ planner_panics < MaxPlannerPanics
    /\ planner_panics' = planner_panics + 1
    /\ planner' = "hold" /\ wake_trigger' = "Periodic" /\ plan' = FirstPlan
    /\ UNCHANGED <<vtnVars, pollVars, grid, objective, active_plan, channelVars, age,
                   changes, poll_panics>>

\* The new task gets a clone of the receiver that boot made, which has seen
\* nothing of what was sent since.
PlannerPanics ==
    /\ planner_panics < MaxPlannerPanics
    /\ planner_panics' = planner_panics + 1
    /\ planner' = "hold" /\ wake_trigger' = "Periodic" /\ plan' = FirstPlan
    /\ changed' = sent
    /\ UNCHANGED <<vtnVars, pollVars, grid, objective, active_plan, channel, sent, age,
                   changes, poll_panics>>

-----------------------------------------------------------------------------

PollStep ==
    \/ Fetch \/ SetPlannedTariffs \/ SetPlannedCapacityLimits \/ SetAlertWindows
    \/ SendAlert \/ SetSimpleWindows \/ SendSimple \/ SetDispatchWindows \/ FinishPoll

PlannerStep ==
    \/ HoldRateChange \/ ReadCycleState \/ ReadLimits \/ ReadAlerts \/ ReadSimple
    \/ Solve \/ AdoptIfWarranted \/ WakeOnTrigger \/ WakeOnReplanGrid

Environment ==
    \/ \E e \in Events : EditEvent(e)
    \/ TurnOver
    \/ \E o \in Objectives : SetObjective(o)
    \/ \E t \in OtherTriggers : OtherTrigger(t)
    \/ PollPanics \/ PlannerPanics

Next == PollStep \/ PlannerStep \/ Environment

Spec == Init /\ [][Next]_vars

\* The supervisor and the runtime keep the planning loop going; nothing is
\* assumed of the VTN, the poll, the clock or the users.
FairSpec == Spec /\ WF_vars(PlannerStep)

-----------------------------------------------------------------------------
(* Properties                                                              *)

\* Both loops are at rest: the poll between two fetches, the planner waiting
\* with every trigger seen.
AtRest == poll = "fetch" /\ planner = "wait" /\ ~changed

\* A finished poll has left in AppState exactly the event list it fetched, for
\* every kind of signal, although each kind is written by its own call and three
\* of them only when they differ from what the task remembers
\* (spawn_event_poll, apply_signal_changes).  For a poll that never panics.
GridIsFetched == poll = "finish" => grid = fetched

\* A poll task that was started again after a panic writes every kind of which
\* the VTN lists an event; only a signal whose last event was removed can be
\* left behind, and never a rate or a limit.
OnlyRemovalsAreMissed ==
    poll = "finish" =>
        \A e \in Events :
            \/ grid[e] = fetched[e]
            \/ /\ Kind[e] \in {"alert", "simple", "dispatch"}
               /\ \A x \in Events : Kind[x] = Kind[e] => fetched[x] = 0

\* With both loops at rest, the plan in force is built on the rates, the capacity
\* schedule and the alerts in force, if every solve succeeds: no order of writes,
\* sends, overwritten triggers, holds and planner restarts makes the planner
\* miss a change that no later trigger announces, and the gate turns away no
\* plan that answers a change, even if a Periodic cycle has read the change
\* first and was turned away (spawn_event_poll, spawn_planning,
\* evaluate_acceptance_gate).
PlanFollowsGrid ==
    AtRest =>
        \A e \in Events :
            Kind[e] \in {"price", "limit", "alert"} => active_plan.reading[e] = grid[e]

\* With the planner at rest the VEN is dispatched in the regime its objective
\* asks for, whatever failed solves, panics and overwritten triggers came
\* between (rule D7 of evaluate_acceptance_gate).
RegimeInForce ==
    planner = "wait" /\ ~changed => active_plan.objective = objective

\* While the VEN stays under a planning objective, a plan that solved is never
\* replaced by one that did not, whatever the trigger.
SolvedPlanStays ==
    [][ active_plan.solved /\ active_plan.objective = "planned"
            /\ active_plan'.objective = "planned" => active_plan'.solved ]_active_plan

\* What a signal says reaches the plan in force, or the signal changes again:
\* a change the gate turns away or a trigger misses is adopted once the plan in
\* force has decayed.  Assumes that the solver does not fail forever.
SolverSpec == FairSpec /\ SF_vars(Solve /\ plan'.solved)

SignalReachesPlan ==
    \A e \in Events, v \in Versions \cup {0} :
        Kind[e] # "dispatch" =>
            ((grid[e] = v)
                ~> (active_plan # NoPlan /\ active_plan.reading[e] = v) \/ grid[e] # v)

\* Claimed by tasks/poll_events/mod.rs: the hold of a rate change never delays a
\* limit.  While the planner holds, it has read the limits in force.
HoldDelaysNoLimit ==
    planner = "hold" /\ wake_trigger = "RateChange" =>
        \A e \in Events : Kind[e] = "limit" => plan.reading[e] = grid[e]

\* Claimed by wiki/components/openadr-interface.md: the removal of an event is
\* its cancellation.  What a finished poll did not list is not in force.
RemovalCancels ==
    poll = "finish" => \A e \in Events : fetched[e] = 0 => grid[e] = 0

=============================================================================
