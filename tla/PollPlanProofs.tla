--------------------------- MODULE PollPlanProofs ---------------------------
(***************************************************************************)
(* What the event poll and the planning loop keep true, for every set of   *)
(* events, every assignment of signals to them, every number of changes,   *)
(* panics and failed solves, and every interleaving.                       *)
(***************************************************************************)
EXTENDS PollPlan, TLAPS

\* The part of the state the planning loop's properties are about.
PlanTyped ==
    /\ objective \in Objectives
    /\ active_plan \in Plans \cup {NoPlan}
    /\ plan \in Plans
    /\ grid \in Readings
    /\ changed \in BOOLEAN /\ sent \in BOOLEAN

\* A cycle that has read the objective, and that no trigger has overtaken,
\* works for the objective in force.
CycleServesObjective ==
    planner \in {"limits", "alerts", "simple", "solve", "adopt"} /\ ~changed =>
        plan.objective = objective

\* The readings the poll works with.
PollTyped ==
    /\ vtn \in Readings /\ fetched \in Readings
    /\ prev_signals \in Readings /\ grid \in Readings

-----------------------------------------------------------------------------
(* The readings                                                            *)

LEMMA ReplacedTyped ==
    ASSUME PollTyped, NEW reading \in Readings, NEW kind
    PROVE  Replaced(reading, kind) \in Readings
BY DEF Replaced, Readings, PollTyped

LEMMA NothingTyped == Nothing \in Readings
BY DEF Nothing, Readings

LEMMA PollTypedStep == PollTyped /\ [Next]_vars => PollTyped'
<1> SUFFICES ASSUME PollTyped, [Next]_vars
             PROVE  PollTyped'
  OBVIOUS
<1> USE DEF PollTyped, vtnVars, pollVars, prevVars, loopVars, channelVars
<1>1. CASE Fetch \/ SetDispatchWindows
  BY <1>1, ReplacedTyped DEF Fetch, SetDispatchWindows
<1>2. CASE SetPlannedTariffs \/ SetPlannedCapacityLimits
  BY <1>2, ReplacedTyped DEF SetPlannedTariffs, SetPlannedCapacityLimits
<1>3. CASE SetAlertWindows \/ SetSimpleWindows
  BY <1>3, ReplacedTyped DEF SetAlertWindows, SetSimpleWindows
<1>4. CASE SendAlert \/ SendSimple \/ FinishPoll
  BY <1>4, ReplacedTyped DEF SendAlert, SendSimple, FinishPoll
<1>5. CASE PlannerStep
  BY <1>5 DEF PlannerStep, HoldRateChange, ReadCycleState, ReadLimits, ReadAlerts, ReadSimple,
              Assemble, Solve, AdoptIfWarranted, WakeOnTrigger, WakeOnReplanGrid
<1>6. ASSUME NEW e \in Events, EditEvent(e)
      PROVE  PollTyped'
  <2>1. PICK v \in (Versions \cup {0}) \ {vtn[e]} : vtn' = [vtn EXCEPT ![e] = v]
    BY <1>6 DEF EditEvent
  <2>2. vtn' \in Readings
    BY <2>1 DEF Readings
  <2> QED
    BY <1>6, <2>2 DEF EditEvent
<1>7. CASE TurnOver \/ PlannerPanics
  BY <1>7 DEF TurnOver, PlannerPanics
<1>8. CASE \/ \E o \in Objectives : SetObjective(o)
           \/ \E t \in OtherTriggers : OtherTrigger(t)
  BY <1>8 DEF SetObjective, OtherTrigger
<1>9. CASE PollPanics
  BY <1>9, NothingTyped DEF PollPanics
<1>10. CASE UNCHANGED vars
  BY <1>10 DEF vars
<1> QED
  BY <1>1, <1>2, <1>3, <1>4, <1>5, <1>6, <1>7, <1>8, <1>9, <1>10 DEF Next, PollStep, Environment

-----------------------------------------------------------------------------
(* The regime in force                                                     *)

\* The poll changes neither plan nor objective, and what it sends only wakes
\* the planner.
LEMMA PollLeavesPlans ==
    ASSUME PollStep
    PROVE  /\ UNCHANGED <<objective, active_plan, planner, plan>>
           /\ (changed' = changed /\ sent' = sent) \/ (changed' = TRUE /\ sent' = TRUE)
BY DEF PollStep, Fetch, SetPlannedTariffs, SetPlannedCapacityLimits, SetAlertWindows, SendAlert,
       SetSimpleWindows, SendSimple, SetDispatchWindows, FinishPoll, Send, loopVars, channelVars

LEMMA PlanTypedStep == PlanTyped /\ PollTyped /\ [Next]_vars => PlanTyped'
<1> SUFFICES ASSUME PlanTyped, PollTyped, [Next]_vars
             PROVE  PlanTyped'
  OBVIOUS
<1>0. grid' \in Readings
  BY PollTypedStep DEF PollTyped
<1> USE DEF PlanTyped
<1>1. CASE PollStep
  BY <1>0, <1>1, PollLeavesPlans
<1>2. CASE ReadCycleState
  <2>1. plan' \in Plans
    BY <1>2 DEF ReadCycleState, Plans, Readings
  <2> QED
    BY <1>0, <1>2, <2>1 DEF ReadCycleState, channelVars
<1>3. ASSUME NEW kind \in Signals, NEW next, Assemble(kind, next)
      PROVE  PlanTyped'
  <2>1. Read(kind) \in Readings
    BY DEF Read, Plans, Readings
  <2>2. plan' \in Plans
    BY <1>3, <2>1 DEF Assemble, Plans
  <2> QED
    BY <1>0, <1>3, <2>2 DEF Assemble, channelVars
<1>4. CASE ReadLimits \/ ReadAlerts \/ ReadSimple
  BY <1>3, <1>4 DEF ReadLimits, ReadAlerts, ReadSimple, Signals
<1>5. CASE Solve
  <2>1. Read("dispatch") \in Readings
    BY DEF Read, Plans, Readings
  <2>2. plan' \in Plans
    <3>1. CASE plan' = [plan EXCEPT !.solved = TRUE, !.reading = Read("dispatch")]
      BY <2>1, <3>1 DEF Plans
    <3>2. ASSUME NEW ok \in BOOLEAN, plan' = [plan EXCEPT !.solved = ok]
          PROVE  plan' \in Plans
      BY <3>2 DEF Plans
    <3> QED
      BY <1>5, <3>1, <3>2 DEF Solve
  <2> QED
    BY <1>0, <1>5, <2>2 DEF Solve, channelVars
<1>6. CASE HoldRateChange \/ AdoptIfWarranted \/ WakeOnTrigger \/ WakeOnReplanGrid
  BY <1>0, <1>6 DEF HoldRateChange, AdoptIfWarranted, WakeOnTrigger, WakeOnReplanGrid,
                    channelVars, loopVars
<1>7. CASE \/ \E e \in Events : EditEvent(e)
           \/ TurnOver
           \/ PollPanics
  BY <1>0, <1>7 DEF EditEvent, TurnOver, PollPanics, channelVars, loopVars
<1>8. CASE \/ \E o \in Objectives : SetObjective(o)
           \/ \E t \in OtherTriggers : OtherTrigger(t)
  BY <1>0, <1>8 DEF SetObjective, OtherTrigger, Send, channelVars, loopVars
<1>9. CASE PlannerPanics
  <2>1. FirstPlan \in Plans
    BY NothingTyped DEF FirstPlan, Plans, Objectives
  <2> QED
    BY <1>0, <1>9, <2>1 DEF PlannerPanics, channelVars, loopVars
<1>10. CASE UNCHANGED vars
  BY <1>0, <1>10 DEF vars, channelVars, loopVars
<1> QED
  BY <1>1, <1>2, <1>4, <1>5, <1>6, <1>7, <1>8, <1>9, <1>10 DEF Next, PlannerStep, Environment

LEMMA AdoptionServesObjective ==
    ASSUME PlanTyped, CycleServesObjective, AdoptIfWarranted, ~changed
    PROVE  active_plan'.objective = objective
<1>1. plan.objective = objective /\ plan.objective \in Objectives
  BY DEF CycleServesObjective, AdoptIfWarranted, PlanTyped, Plans
<1>2. CASE active_plan' = plan
  BY <1>1, <1>2
<1>3. CASE active_plan # NoPlan /\ ~MustAdopt(active_plan, plan) /\ UNCHANGED active_plan
  <2>1. active_plan.objective \in Objectives
    BY <1>3 DEF PlanTyped, Plans
  <2> QED
    BY <1>1, <1>3, <2>1 DEF MustAdopt, Objectives
<1> QED
  BY <1>2, <1>3 DEF AdoptIfWarranted

LEMMA RegimeStep ==
    ASSUME PlanTyped, CycleServesObjective, RegimeInForce, [Next]_vars
    PROVE  CycleServesObjective' /\ RegimeInForce'
<1> USE DEF CycleServesObjective, RegimeInForce
<1>1. CASE PollStep
  BY <1>1, PollLeavesPlans
<1>2. CASE HoldRateChange \/ ReadCycleState
  BY <1>2 DEF HoldRateChange, ReadCycleState, channelVars
<1>3. CASE ReadLimits \/ ReadAlerts \/ ReadSimple
  BY <1>3 DEF ReadLimits, ReadAlerts, ReadSimple, Assemble, channelVars, PlanTyped, Plans
<1>4. CASE Solve
  BY <1>4 DEF Solve, channelVars, PlanTyped, Plans
<1>5. CASE AdoptIfWarranted
  BY <1>5, AdoptionServesObjective DEF AdoptIfWarranted, channelVars
<1>6. CASE WakeOnTrigger \/ WakeOnReplanGrid \/ PlannerPanics
  BY <1>6 DEF WakeOnTrigger, WakeOnReplanGrid, PlannerPanics
<1>7. CASE \/ \E o \in Objectives : SetObjective(o)
           \/ \E t \in OtherTriggers : OtherTrigger(t)
  BY <1>7 DEF SetObjective, OtherTrigger, Send
<1>8. CASE \/ \E e \in Events : EditEvent(e)
           \/ TurnOver
           \/ PollPanics
           \/ UNCHANGED vars
  BY <1>8 DEF EditEvent, TurnOver, PollPanics, vars, channelVars, loopVars
<1> QED
  BY <1>1, <1>2, <1>3, <1>4, <1>5, <1>6, <1>7, <1>8 DEF Next, PlannerStep, Environment

LEMMA TypedInit == Init => PlanTyped /\ PollTyped
<1>1. FirstPlan \in Plans
  BY NothingTyped DEF FirstPlan, Plans, Objectives
<1> QED
  BY <1>1, NothingTyped DEF Init, PlanTyped, PollTyped, Objectives

LEMMA TypedHolds == Spec => [](PlanTyped /\ PollTyped)
<1>1. Init => PlanTyped /\ PollTyped
  BY TypedInit
<1>2. PlanTyped /\ PollTyped /\ [Next]_vars => (PlanTyped /\ PollTyped)'
  BY PlanTypedStep, PollTypedStep
<1> QED
  BY <1>1, <1>2, PTL DEF Spec

\* With the planner at rest the VEN is dispatched in the regime its objective
\* asks for: a change of objective leaves a trigger that is seen, and the gate
\* turns away no plan of another regime (rule D7 of evaluate_acceptance_gate).
THEOREM RegimeFollowsObjective == Spec => []RegimeInForce
<1>1. Init => CycleServesObjective /\ RegimeInForce
  BY DEF Init, CycleServesObjective, RegimeInForce
<1>2. PlanTyped /\ CycleServesObjective /\ RegimeInForce /\ [Next]_vars
        => (CycleServesObjective /\ RegimeInForce)'
  BY RegimeStep
<1> QED
  BY <1>1, <1>2, TypedHolds, PTL DEF Spec

\* While the VEN stays under a planning objective, a plan that solved is never
\* replaced by one that did not (evaluate_acceptance_gate).
THEOREM SolvedPlanIsKept == Spec => SolvedPlanStays
<1> DEFINE Stays == active_plan.solved /\ active_plan.objective = "planned"
                      /\ active_plan'.objective = "planned" => active_plan'.solved
<1>1. [Next]_vars => [Stays]_active_plan
  <2> SUFFICES ASSUME [Next]_vars, active_plan' # active_plan
               PROVE  Stays
    OBVIOUS
  <2>1. AdoptIfWarranted
    BY PollLeavesPlans DEF Next, PlannerStep, Environment, HoldRateChange, ReadCycleState,
          ReadLimits, ReadAlerts, ReadSimple, Assemble, Solve, WakeOnTrigger, WakeOnReplanGrid,
          EditEvent, TurnOver, SetObjective, OtherTrigger, PollPanics, PlannerPanics, vars
  <2>2. active_plan' = plan /\ (active_plan = NoPlan \/ ~MustReject(active_plan, plan))
    BY <2>1 DEF AdoptIfWarranted
  <2> QED
    BY <2>2 DEF MustReject, NoPlan
<1>2. Spec => [][Stays]_active_plan
  BY <1>1, PTL DEF Spec
<1> QED
  BY <1>2 DEF SolvedPlanStays

-----------------------------------------------------------------------------
(* What a poll leaves in AppState                                          *)

Matches(reading, other, kind) == \A e \in Events : Kind[e] = kind => reading[e] = other[e]
Silent(reading, kind) == \A e \in Events : Kind[e] = kind => reading[e] = 0

\* The signals of a kind the task remembers are those in AppState, unless a panic made it forget.
Remembered(kind) ==
    \/ Matches(grid, prev_signals, kind)
    \/ poll_panics > 0 /\ Silent(prev_signals, kind)

\* The signals of a kind in AppState are those fetched, or were forgotten and are listed no more.
Applied(kind) ==
    \/ Matches(grid, fetched, kind)
    \/ poll_panics > 0 /\ Silent(fetched, kind)

\* They are exactly those fetched.
Fresh(kind) == Matches(grid, fetched, kind)

AfterAlerts == {"simple", "announce simple", "dispatch", "finish"}
AfterSimple == {"dispatch", "finish"}

GridInv ==
    /\ poll # "announce alerts" => Remembered("alert")
    /\ poll # "announce simple" => Remembered("simple")
    /\ Remembered("dispatch")
    /\ poll \in {"limits", "alerts", "announce alerts"} \cup AfterAlerts =>
            Fresh("price")
    /\ poll \in {"alerts", "announce alerts"} \cup AfterAlerts =>
            Fresh("limit")
    /\ poll = "announce alerts" => Fresh("alert")
    /\ poll \in AfterAlerts => Applied("alert")
    /\ poll = "announce simple" => Fresh("simple")
    /\ poll \in AfterSimple => Applied("simple")
    /\ poll = "finish" => Applied("dispatch")

PanicsTyped == poll_panics \in 0 .. MaxPollPanics

\* Storing a kind brings it up to date and leaves the others as they were.
LEMMA StoringUpdates ==
    ASSUME PollTyped, NEW kind \in Signals,
           grid' = Replaced(grid, kind), UNCHANGED <<fetched, prev_signals, poll_panics>>
    PROVE  /\ Fresh(kind)'
           /\ \A other \in Signals \ {kind} :
                /\ Fresh(other) => Fresh(other)'
                /\ Applied(other) => Applied(other)'
                /\ Remembered(other) => Remembered(other)'
BY DEF Fresh, Applied, Remembered, Matches, Silent, Replaced, PollTyped, Readings

\* Remembering a kind that is up to date, likewise.
LEMMA RememberingUpdates ==
    ASSUME PollTyped, NEW kind \in Signals, Fresh(kind),
           prev_signals' = Replaced(prev_signals, kind), UNCHANGED <<fetched, grid, poll_panics>>
    PROVE  /\ Remembered(kind)' /\ Fresh(kind)'
           /\ \A other \in Signals \ {kind} :
                /\ Fresh(other) => Fresh(other)'
                /\ Applied(other) => Applied(other)'
                /\ Remembered(other) => Remembered(other)'
BY DEF Fresh, Applied, Remembered, Matches, Silent, Replaced, PollTyped, Readings

LEMMA StoringBothUpdates ==
    ASSUME PollTyped, NEW kind \in Signals,
           grid' = Replaced(grid, kind), prev_signals' = Replaced(prev_signals, kind),
           UNCHANGED <<fetched, poll_panics>>
    PROVE  /\ Remembered(kind)' /\ Fresh(kind)'
           /\ \A other \in Signals \ {kind} :
                /\ Fresh(other) => Fresh(other)'
                /\ Applied(other) => Applied(other)'
                /\ Remembered(other) => Remembered(other)'
BY DEF Fresh, Applied, Remembered, Matches, Silent, Replaced, PollTyped, Readings

\* What the task takes for unchanged is in AppState, or was forgotten and is gone.
LEMMA UnchangedIsApplied ==
    ASSUME NEW kind \in Signals, Remembered(kind), ~SignalChanged(kind)
    PROVE  Applied(kind)
BY DEF Remembered, Applied, Matches, Silent, SignalChanged

LEMMA FreshIsApplied ==
    ASSUME NEW kind \in Signals, Fresh(kind)
    PROVE  Applied(kind)
BY DEF Fresh, Applied

LEMMA KindFrame ==
    ASSUME NEW kind \in Signals, UNCHANGED <<grid, fetched, prev_signals, poll_panics>>
    PROVE  /\ Fresh(kind) => Fresh(kind)'
           /\ Applied(kind) => Applied(kind)'
           /\ Remembered(kind) => Remembered(kind)'
BY DEF Fresh, Applied, Remembered, Matches, Silent

\* A step that touches none of the poll's readings keeps what is known of them.
LEMMA GridInvFrame ==
    ASSUME GridInv, UNCHANGED <<grid, fetched, prev_signals, poll_panics, poll>>
    PROVE  GridInv'
BY KindFrame DEF GridInv, AfterAlerts, AfterSimple, Signals

LEMMA PanicCounted ==
    ASSUME PanicsTyped, PollPanics
    PROVE  poll_panics' > 0
<1>1. poll_panics' = poll_panics + 1
  BY DEF PollPanics
<1>2. poll_panics \in Nat
  BY BoundsAssumption DEF PanicsTyped
<1> QED
  BY <1>1, <1>2

LEMMA GridInvStep ==
    ASSUME GridInv, PollTyped, PanicsTyped, [Next]_vars
    PROVE  GridInv'
<1> USE DEF GridInv, AfterAlerts, AfterSimple, Signals
<1>1. CASE Fetch
  <2>1. UNCHANGED <<grid, prev_signals, poll_panics>> /\ poll = "fetch" /\ poll' = "tariffs"
    BY <1>1 DEF Fetch, panicVars
  <2> QED
    BY <2>1 DEF Remembered, Matches, Silent
<1>2. CASE SetPlannedTariffs
  <2>1. /\ UNCHANGED <<fetched, prev_signals, poll_panics>>
        /\ poll = "tariffs" /\ poll' = "limits"
        /\ grid' = Replaced(grid, "price")
    BY <1>2 DEF SetPlannedTariffs, prevVars, panicVars
  <2> QED
    BY <2>1, StoringUpdates
<1>3. CASE SetPlannedCapacityLimits
  <2>1. /\ UNCHANGED <<fetched, prev_signals, poll_panics>>
        /\ poll = "limits" /\ poll' = "alerts"
        /\ grid' = Replaced(grid, "limit")
    BY <1>3 DEF SetPlannedCapacityLimits, prevVars, panicVars
  <2> QED
    BY <2>1, StoringUpdates
<1>4. CASE SetAlertWindows
  <2>1. UNCHANGED <<fetched, prev_signals, poll_panics>> /\ poll = "alerts"
    BY <1>4 DEF SetAlertWindows, prevVars, panicVars
  <2>2. CASE SignalChanged("alert")
    <3>1. grid' = Replaced(grid, "alert") /\ poll' = "announce alerts"
      BY <1>4, <2>2 DEF SetAlertWindows
    <3> QED
      BY <2>1, <3>1, StoringUpdates
  <2>3. CASE ~SignalChanged("alert")
    <3>1. grid' = grid /\ poll' = "simple"
      BY <1>4, <2>3 DEF SetAlertWindows
    <3>2. Applied("alert")
      BY <2>1, <2>3, UnchangedIsApplied
    <3> QED
      BY <2>1, <3>1, <3>2, KindFrame
  <2> QED
    BY <2>2, <2>3
<1>5. CASE SendAlert
  <2>1. /\ UNCHANGED <<fetched, grid, poll_panics>>
        /\ poll = "announce alerts" /\ poll' = "simple"
        /\ prev_signals' = Replaced(prev_signals, "alert")
    BY <1>5 DEF SendAlert, panicVars
  <2>2. Fresh("alert")
    BY <2>1
  <2>3. Remembered("alert")' /\ Fresh("alert")' /\ Applied("alert")'
    BY <2>1, <2>2, RememberingUpdates DEF Fresh, Applied
  <2> QED
    BY <2>1, <2>2, <2>3, RememberingUpdates
<1>6. CASE SetSimpleWindows
  <2>1. UNCHANGED <<fetched, prev_signals, poll_panics>> /\ poll = "simple"
    BY <1>6 DEF SetSimpleWindows, prevVars, panicVars
  <2>2. CASE SignalChanged("simple")
    <3>1. grid' = Replaced(grid, "simple") /\ poll' = "announce simple"
      BY <1>6, <2>2 DEF SetSimpleWindows
    <3> QED
      BY <2>1, <3>1, StoringUpdates
  <2>3. CASE ~SignalChanged("simple")
    <3>1. grid' = grid /\ poll' = "dispatch"
      BY <1>6, <2>3 DEF SetSimpleWindows
    <3>2. Applied("simple")
      BY <2>1, <2>3, UnchangedIsApplied
    <3> QED
      BY <2>1, <3>1, <3>2, KindFrame
  <2> QED
    BY <2>2, <2>3
<1>7. CASE SendSimple
  <2>1. /\ UNCHANGED <<fetched, grid, poll_panics>>
        /\ poll = "announce simple" /\ poll' = "dispatch"
        /\ prev_signals' = Replaced(prev_signals, "simple")
    BY <1>7 DEF SendSimple, panicVars
  <2>2. Fresh("simple")
    BY <2>1
  <2>3. Remembered("simple")' /\ Fresh("simple")' /\ Applied("simple")'
    BY <2>1, <2>2, RememberingUpdates DEF Fresh, Applied
  <2> QED
    BY <2>1, <2>2, <2>3, RememberingUpdates
<1>8. CASE SetDispatchWindows
  <2>1. UNCHANGED <<fetched, poll_panics>> /\ poll = "dispatch" /\ poll' = "finish"
    BY <1>8 DEF SetDispatchWindows, panicVars
  <2>2. CASE SignalChanged("dispatch")
    <3>1. grid' = Replaced(grid, "dispatch") /\ prev_signals' = Replaced(prev_signals, "dispatch")
      BY <1>8, <2>2 DEF SetDispatchWindows
    <3>2. Remembered("dispatch")' /\ Applied("dispatch")'
      BY <2>1, <3>1, StoringBothUpdates DEF Fresh, Applied
    <3> QED
      BY <2>1, <3>1, <3>2, StoringBothUpdates
  <2>3. CASE ~SignalChanged("dispatch")
    <3>1. grid' = grid /\ prev_signals' = prev_signals
      BY <1>8, <2>3 DEF SetDispatchWindows
    <3>2. Applied("dispatch")
      BY <2>3, UnchangedIsApplied
    <3> QED
      BY <2>1, <3>1, <3>2, KindFrame
  <2> QED
    BY <2>2, <2>3
<1>9. CASE FinishPoll
  <2>1. /\ UNCHANGED <<grid, fetched, prev_signals, poll_panics>>
        /\ poll = "finish" /\ poll' = "fetch"
    BY <1>9 DEF FinishPoll, prevVars, panicVars
  <2> QED
    BY <2>1, KindFrame
<1>10. CASE PollPanics
  <2>1. poll' = "fetch" /\ prev_signals' = Nothing /\ poll_panics' = poll_panics + 1
    BY <1>10 DEF PollPanics
  <2>0. poll_panics' > 0
    BY <1>10, PanicCounted
  <2>2. \A e \in Events : Nothing[e] = 0
    BY DEF Nothing
  <2>3. ASSUME NEW kind \in Signals
        PROVE  Remembered(kind)'
    <3>1. \A e \in Events : prev_signals'[e] = 0
      BY <2>1, <2>2
    <3> QED
      BY <2>0, <3>1 DEF Remembered, Silent
  <2> QED
    BY <2>1, <2>3
<1>11. CASE PlannerStep
  BY <1>11, GridInvFrame DEF PlannerStep, HoldRateChange, ReadCycleState, ReadLimits, ReadAlerts,
       ReadSimple, Assemble, Solve, AdoptIfWarranted, WakeOnTrigger, WakeOnReplanGrid,
       pollVars, prevVars, panicVars
<1>12. CASE \/ \E e \in Events : EditEvent(e)
            \/ TurnOver
            \/ \E o \in Objectives : SetObjective(o)
            \/ \E t \in OtherTriggers : OtherTrigger(t)
            \/ PlannerPanics
            \/ UNCHANGED vars
  BY <1>12, GridInvFrame DEF EditEvent, TurnOver, SetObjective, OtherTrigger, PlannerPanics, vars,
       pollVars, prevVars, panicVars
<1> QED
  BY <1>1, <1>2, <1>3, <1>4, <1>5, <1>6, <1>7, <1>8, <1>9, <1>10, <1>11, <1>12
     DEF Next, PollStep, Environment

LEMMA PanicsTypedStep == PanicsTyped /\ [Next]_vars => PanicsTyped'
<1> SUFFICES ASSUME PanicsTyped, [Next]_vars
             PROVE  PanicsTyped'
  OBVIOUS
<1>1. CASE PollPanics
  BY <1>1, BoundsAssumption DEF PollPanics, PanicsTyped
<1>2. CASE ~PollPanics
  <2>1. poll_panics' = poll_panics
    BY <1>2 DEF Next, PollStep, PlannerStep, Environment, Fetch, SetPlannedTariffs,
         SetPlannedCapacityLimits, SetAlertWindows, SendAlert, SetSimpleWindows, SendSimple,
         SetDispatchWindows, FinishPoll, HoldRateChange, ReadCycleState, ReadLimits, ReadAlerts,
         ReadSimple, Assemble, Solve, AdoptIfWarranted, WakeOnTrigger, WakeOnReplanGrid,
         EditEvent, TurnOver, SetObjective, OtherTrigger, PlannerPanics, vars, panicVars
  <2> QED
    BY <2>1 DEF PanicsTyped
<1> QED
  BY <1>1, <1>2

LEMMA GridInvHolds == Spec => [](GridInv /\ PollTyped /\ PanicsTyped)
<1>1. Init => GridInv /\ PanicsTyped
  BY BoundsAssumption DEF Init, GridInv, PanicsTyped, Remembered, Matches, AfterAlerts, AfterSimple
<1>2. GridInv /\ PollTyped /\ PanicsTyped /\ [Next]_vars => (GridInv /\ PanicsTyped)'
  BY GridInvStep, PanicsTypedStep
<1> QED
  BY <1>1, <1>2, TypedHolds, PTL DEF Spec

\* A poll task started again after a panic leaves behind at most a signal of a
\* kind of which the VTN lists no event any more, and never a rate or a limit
\* (spawn_event_poll, apply_signal_changes).
THEOREM RestartMissesRemovalsOnly == Spec => []OnlyRemovalsAreMissed
<1>1. GridInv => OnlyRemovalsAreMissed
  <2> SUFFICES ASSUME GridInv, poll = "finish", NEW e \in Events
               PROVE  \/ grid[e] = fetched[e]
                      \/ /\ Kind[e] \in {"alert", "simple", "dispatch"}
                         /\ \A x \in Events : Kind[x] = Kind[e] => fetched[x] = 0
    BY DEF OnlyRemovalsAreMissed
  <2>1. Kind[e] \in Signals
    BY EventsAssumption
  <2> QED
    BY <2>1 DEF GridInv, Fresh, Applied, Matches, Silent, Signals, AfterAlerts, AfterSimple
<1> QED
  BY <1>1, GridInvHolds, PTL

\* Without a panic, a finished poll has left in AppState exactly what it fetched.
THEOREM PollLeavesWhatItFetched ==
    ASSUME MaxPollPanics = 0
    PROVE  Spec => []GridIsFetched
<1>1. GridInv /\ PollTyped /\ PanicsTyped => GridIsFetched
  <2> SUFFICES ASSUME GridInv, PollTyped, PanicsTyped, poll = "finish"
               PROVE  grid = fetched
    BY DEF GridIsFetched
  <2>1. ~(poll_panics > 0)
    BY DEF PanicsTyped
  <2>2. \A e \in Events : grid[e] = fetched[e]
    <3> SUFFICES ASSUME NEW e \in Events
                 PROVE  grid[e] = fetched[e]
      OBVIOUS
    <3>1. Kind[e] \in Signals
      BY EventsAssumption
    <3> QED
      BY <2>1, <3>1 DEF GridInv, Fresh, Applied, Matches, Signals, AfterAlerts, AfterSimple
  <2> QED
    BY <2>2 DEF PollTyped, Readings
<1> QED
  BY <1>1, GridInvHolds, PTL

-----------------------------------------------------------------------------
(* The types                                                               *)

\* The rest of the state: what the loops remember and where they are.
LoopsTyped ==
    /\ turned \in BOOLEAN
    /\ poll \in {"fetch", "tariffs", "limits", "alerts", "announce alerts", "simple",
                 "announce simple", "dispatch", "finish"}
    /\ prev_known \in Readings /\ prev_capacity \in Pictures
    /\ plan_trigger \in {"none", "RateChange", "CapacityChange"}
    /\ signal_trigger_sent \in BOOLEAN
    /\ channel \in Triggers /\ wake_trigger \in Triggers
    /\ planner \in {"hold", "state", "limits", "alerts", "simple", "solve", "adopt", "wait"}

CountsTyped ==
    /\ age \in 0 .. Decay
    /\ changes \in 0 .. MaxChanges
    /\ planner_panics \in 0 .. MaxPlannerPanics

LEMMA PictureTyped ==
    ASSUME NEW reading \in Readings, NEW at \in BOOLEAN
    PROVE  CapacityPicture(reading, at) \in Pictures
<1>1. Limits(reading) \subseteq Events \X Versions
  BY DEF Limits, Readings
<1>2. (IF Limits(reading) = {} THEN FALSE ELSE at) \in BOOLEAN
  OBVIOUS
<1> HIDE DEF Limits
<1> QED
  BY <1>1, <1>2 DEF CapacityPicture, Pictures

LEMMA NoPictureTyped == NoPicture \in Pictures
BY DEF NoPicture, Pictures

LEMMA LoopsTypedStep == LoopsTyped /\ PollTyped /\ [Next]_vars => LoopsTyped'
<1> SUFFICES ASSUME LoopsTyped, PollTyped, [Next]_vars
             PROVE  LoopsTyped'
  OBVIOUS
<1> USE DEF LoopsTyped, Triggers, vtnVars, pollVars, prevVars, loopVars, channelVars, panicVars
<1>1. CASE Fetch
  <2>1. prev_known' \in Readings /\ prev_capacity' \in Pictures
    BY <1>1, PictureTyped DEF Fetch, PollTyped
  <2>2. plan_trigger' \in {"none", "RateChange", "CapacityChange"}
    BY <1>1 DEF Fetch, PlanTrigger
  <2> QED
    BY <1>1, <2>1, <2>2 DEF Fetch
<1>2. CASE SetPlannedTariffs \/ SetPlannedCapacityLimits \/ SetAlertWindows
  BY <1>2 DEF SetPlannedTariffs, SetPlannedCapacityLimits, SetAlertWindows
<1>3. CASE SendAlert \/ SetSimpleWindows \/ SendSimple
  BY <1>3 DEF SendAlert, SetSimpleWindows, SendSimple, Send
<1>4. CASE SetDispatchWindows \/ FinishPoll
  BY <1>4 DEF SetDispatchWindows, FinishPoll, Send
<1>5. CASE HoldRateChange \/ ReadCycleState \/ ReadLimits \/ ReadAlerts \/ ReadSimple
  BY <1>5 DEF HoldRateChange, ReadCycleState, ReadLimits, ReadAlerts, ReadSimple, Assemble
<1>6. CASE Solve \/ WakeOnTrigger \/ WakeOnReplanGrid
  BY <1>6 DEF Solve, WakeOnTrigger, WakeOnReplanGrid
<1> DEFINE FlagsTyped == turned \in BOOLEAN /\ signal_trigger_sent \in BOOLEAN
           ValuesTyped ==
             /\ prev_known \in Readings /\ prev_capacity \in Pictures
             /\ plan_trigger \in {"none", "RateChange", "CapacityChange"}
             /\ channel \in Triggers /\ wake_trigger \in Triggers
           PlacesTyped ==
             /\ poll \in {"fetch", "tariffs", "limits", "alerts", "announce alerts", "simple",
                          "announce simple", "dispatch", "finish"}
             /\ planner \in {"hold", "state", "limits", "alerts", "simple", "solve", "adopt", "wait"}
<1>7. CASE AdoptIfWarranted
  <2>1. FlagsTyped'
    BY <1>7, Zenon DEF AdoptIfWarranted
  <2>2. ValuesTyped'
    BY <1>7, Zenon DEF AdoptIfWarranted
  <2>3. PlacesTyped'
    BY <1>7, Zenon DEF AdoptIfWarranted
  <2> QED
    BY <2>1, <2>2, <2>3
<1>8. CASE (\E e \in Events : EditEvent(e)) \/ TurnOver
  BY <1>8 DEF EditEvent, TurnOver
<1>9. ASSUME NEW o \in Objectives, SetObjective(o)
      PROVE  LoopsTyped'
  <2>1. FlagsTyped'
    BY <1>9, Zenon DEF SetObjective, Send
  <2>2. ValuesTyped'
    BY <1>9, Zenon DEF SetObjective, Send
  <2>3. PlacesTyped'
    BY <1>9, Zenon DEF SetObjective, Send
  <2> QED
    BY <2>1, <2>2, <2>3
<1>10. ASSUME NEW t \in OtherTriggers, OtherTrigger(t)
       PROVE  LoopsTyped'
  <2>1. t \in Triggers
    BY EventsAssumption
  <2>2. channel' = t
    BY <1>10 DEF OtherTrigger, Send
  <2>3. UNCHANGED <<turned, poll, prev_known, prev_capacity, plan_trigger,
                    signal_trigger_sent, wake_trigger, planner>>
    BY <1>10 DEF OtherTrigger
  <2>4. FlagsTyped'
    BY <2>3, Zenon
  <2>5. ValuesTyped'
    BY <2>1, <2>2, <2>3, Zenon
  <2>6. PlacesTyped'
    BY <2>1, <2>2, <2>3, Zenon
  <2> QED
    BY <2>4, <2>5, <2>6
<1>11. CASE PollPanics
  BY <1>11, NothingTyped, NoPictureTyped DEF PollPanics
<1>12. CASE PlannerPanics
  BY <1>12 DEF PlannerPanics
<1>13. CASE UNCHANGED vars
  <2>1. UNCHANGED <<turned, poll, prev_known, prev_capacity, plan_trigger,
                    signal_trigger_sent, channel, wake_trigger, planner>>
    BY <1>13 DEF vars
  <2>2. FlagsTyped'
    BY <2>1, Zenon
  <2>3. ValuesTyped'
    BY <2>1, Zenon
  <2>4. PlacesTyped'
    BY <2>1, Zenon
  <2> QED
    BY <2>2, <2>3, <2>4
<1> QED
  BY <1>1, <1>2, <1>3, <1>4, <1>5, <1>6, <1>7, <1>8, <1>9, <1>10, <1>11, <1>12, <1>13
     DEF Next, PollStep, PlannerStep, Environment

LEMMA CountsTypedStep == CountsTyped /\ [Next]_vars => CountsTyped'
<1> SUFFICES ASSUME CountsTyped, [Next]_vars
             PROVE  CountsTyped'
  OBVIOUS
<1>1. Decay \in Nat /\ MaxChanges \in Nat /\ MaxPlannerPanics \in Nat
  BY BoundsAssumption
<1> USE DEF CountsTyped, panicVars
<1>2. CASE AdoptIfWarranted
  BY <1>1, <1>2 DEF AdoptIfWarranted
<1>3. CASE PlannerPanics
  BY <1>1, <1>3 DEF PlannerPanics
<1>4. CASE \/ \E e \in Events : EditEvent(e)
           \/ TurnOver
           \/ \E o \in Objectives : SetObjective(o)
           \/ \E t \in OtherTriggers : OtherTrigger(t)
  BY <1>1, <1>4 DEF EditEvent, TurnOver, SetObjective, OtherTrigger
<1>5. ASSUME UNCHANGED <<age, changes, planner_panics>>
      PROVE  CountsTyped'
  BY <1>5
<1>6. CASE PollStep \/ PollPanics \/ UNCHANGED vars
  <2>1. UNCHANGED <<age, changes, planner_panics>>
    BY <1>6 DEF PollStep, Fetch, SetPlannedTariffs, SetPlannedCapacityLimits, SetAlertWindows,
       SendAlert, SetSimpleWindows, SendSimple, SetDispatchWindows, FinishPoll, PollPanics, vars
  <2> QED
    BY <1>5, <2>1
<1>7. CASE PlannerStep /\ ~AdoptIfWarranted
  <2>1. UNCHANGED <<age, changes, planner_panics>>
    BY <1>7 DEF PlannerStep, HoldRateChange, ReadCycleState, ReadLimits, ReadAlerts, ReadSimple,
       Assemble, Solve, WakeOnTrigger, WakeOnReplanGrid
  <2> QED
    BY <1>5, <2>1
<1> QED
  BY <1>2, <1>3, <1>4, <1>6, <1>7 DEF Next, Environment

LEMMA LoopsTypedHolds == Spec => [](LoopsTyped /\ CountsTyped)
<1>1. Init => LoopsTyped
  BY NothingTyped, NoPictureTyped DEF Init, LoopsTyped, Triggers
<1>2. Init => CountsTyped
  BY BoundsAssumption DEF Init, CountsTyped
<1>3. LoopsTyped /\ PollTyped /\ [Next]_vars => LoopsTyped'
  BY LoopsTypedStep
<1>4. CountsTyped /\ [Next]_vars => CountsTyped'
  BY CountsTypedStep
<1> QED
  BY <1>1, <1>2, <1>3, <1>4, TypedHolds, PTL DEF Spec

\* The two loops and what they share are always in a state the code can produce.
THEOREM TypeCorrect == Spec => []TypeOK
<1>1. PlanTyped /\ PollTyped /\ LoopsTyped /\ CountsTyped /\ PanicsTyped => TypeOK
  BY DEF PlanTyped, PollTyped, LoopsTyped, CountsTyped, PanicsTyped, TypeOK
<1> QED
  BY <1>1, LoopsTypedHolds, TypedHolds, GridInvHolds, PTL

-----------------------------------------------------------------------------
(* The plan follows the grid                                               *)

Followed == {"price", "limit", "alert"}

\* The planner has a trigger to wake for, or the poll under way will send one.
TriggerToCome ==
    \/ changed
    \/ poll = "announce alerts"
    \/ poll # "fetch" /\ plan_trigger # "none" /\ ~signal_trigger_sent

\* The followed kinds the planner's cycle has read.
ReadSoFar ==
    CASE planner = "limits" -> {"price"}
      [] planner = "alerts" -> {"price", "limit"}
      [] planner \in {"simple", "solve", "adopt"} -> Followed
      [] OTHER -> {}

Agrees(reading, kinds) == \A e \in Events : Kind[e] \in kinds => reading[e] = grid[e]

\* What the cycle has read, and the plan in force, are what the grid says, or
\* a trigger is to come; a plan in force may also be behind while the cycle that
\* replaces it, which a trigger woke, runs.
CycleIsFresh == TriggerToCome \/ Agrees(plan.reading, ReadSoFar)

PlanIsFresh ==
    \/ TriggerToCome
    \/ planner # "wait" /\ wake_trigger # "Periodic"
    \/ Agrees(active_plan.reading, Followed)

ChannelInv ==
    /\ changed => sent
    /\ sent => channel # "Periodic"
    /\ wake_trigger # "Periodic" => sent

\* Where every solve succeeds, the gate sees solved plans only.
SolvedInv ==
    /\ planner = "adopt" => plan.solved
    /\ active_plan # NoPlan => active_plan.solved

\* Rates and limits are those of the last reading, but for those that this
\* poll, which then has a trigger to send, is still to write.
KnownInv ==
    /\ poll # "fetch" => prev_known = fetched
    /\ poll \in {"fetch", "tariffs", "limits", "alerts", "announce alerts"} =>
            ~signal_trigger_sent
    /\ \A e \in Events :
            grid[e] # prev_known[e] =>
                /\ Kind[e] = "price" => poll = "tariffs" /\ plan_trigger # "none"
                /\ Kind[e] = "limit" => poll \in {"tariffs", "limits"} /\ plan_trigger # "none"

FollowInv == CycleIsFresh /\ PlanIsFresh /\ ChannelInv /\ SolvedInv /\ KnownInv

LEMMA ChannelStep ==
    ASSUME ChannelInv, LoopsTyped, [Next]_vars
    PROVE  ChannelInv'
<1> USE DEF ChannelInv
<1>0. ASSUME UNCHANGED <<channel, sent, changed, wake_trigger>>
      PROVE  ChannelInv'
  BY <1>0, ZenonT(30)
<1>1. CASE Fetch \/ SetPlannedTariffs \/ SetPlannedCapacityLimits \/ SetAlertWindows
  <2>1. UNCHANGED <<channel, sent, changed, wake_trigger>>
    BY <1>1 DEF Fetch, SetPlannedTariffs, SetPlannedCapacityLimits, SetAlertWindows, channelVars,
                loopVars
  <2> QED
    BY <1>0, <2>1
<1>2. CASE SendAlert \/ SetSimpleWindows \/ SendSimple
  BY <1>2 DEF SendAlert, SetSimpleWindows, SendSimple, Send, channelVars, loopVars
<1>3. CASE SetDispatchWindows \/ FinishPoll
  BY <1>3 DEF SetDispatchWindows, FinishPoll, Send, LoopsTyped, channelVars, loopVars
<1>4. CASE PollPanics \/ (\E e \in Events : EditEvent(e)) \/ TurnOver \/ UNCHANGED vars
  BY <1>4 DEF PollPanics, EditEvent, TurnOver, vars, channelVars, loopVars
<1>5. ASSUME NEW o \in Objectives, SetObjective(o)
      PROVE  ChannelInv'
  BY <1>5 DEF SetObjective, Send, loopVars
<1>6. ASSUME NEW t \in OtherTriggers, OtherTrigger(t)
      PROVE  ChannelInv'
  <2>1. t # "Periodic"
    BY EventsAssumption
  <2> QED
    BY <1>6, <2>1 DEF OtherTrigger, Send, loopVars
<1>7. CASE HoldRateChange \/ ReadCycleState \/ ReadLimits \/ ReadAlerts \/ ReadSimple
           \/ Solve \/ AdoptIfWarranted
  <2>1. UNCHANGED <<channel, sent, changed, wake_trigger>>
    BY <1>7 DEF HoldRateChange, ReadCycleState, ReadLimits, ReadAlerts, ReadSimple, Assemble, Solve,
       AdoptIfWarranted, channelVars
  <2> QED
    BY <1>0, <2>1
<1>8. CASE WakeOnTrigger \/ WakeOnReplanGrid
  BY <1>8 DEF WakeOnTrigger, WakeOnReplanGrid, channelVars
<1>9. CASE PlannerPanics
  BY <1>9 DEF PlannerPanics
<1> QED
  BY <1>1, <1>2, <1>3, <1>4, <1>5, <1>6, <1>7, <1>8, <1>9
     DEF Next, PollStep, PlannerStep, Environment

LEMMA SolvedStep ==
    ASSUME SolverFails = FALSE, SolvedInv, PlanTyped, [Next]_vars
    PROVE  SolvedInv'
<1>1. CASE Solve
  <2>1. plan'.solved
    BY <1>1 DEF Solve, PlanTyped, Plans
  <2> QED
    BY <1>1, <2>1 DEF Solve, SolvedInv
<1>2. CASE AdoptIfWarranted
  BY <1>2 DEF AdoptIfWarranted, SolvedInv
<1>3. CASE HoldRateChange \/ ReadCycleState \/ ReadLimits \/ ReadAlerts \/ ReadSimple
  BY <1>3 DEF HoldRateChange, ReadCycleState, ReadLimits, ReadAlerts, ReadSimple, Assemble,
              SolvedInv
<1>4. CASE WakeOnTrigger \/ WakeOnReplanGrid \/ PlannerPanics
  BY <1>4 DEF WakeOnTrigger, WakeOnReplanGrid, PlannerPanics, SolvedInv
<1>5. CASE \/ PollStep \/ PollPanics \/ TurnOver
           \/ \E e \in Events : EditEvent(e)
           \/ \E o \in Objectives : SetObjective(o)
           \/ \E t \in OtherTriggers : OtherTrigger(t)
           \/ UNCHANGED vars
  <2>1. UNCHANGED <<active_plan, planner, plan>>
    BY <1>5, PollLeavesPlans DEF PollPanics, TurnOver, EditEvent, SetObjective, OtherTrigger, vars,
       loopVars
  <2> QED
    BY <2>1 DEF SolvedInv
<1> QED
  BY <1>1, <1>2, <1>3, <1>4, <1>5 DEF Next, PlannerStep, Environment

LEMMA NoPollPanic == ASSUME MaxPollPanics = 0, PanicsTyped PROVE ~PollPanics
BY DEF PanicsTyped, PollPanics

\* A step outside the poll leaves what it knows.
LEMMA KnownFrame ==
    ASSUME KnownInv, UNCHANGED <<pollVars, grid>>
    PROVE  KnownInv'
BY DEF KnownInv, pollVars, prevVars

LEMMA KnownStep ==
    ASSUME MaxPollPanics = 0, PanicsTyped, PollTyped, LoopsTyped, KnownInv, [Next]_vars
    PROVE  KnownInv'
<1>1. CASE Fetch
  <2>1. /\ prev_known' = fetched' /\ prev_known' = vtn /\ grid' = grid /\ poll' = "tariffs"
        /\ signal_trigger_sent' = signal_trigger_sent /\ poll = "fetch"
        /\ plan_trigger' = PlanTrigger(vtn, turned)
    BY <1>1 DEF Fetch
  <2>2. CASE plan_trigger' = "none"
    <3>1. vtn = prev_known
      BY <2>1, <2>2 DEF PlanTrigger
    <3> QED
      BY <2>1, <3>1 DEF KnownInv
  <2>3. CASE plan_trigger' # "none"
    BY <2>1, <2>3 DEF KnownInv
  <2> QED
    BY <2>2, <2>3
<1>2. CASE SetPlannedTariffs
  <2>1. \A e \in Events : grid'[e] = IF Kind[e] = "price" THEN fetched[e] ELSE grid[e]
    BY <1>2 DEF SetPlannedTariffs, Replaced
  <2>2. /\ poll = "tariffs" /\ poll' = "limits"
        /\ UNCHANGED <<prev_known, fetched, plan_trigger, signal_trigger_sent>>
    BY <1>2 DEF SetPlannedTariffs, prevVars
  <2> QED
    BY <2>1, <2>2 DEF KnownInv
<1>3. CASE SetPlannedCapacityLimits
  <2>1. \A e \in Events : grid'[e] = IF Kind[e] = "limit" THEN fetched[e] ELSE grid[e]
    BY <1>3 DEF SetPlannedCapacityLimits, Replaced
  <2>2. /\ poll = "limits" /\ poll' = "alerts"
        /\ UNCHANGED <<prev_known, fetched, plan_trigger, signal_trigger_sent>>
    BY <1>3 DEF SetPlannedCapacityLimits, prevVars
  <2> QED
    BY <2>1, <2>2 DEF KnownInv
<1>4. CASE SetAlertWindows \/ SetSimpleWindows \/ SetDispatchWindows
  <2>1. \A e \in Events : Kind[e] \in {"price", "limit"} => grid'[e] = grid[e]
    BY <1>4 DEF SetAlertWindows, SetSimpleWindows, SetDispatchWindows, Replaced
  <2>2. /\ poll \in {"alerts", "simple", "dispatch"}
        /\ poll' \in {"announce alerts", "simple", "announce simple", "dispatch", "finish"}
        /\ poll' = "announce alerts" => poll = "alerts"
        /\ UNCHANGED <<prev_known, fetched, plan_trigger, signal_trigger_sent>>
    BY <1>4 DEF SetAlertWindows, SetSimpleWindows, SetDispatchWindows, prevVars
  <2> QED
    BY <2>1, <2>2 DEF KnownInv
<1>5. CASE SendAlert \/ SendSimple
  <2>1. /\ poll \in {"announce alerts", "announce simple"} /\ poll' \in {"simple", "dispatch"}
        /\ UNCHANGED <<prev_known, fetched, grid>>
    BY <1>5 DEF SendAlert, SendSimple
  <2> QED
    BY <2>1 DEF KnownInv
<1>6. CASE FinishPoll
  <2>1. /\ poll = "finish" /\ poll' = "fetch" /\ signal_trigger_sent' = FALSE
        /\ UNCHANGED <<prev_known, fetched, grid>>
    BY <1>6 DEF FinishPoll, prevVars
  <2> QED
    BY <2>1 DEF KnownInv
<1>7. CASE \/ PlannerStep \/ PlannerPanics \/ TurnOver
           \/ \E e \in Events : EditEvent(e)
           \/ \E o \in Objectives : SetObjective(o)
           \/ \E t \in OtherTriggers : OtherTrigger(t)
           \/ UNCHANGED vars
  <2>1. UNCHANGED <<pollVars, grid>>
    BY <1>7 DEF PlannerStep, HoldRateChange, ReadCycleState, ReadLimits, ReadAlerts, ReadSimple,
       Assemble, Solve, AdoptIfWarranted, WakeOnTrigger, WakeOnReplanGrid, PlannerPanics, TurnOver,
       EditEvent, SetObjective, OtherTrigger, vars
  <2> QED
    BY <2>1, KnownFrame
<1> QED
  BY <1>1, <1>2, <1>3, <1>4, <1>5, <1>6, <1>7, NoPollPanic DEF Next, PollStep, Environment

\* Whatever the poll does to a followed kind, it then has a trigger to send.
LEMMA PollOwesTrigger ==
    ASSUME KnownInv, PollTyped, PollStep
    PROVE  \/ TriggerToCome'
           \/ /\ ~TriggerToCome
              /\ \A e \in Events : Kind[e] \in Followed => grid'[e] = grid[e]
<1>1. CASE Fetch
  BY <1>1 DEF Fetch, TriggerToCome, channelVars
<1>2. CASE SetPlannedTariffs
  <2>1. \A e \in Events : grid'[e] = IF Kind[e] = "price" THEN fetched[e] ELSE grid[e]
    BY <1>2 DEF SetPlannedTariffs, Replaced
  <2>2. /\ poll = "tariffs" /\ poll' = "limits"
        /\ UNCHANGED <<fetched, plan_trigger, signal_trigger_sent, changed>>
    BY <1>2 DEF SetPlannedTariffs, prevVars, channelVars
  <2> QED
    BY <2>1, <2>2 DEF KnownInv, TriggerToCome
<1>3. CASE SetPlannedCapacityLimits
  <2>1. \A e \in Events : grid'[e] = IF Kind[e] = "limit" THEN fetched[e] ELSE grid[e]
    BY <1>3 DEF SetPlannedCapacityLimits, Replaced
  <2>2. /\ poll = "limits" /\ poll' = "alerts"
        /\ UNCHANGED <<fetched, plan_trigger, signal_trigger_sent, changed>>
    BY <1>3 DEF SetPlannedCapacityLimits, prevVars, channelVars
  <2> QED
    BY <2>1, <2>2 DEF KnownInv, TriggerToCome
<1>4. CASE SetAlertWindows
  <2>1. poll = "alerts" /\ UNCHANGED <<plan_trigger, signal_trigger_sent, changed>>
    BY <1>4 DEF SetAlertWindows, prevVars, channelVars
  <2>2. poll' = "announce alerts" \/ (poll' = "simple" /\ grid' = grid)
    BY <1>4 DEF SetAlertWindows
  <2> QED
    BY <2>1, <2>2 DEF TriggerToCome
<1>5. CASE SetSimpleWindows \/ SetDispatchWindows
  <2>1. \A e \in Events : Kind[e] \in Followed => grid'[e] = grid[e]
    BY <1>5 DEF SetSimpleWindows, SetDispatchWindows, Replaced, Followed
  <2>2. /\ poll \in {"simple", "dispatch"} /\ poll' \in {"announce simple", "dispatch", "finish"}
        /\ UNCHANGED <<plan_trigger, signal_trigger_sent, changed>>
    BY <1>5 DEF SetSimpleWindows, SetDispatchWindows, prevVars, channelVars
  <2> QED
    BY <2>1, <2>2 DEF TriggerToCome
<1>6. CASE SendAlert
  BY <1>6 DEF SendAlert, Send, TriggerToCome
<1>7. CASE SendSimple
  BY <1>7 DEF SendSimple, Send, TriggerToCome, channelVars
<1>8. CASE FinishPoll
  BY <1>8 DEF FinishPoll, Send, TriggerToCome, channelVars
<1> QED
  BY <1>1, <1>2, <1>3, <1>4, <1>5, <1>6, <1>7, <1>8 DEF PollStep

\* The planner leaves the poll and the grid, and forgets a trigger only when it
\* wakes for it.
LEMMA PlannerKeepsTriggers ==
    ASSUME PlannerStep, ~WakeOnTrigger
    PROVE  UNCHANGED <<grid, TriggerToCome>>
<1>1. UNCHANGED <<grid, changed, poll, plan_trigger, signal_trigger_sent>>
  BY DEF PlannerStep, HoldRateChange, ReadCycleState, ReadLimits, ReadAlerts, ReadSimple, Assemble,
     Solve, AdoptIfWarranted, WakeOnReplanGrid, pollVars, channelVars
<1> QED
  BY <1>1, Zenon DEF TriggerToCome

\* Nor does anything outside the two loops, a restart of the planner included.
OtherStep ==
    \/ TurnOver \/ UNCHANGED vars
    \/ \E e \in Events : EditEvent(e)
    \/ \E o \in Objectives : SetObjective(o)
    \/ \E t \in OtherTriggers : OtherTrigger(t)

LEMMA OthersKeepTriggers ==
    ASSUME OtherStep \/ PlannerPanics, ChannelInv
    PROVE  UNCHANGED grid /\ (TriggerToCome => TriggerToCome')
<1>1. UNCHANGED <<grid, poll, plan_trigger, signal_trigger_sent>>
  BY DEF OtherStep, TurnOver, EditEvent, SetObjective, OtherTrigger, PlannerPanics, vars, pollVars
<1>2. changed => changed'
  BY DEF OtherStep, TurnOver, EditEvent, SetObjective, OtherTrigger, PlannerPanics, vars, Send,
         channelVars, ChannelInv
<1> QED
  BY <1>1, <1>2 DEF TriggerToCome

LEMMA OthersKeepPlans ==
    ASSUME OtherStep
    PROVE  UNCHANGED <<active_plan, planner, wake_trigger, plan>>
BY DEF OtherStep, TurnOver, EditEvent, SetObjective, OtherTrigger, vars, loopVars

LEMMA CycleStep ==
    ASSUME MaxPollPanics = 0, PanicsTyped, CycleIsFresh, KnownInv, PollTyped, PlanTyped, ChannelInv,
           [Next]_vars
    PROVE  CycleIsFresh'
<1>1. CASE PollStep
  <2>1. UNCHANGED <<planner, plan>>
    BY <1>1, PollLeavesPlans
  <2>2. UNCHANGED ReadSoFar /\ ReadSoFar \subseteq Followed
    BY <2>1 DEF ReadSoFar, Followed
  <2> QED
    BY <1>1, <2>1, <2>2, PollOwesTrigger DEF CycleIsFresh, Agrees
<1>2. CASE ReadCycleState
  <2>1. plan'.reading = [e \in Events |-> IF Kind[e] = "price" THEN grid[e] ELSE 0]
    BY <1>2 DEF ReadCycleState
  <2>2. ReadSoFar' = {"price"} /\ grid' = grid
    BY <1>2 DEF ReadCycleState, ReadSoFar
  <2> QED
    BY <2>1, <2>2 DEF CycleIsFresh, Agrees
<1>3. ASSUME NEW kind, NEW next, Assemble(kind, next), UNCHANGED TriggerToCome,
             ReadSoFar' = ReadSoFar \cup {kind}
      PROVE  CycleIsFresh'
  <2>1. plan'.reading = Read(kind) /\ grid' = grid
    BY <1>3 DEF Assemble, PlanTyped, Plans
  <2>2. \A e \in Events :
           plan'.reading[e] = IF Kind[e] = kind THEN grid[e] ELSE plan.reading[e]
    BY <2>1 DEF Read
  <2> QED
    BY <1>3, <2>1, <2>2 DEF CycleIsFresh, Agrees
<1>4. CASE ReadLimits \/ ReadAlerts
  <2>1. ~WakeOnTrigger /\ PlannerStep
    BY <1>4 DEF ReadLimits, ReadAlerts, Assemble, WakeOnTrigger, PlannerStep
  <2>2. UNCHANGED TriggerToCome
    BY <2>1, PlannerKeepsTriggers
  <2>3. CASE ReadLimits
    <3>1. ReadSoFar' = ReadSoFar \cup {"limit"}
      BY <2>3 DEF ReadLimits, Assemble, ReadSoFar
    <3> QED
      BY <1>3, <2>2, <2>3, <3>1 DEF ReadLimits
  <2>4. CASE ReadAlerts
    <3>1. ReadSoFar' = ReadSoFar \cup {"alert"}
      BY <2>4 DEF ReadAlerts, Assemble, ReadSoFar, Followed
    <3> QED
      BY <1>3, <2>2, <2>4, <3>1 DEF ReadAlerts
  <2> QED
    BY <1>4, <2>3, <2>4
<1>5. ASSUME UNCHANGED <<grid, TriggerToCome>>, ReadSoFar' = ReadSoFar, ReadSoFar = Followed,
             \A e \in Events : Kind[e] \in Followed => plan'.reading[e] = plan.reading[e]
      PROVE  CycleIsFresh'
  BY <1>5 DEF CycleIsFresh, Agrees
<1>6. CASE ReadSimple
  <2>1. ~WakeOnTrigger /\ PlannerStep
    BY <1>6 DEF ReadSimple, Assemble, WakeOnTrigger, PlannerStep
  <2>2. UNCHANGED <<grid, TriggerToCome>>
    BY <2>1, PlannerKeepsTriggers
  <2>3. ReadSoFar' = ReadSoFar /\ ReadSoFar = Followed
    BY <1>6 DEF ReadSimple, Assemble, ReadSoFar
  <2>4. plan'.reading = Read("simple")
    BY <1>6 DEF ReadSimple, Assemble, PlanTyped, Plans
  <2> QED
    BY <1>5, <2>2, <2>3, <2>4 DEF Read, Followed
<1>7. CASE Solve
  <2>1. ~WakeOnTrigger /\ PlannerStep
    BY <1>7 DEF Solve, WakeOnTrigger, PlannerStep
  <2>2. UNCHANGED <<grid, TriggerToCome>>
    BY <2>1, PlannerKeepsTriggers
  <2>3. ReadSoFar' = ReadSoFar /\ ReadSoFar = Followed
    BY <1>7 DEF Solve, ReadSoFar
  <2>4. plan'.reading = Read("dispatch") \/ plan'.reading = plan.reading
    BY <1>7 DEF Solve, PlanTyped, Plans
  <2> QED
    BY <1>5, <2>2, <2>3, <2>4 DEF Read, Followed
<1>8. CASE HoldRateChange \/ AdoptIfWarranted \/ WakeOnTrigger \/ WakeOnReplanGrid
  <2>1. ReadSoFar' = {}
    BY <1>8 DEF HoldRateChange, AdoptIfWarranted, WakeOnTrigger, WakeOnReplanGrid, ReadSoFar
  <2> QED
    BY <2>1 DEF CycleIsFresh, Agrees
<1>9. CASE PlannerPanics
  <2>1. ReadSoFar' = {}
    BY <1>9 DEF PlannerPanics, ReadSoFar
  <2> QED
    BY <2>1 DEF CycleIsFresh, Agrees
<1>10. CASE OtherStep
  <2>1. UNCHANGED <<planner, plan>>
    BY <1>10, OthersKeepPlans
  <2>2. ReadSoFar' = ReadSoFar
    BY <2>1 DEF ReadSoFar
  <2> QED
    BY <1>10, <2>1, <2>2, OthersKeepTriggers DEF CycleIsFresh, Agrees
<1> QED
  BY <1>1, <1>2, <1>4, <1>6, <1>7, <1>8, <1>9, <1>10, NoPollPanic
     DEF Next, PlannerStep, Environment, OtherStep

LEMMA FreshStep ==
    ASSUME MaxPollPanics = 0, PanicsTyped, SolverFails = FALSE, FollowInv, PollTyped, PlanTyped,
           [Next]_vars
    PROVE  PlanIsFresh'
<1> USE DEF FollowInv
<1>1. CASE PollStep
  <2>1. UNCHANGED <<active_plan, planner, wake_trigger>>
    BY <1>1, PollLeavesPlans DEF PollStep, Fetch, SetPlannedTariffs, SetPlannedCapacityLimits,
       SetAlertWindows, SendAlert, SetSimpleWindows, SendSimple, SetDispatchWindows, FinishPoll,
       loopVars
  <2> QED
    BY <1>1, <2>1, PollOwesTrigger DEF PlanIsFresh, Agrees
<1>2. CASE AdoptIfWarranted
  <2>1. ~WakeOnTrigger /\ PlannerStep
    BY <1>2 DEF AdoptIfWarranted, WakeOnTrigger, PlannerStep
  <2>2. UNCHANGED <<grid, TriggerToCome>>
    BY <2>1, PlannerKeepsTriggers
  <2>3. CASE active_plan' = plan
    <3>1. ReadSoFar = Followed
      BY <1>2 DEF AdoptIfWarranted, ReadSoFar
    <3> QED
      BY <2>2, <2>3, <3>1 DEF CycleIsFresh, PlanIsFresh, Agrees
  <2>4. CASE active_plan # NoPlan /\ ~MustAdopt(active_plan, plan) /\ active_plan' = active_plan
    <3>1. plan.solved /\ active_plan.solved
      BY <1>2, <2>4 DEF AdoptIfWarranted, SolvedInv
    <3>2. wake_trigger = "Periodic"
      BY <2>4, <3>1 DEF MustAdopt
    <3> QED
      BY <2>2, <2>4, <3>2 DEF PlanIsFresh, Agrees
  <2> QED
    BY <1>2, <2>3, <2>4 DEF AdoptIfWarranted
<1>3. CASE WakeOnTrigger
  <2>1. planner' # "wait" /\ wake_trigger' # "Periodic"
    BY <1>3 DEF WakeOnTrigger, ChannelInv
  <2> QED
    BY <2>1 DEF PlanIsFresh
<1>4. CASE WakeOnReplanGrid
  <2>1. planner = "wait" /\ UNCHANGED <<active_plan, grid>>
    BY <1>4 DEF WakeOnReplanGrid
  <2>2. TriggerToCome => TriggerToCome'
    BY <1>4 DEF WakeOnReplanGrid, TriggerToCome, pollVars, channelVars
  <2> QED
    BY <2>1, <2>2 DEF PlanIsFresh, Agrees
<1>5. CASE HoldRateChange \/ ReadCycleState \/ ReadLimits \/ ReadAlerts \/ ReadSimple \/ Solve
  <2>1. /\ UNCHANGED <<active_plan, wake_trigger>>
        /\ planner # "wait" /\ planner' # "wait"
    BY <1>5 DEF HoldRateChange, ReadCycleState, ReadLimits, ReadAlerts, ReadSimple, Assemble, Solve
  <2>2. ~WakeOnTrigger /\ PlannerStep
    BY <1>5, <2>1 DEF WakeOnTrigger, PlannerStep
  <2>3. UNCHANGED <<grid, TriggerToCome>>
    BY <2>2, PlannerKeepsTriggers
  <2> QED
    BY <2>1, <2>3 DEF PlanIsFresh, Agrees
<1>6. CASE PlannerPanics
  <2>1. UNCHANGED grid /\ (TriggerToCome => TriggerToCome')
    BY <1>6, OthersKeepTriggers
  <2>2. active_plan' = active_plan /\ changed' = sent
    BY <1>6 DEF PlannerPanics
  <2>3. CASE wake_trigger # "Periodic"
    BY <2>2, <2>3 DEF ChannelInv, PlanIsFresh, TriggerToCome
  <2>4. CASE wake_trigger = "Periodic"
    BY <2>1, <2>2, <2>4 DEF PlanIsFresh, Agrees
  <2> QED
    BY <2>3, <2>4
<1>7. CASE OtherStep
  <2>1. UNCHANGED <<active_plan, planner, wake_trigger>>
    BY <1>7, OthersKeepPlans
  <2> QED
    BY <1>7, <2>1, OthersKeepTriggers DEF PlanIsFresh, Agrees
<1> QED
  BY <1>1, <1>2, <1>3, <1>4, <1>5, <1>6, <1>7, NoPollPanic
     DEF Next, PlannerStep, Environment, OtherStep

\* With both loops at rest, the plan in force is built on the rates, the limits
\* and the alerts in force: for any grid, any number of changes and triggers,
\* and any number of planner restarts, as long as solves succeed and the poll
\* does not panic (spawn_event_poll, spawn_planning, evaluate_acceptance_gate).
THEOREM FollowsGrid ==
    ASSUME MaxPollPanics = 0, SolverFails = FALSE
    PROVE  Spec => []PlanFollowsGrid
<1>1. Init => FollowInv
  <2> SUFFICES ASSUME Init
               PROVE  FollowInv
    OBVIOUS
  <2>1. CycleIsFresh /\ PlanIsFresh
    BY DEF Init, CycleIsFresh, PlanIsFresh, Agrees, ReadSoFar, NoPlan, Nothing, FirstPlan
  <2>2. ChannelInv /\ SolvedInv /\ KnownInv
    BY DEF Init, ChannelInv, SolvedInv, KnownInv
  <2> QED
    BY <2>1, <2>2 DEF FollowInv
<1>2. /\ FollowInv /\ PanicsTyped /\ PollTyped /\ PlanTyped /\ LoopsTyped
      /\ [Next]_vars
      => FollowInv'
  BY ChannelStep, SolvedStep, KnownStep, CycleStep, FreshStep DEF FollowInv
<1>3. FollowInv => PlanFollowsGrid
  BY DEF FollowInv, PlanIsFresh, TriggerToCome, Agrees, Followed, PlanFollowsGrid, AtRest
<1> QED
  BY <1>1, <1>2, <1>3, LoopsTypedHolds, TypedHolds, GridInvHolds, PTL DEF Spec

=============================================================================
