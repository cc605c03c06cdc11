------------------------------- MODULE Arbiter -------------------------------
(***************************************************************************)
(* The simulator tick of a VEN as its control loop: the plan's setpoints,  *)
(* the deviation arbiter's correction or the surplus overlay on top of     *)
(* them, the dispatch window, the comms-loss clamp, the import limit pass  *)
(* and the physics that answers (VEN/src/tasks/sim_tick, controller/       *)
(* arbiter, simulator/mod.rs).  One Tick runs under the simulator's lock   *)
(* and is one step; between ticks the world changes one field at a time.   *)
(***************************************************************************)
EXTENDS ArbiterLevers

CONSTANTS
    Initially,   \* the worlds a behaviour starts in
    Values,      \* for each field of the world, the values it may take
    EvDefault,   \* the charger's default_charge_kw
    PvRated,     \* the array's AC ceiling
    Unlimited,   \* stands for no limit: more than the site can ever import
    MaxChanges   \* bound on how often the world changes

LIMIT_MARGIN == 2               \* 0.1 kW
LIMIT_RELEASE_HYSTERESIS == 4   \* 0.2 kW

\* A plan slot: the planner's allocations, each within its asset's rating.
Slots ==
    [known : BOOLEAN, battery : -Rate..Rate, evAllocated : BOOLEAN, ev : 0..EvMax,
     heater : 0..HeaterMax, net : Int, pvUsed : Nat, pvForecast : Nat, costImport : Int,
     costExport : Int, tariff : Int, maxRevenue : BOOLEAN]

\* Loads that leave Unlimited above all the site can import.
Loads ==
    {kw \in Int : kw + Rate + EvMax + HeaterMax
                    < Unlimited - LIMIT_MARGIN - LIMIT_RELEASE_HYSTERESIS}

\* What the tick reads, field by field: the house's load and the sun, the VTN's
\* import limit, alert and dispatch windows and whether it is lost, the car, the
\* battery's store and the heater's tank, the plan slot and the two switches.
Fields ==
    [load |-> Loads, pv |-> Nat, limit |-> Int, alert |-> BOOLEAN, dispatch |-> Int,
     lost |-> BOOLEAN, plugged |-> BOOLEAN, charged |-> BOOLEAN,
     store |-> {"empty", "low", "middle", "high", "full"}, tank |-> {"cold", "comfort", "hot"},
     slot |-> Slots, overlay |-> BOOLEAN, arbiter |-> BOOLEAN]
IsWorld(w) == DOMAIN w = DOMAIN Fields /\ \A f \in DOMAIN Fields : w[f] \in Fields[f]

ASSUME ArbiterAssumption ==
    /\ EvDefault \in Nat /\ PvRated \in Nat /\ Unlimited \in Nat /\ MaxChanges \in Nat
    /\ \A w \in Initially : IsWorld(w)
    /\ \A f \in DOMAIN Values : f \in DOMAIN Fields /\ Values[f] \subseteq Fields[f]

VARIABLES
    world,    \* what the tick reads: plan slot, limits, windows, asset states
    command,  \* each controlled asset's last setpoint
    pending,  \* the command the charger accepted and has not applied yet
    mode,     \* the heater's emergency mode
    pvLimit,  \* the generation limit the inverter holds
    lever,    \* the deviation pass's lever of the last tick
    limitLever, \* the limit pass's
    bridge,   \* the battery's share that only bridged a lagging command
    outcome,  \* what the last tick measured and reported
    ticks,    \* the tick loop's counter, modulo 2
    changes

vars == <<world, command, pending, mode, pvLimit, lever, limitLever, bridge, outcome, ticks, changes>>

NoDispatch == -Unlimited

-----------------------------------------------------------------------------
(* The tick's inputs                                                       *)

Snapshot ==
    [f \in DOMAIN world \cup {"pending", "mode"} |->
        CASE f = "pending" -> pending [] f = "mode" -> mode [] OTHER -> world[f]]

\* The plan's allocation where a slot covers now, each asset's default elsewhere.
BaseSetpoints ==
    [a \in Assets |->
        IF a = "ev" /\ ~world.slot.evAllocated THEN EvDefault ELSE world.slot[a]]

HardLimit == IF world.alert THEN 0 ELSE world.limit
LimitTarget ==
    HardLimit - LIMIT_MARGIN
        - (IF limitLever \in {"heater_pause", "ev"} THEN LIMIT_RELEASE_HYSTERESIS ELSE 0)

\* The generation limit is the tightest of the plan's curtailment, the
\* arbiter's tightening and the fail-safe's ceiling.
PvGenerationLimit(tighten) ==
    Least(IF world.slot.pvUsed < world.slot.pvForecast THEN world.slot.pvUsed ELSE Unlimited,
    Least(IF tighten > 0 THEN tighten ELSE Unlimited,
          IF world.lost THEN (Percent * PvRated) \div 100 ELSE Unlimited))
Generation(limit) == Least(world.pv, limit)
LivePv == Generation(pvLimit)
LivePvReleased == Generation(PvGenerationLimit(0))

Policy(admits, overrides, obeys, incumbent, bounded) ==
    [admits |-> admits, overrides |-> overrides, obeysObjective |-> obeys,
     incumbent |-> incumbent, bounded |-> bounded]
DeviationPolicy == Policy(Levers, FALSE, TRUE, lever, FALSE)
\* Mutant: the planner's objective applies to a dispatch window too.
DispatchObeysObjective == Policy({"battery"}, FALSE, TRUE, NoLever, FALSE)
DispatchPolicy == Policy({"battery"}, FALSE, FALSE, NoLever, FALSE)
\* Mutant: the limit pass forgets that the fail-safe bounds its levers.
LimitIgnoresFailSafe == Policy(Levers, TRUE, FALSE, limitLever, FALSE)
LimitPolicy == Policy(Levers, TRUE, FALSE, limitLever, world.lost)

-----------------------------------------------------------------------------
(* The passes                                                              *)

\* Both passes steer below the limit; without one, the plan is the target.
DeviationKw(net) == net - Least(world.slot.net, LimitTarget)

Carried == [BaseSetpoints EXCEPT !.battery = command.battery - bridge, !.ev = command.ev]
AtPlan(sp) == [sp EXCEPT !.battery = BaseSetpoints.battery, !.ev = BaseSetpoints.ev]

DeviationWithoutCorrection(s) ==
    DeviationKw(s.load - LivePvReleased + Drawn(s, "heater", BaseSetpoints.heater)
                + Landed(s, "battery", BaseSetpoints.battery) + Landed(s, "ev", BaseSetpoints.ev))

HoldingLever(sp) ==
    CASE sp.battery # BaseSetpoints.battery -> "battery"
      [] sp.battery = BaseSetpoints.battery /\ sp.ev # BaseSetpoints.ev -> "ev"
      [] OTHER -> NoLever

\* Offer the charger what generation exceeds every other load and the
\* battery's planned charging.
SurplusOverlay(s, sp) ==
    LET others == s.load - LivePv + Drawn(s, "heater", sp.heater)
        surplus == Most(-others - Most(sp.battery, 0), 0)
        charge == Landed(s, "ev", surplus)
        offered == s.overlay /\ ~s.slot.evAllocated /\ surplus >= DEAD_BAND /\ charge > 0
    IN  IF offered THEN [sp EXCEPT !.ev = charge] ELSE sp

\* Mutant: a correction that suffices is held before it is asked whether its
\* cause is gone.
HoldsBeforeItReleases(s) ==
    LET dev == DeviationKw(ProjectedNet(s, Carried, LivePv))
        moved == ApplyRankedLevers(s, DeviationPolicy, Carried, dev)
    IN  IF ~world.slot.known THEN Untouched(SurplusOverlay(s, Carried))
        ELSE IF Abs(dev) < DEAD_BAND THEN [Untouched(Carried) EXCEPT !.lever = HoldingLever(Carried)]
        ELSE IF Abs(DeviationWithoutCorrection(s)) < DEAD_BAND THEN Untouched(AtPlan(Carried))
        ELSE [moved EXCEPT !.lever = IF @ = NoLever THEN HoldingLever(moved.sp) ELSE @]

\* The deviation pass: the carried commands without last tick's bridge; the
\* correction released whole once its cause is gone, held while it suffices,
\* moved by the levers otherwise.
Reconcile(s) ==
    LET dev == DeviationKw(ProjectedNet(s, Carried, LivePv))
        moved == ApplyRankedLevers(s, DeviationPolicy, Carried, dev)
    IN  CASE ~world.slot.known -> Untouched(SurplusOverlay(s, Carried))
          [] world.slot.known /\ Abs(DeviationWithoutCorrection(s)) < DEAD_BAND ->
                Untouched(AtPlan(Carried))
          [] world.slot.known /\ Abs(DeviationWithoutCorrection(s)) >= DEAD_BAND
             /\ Abs(dev) < DEAD_BAND ->
                [Untouched(Carried) EXCEPT !.lever = HoldingLever(Carried)]
          [] OTHER -> [moved EXCEPT !.lever = IF @ = NoLever THEN HoldingLever(moved.sp) ELSE @]

Propose(s) ==
    IF world.arbiter THEN Reconcile(s) ELSE Untouched(SurplusOverlay(s, BaseSetpoints))

\* A dispatch window is met by storage alone; an alert outranks it.
DispatchOverride(s, sp) ==
    IF world.alert \/ world.dispatch = NoDispatch THEN sp
    ELSE ApplyRankedLevers(s, DispatchPolicy, sp, ProjectedNet(s, sp, LivePv) - world.dispatch).sp

CommsLossClamp(sp) ==
    IF world.lost
    THEN [a \in Assets |-> Clamped(sp[a], FailSafeFloor(a), FailSafeCeiling(a))]
    ELSE sp

\* The limit pass projects PV after the tightening of the deviation pass.
EnforceImportLimit(s, sp, tighten) ==
    LET pv == Most(LivePv - tighten, 0)
        excess == ProjectedNet(s, sp, pv) - LimitTarget
    IN  IF excess < DEAD_BAND THEN Untouched(sp) ELSE ApplyRankedLevers(s, LimitPolicy, sp, excess)

\* The charger's command is held where it lands, a tick later.
HoldWhereCommandsLand(s, w) ==
    LET excess == ProjectedLandedNet(s, w.sp, LivePv) - LimitTarget
        target == EvTarget(s, w, excess)
        landing == Abs(Landed(s, "ev", Most(w.sp.ev, 0)) - target)
    IN  IF excess < DEAD_BAND THEN w
        ELSE [w EXCEPT !.sp.ev = target,
                       !.lever = IF @ = NoLever /\ landing > 0 THEN "ev" ELSE @]

-----------------------------------------------------------------------------
(* The physics                                                             *)

\* The battery follows its setpoint within its rates until it is full or empty.
BatteryStep(kw) ==
    LET held == Clamped(kw, -Rate, Rate)
    IN  IF (held > 0 /\ world.store = "full") \/ (held < 0 /\ world.store = "empty") THEN 0 ELSE held

\* Charging leaves the empty battery with something to give, and the reverse.
StoreAfter(kw) ==
    CASE kw > 0 /\ world.store = "empty" -> "low"
      [] kw < 0 /\ world.store = "full" -> "high"
      [] OTHER -> world.store

HeaterStep(s, kw, newMode) == Drawn([s EXCEPT !.mode = newMode], "heater", kw)

-----------------------------------------------------------------------------

Init ==
    /\ world \in Initially
    /\ command = [a \in Assets |-> IF a = "ev" THEN EvDefault ELSE 0]
    /\ pending = EvMax
    /\ mode = "normal"
    /\ pvLimit = Unlimited
    /\ lever = NoLever /\ limitLever = NoLever
    /\ bridge = 0
    /\ outcome = [net |-> 0, limit |-> Unlimited, unresolved |-> 0, lost |-> FALSE, dispatch |-> NoDispatch]
    /\ ticks = 0 /\ changes = 0

\* Each stage of the tick is bound to its one value.
Tick ==
    \E s \in {Snapshot} : \E proposed \in {Propose(s)} :
    \E dispatched \in {DispatchOverride(s, proposed.sp)} :
    \E enforced \in {EnforceImportLimit(s, CommsLossClamp(dispatched), proposed.tighten)} :
    \E final \in {HoldWhereCommandsLand(s, enforced)} :
    LET newMode == IF enforced.mode # "normal" THEN enforced.mode ELSE proposed.mode
        newPvLimit == PvGenerationLimit(proposed.tighten)
        stored == BatteryStep(final.sp.battery)
        evDraws == Drawn(s, "ev", final.sp.ev)
    IN  /\ command' = final.sp
        /\ pending' = IF world.plugged THEN Landed(s, "ev", final.sp.ev) ELSE 0
        /\ mode' = newMode
        /\ pvLimit' = newPvLimit
        /\ lever' = proposed.lever
        /\ limitLever' = final.lever
        /\ bridge' = proposed.bridge + enforced.bridge
        /\ outcome' = [net |-> world.load - Generation(newPvLimit) + stored + evDraws
                                + HeaterStep(s, final.sp.heater, newMode),
                       limit |-> HardLimit,
                       unresolved |-> Most(enforced.left, 0),
                       lost |-> world.lost,
                       dispatch |-> IF world.alert THEN NoDispatch ELSE world.dispatch]
        /\ world' = [world EXCEPT !.store = StoreAfter(stored)]
        /\ ticks' = 1 - ticks
        /\ UNCHANGED changes

\* The world moves on between ticks: load, sun, plan, events, connection,
\* plug and switches change at will, stores and temperature by a step.
Neighbours(f) ==
    CASE f = "store" -> {{"empty", "low"}, {"low", "middle"}, {"middle", "high"}, {"high", "full"}}
      [] f = "tank" -> {{"cold", "comfort"}, {"comfort", "hot"}}
      [] OTHER -> {Values[f]}
Change(f) ==
    /\ changes < MaxChanges
    /\ \E v \in Values[f] \ {world[f]} :
        /\ \E n \in Neighbours(f) : {v, world[f]} \subseteq n
        /\ world' = [world EXCEPT ![f] = v]
    /\ changes' = changes + 1
    /\ UNCHANGED <<command, pending, mode, pvLimit, lever, limitLever, bridge, outcome, ticks>>

Next == Tick \/ \E f \in DOMAIN Values : Change(f)

Spec == Init /\ [][Next]_vars

\* The tick loop runs on a timer and awaits nothing that can be withheld: its
\* counter moves for ever, and only a Tick moves it.
CounterMoves == ticks' = 1 - ticks
FairSpec == Spec /\ WF_ticks(CounterMoves)

-----------------------------------------------------------------------------
(* What the passes promise                                                 *)

\* The commands stay within what the assets are rated for, but for the battery's:
\* a stage that overwrites its command does not take back the bridge in it, and
\* the next tick subtracts that bridge from a command that never held it.  The
\* command winds up by one charger at most.  The modes and levers are those the
\* tick knows.
WindUp == Rate + EvMax
TypeOK ==
    /\ IsWorld(world)
    /\ command \in [Assets -> Int]
    /\ command.battery \in -WindUp..WindUp /\ command.battery - bridge \in -WindUp..WindUp
    /\ command.ev \in 0..Most(EvMax, EvDefault)
    /\ command.heater \in 0..HeaterMax
    /\ bridge \in -EvMax..EvMax
    /\ pending \in {0, EvMax} \cup EvMin..EvMax
    /\ mode \in {"normal", "curtail", "absorb"}
    /\ pvLimit \in Nat
    /\ lever \in Levers \cup {NoLever} /\ limitLever \in Levers \cup {NoLever}

\* Four ticks in which the projection of the limit pass is not what the site
\* then draws.  It lowers the charging setpoint of a battery that is too full
\* to charge at it, or that a bridge wound up beyond its rate, and counts the
\* difference as shed;
ShedsUndrawnCharge ==
    \/ BaseSetpoints.battery > Ceiling(Snapshot, "battery")
    \/ world.arbiter /\ Carried.battery > Ceiling(Snapshot, "battery")
\* it counts a cold heater curtailed in the tick before as still off;
ReleasesColdHeater == world.tank = "cold" /\ mode = "curtail"
\* it counts a hot heater as off that the deviation pass lets absorb from this
\* tick on;
TurnsHotHeater == world.tank = "hot" /\ (mode = "absorb") # (mode' = "absorb")
AdmitsHotHeater == TurnsHotHeater /\ mode' = "absorb"
\* and it reads generation as the inverter's last limit left it.
GenerationDrops == Generation(pvLimit') < LivePv

\* What the pass could not shed is reported: a tick that reports nothing left
\* over ends with the site's import at or below the limit in force.  (limit.rs,
\* LimitPassOutcome: "Reported, never hidden".)
NeverHidden == outcome.unresolved < DEAD_BAND => outcome.net <= outcome.limit

\* Whatever the plan, the deviation pass and the dispatch window asked for
\* before it, and however the charger lags, a tick keeps the import limit in
\* force or reports what it could not shed, but for the four cases above.
KeepsTheLimit ==
    [][changes' = changes /\ ~ShedsUndrawnCharge /\ ~ReleasesColdHeater /\ ~AdmitsHotHeater
        /\ ~GenerationDrops => NeverHidden']_vars

\* While the VTN is lost no command leaves the fail-safe's share of the asset's
\* rating, although the limit pass moves the commands after the clamp.
StaysInFailSafe ==
    outcome.lost => \A a \in Assets : command[a] \in FailSafeFloor(a)..FailSafeCeiling(a)

\* Once the world rests and the plan fits what the site measures without a
\* correction, the correction ends: levers whose answers feed back into the next
\* measurement, the lagging charger and the bridge do not keep one another in
\* force.
PlanFits ==
    /\ world.arbiter /\ world.dispatch = NoDispatch /\ ~world.lost /\ HardLimit = Unlimited
    /\ Abs(DeviationWithoutCorrection(Snapshot)) < DEAD_BAND
CorrectionEnds == <>[](PlanFits => command = BaseSetpoints)

\* A battery answers a dispatch within the range it reports, unless it is empty
\* or full: an empty one that charges is not asked to charge less.
StorageAnswers ==
    /\ world.store \notin {"empty", "full"}
    /\ {BaseSetpoints.battery, Carried.battery}
            \subseteq Floor(Snapshot, "battery")..Ceiling(Snapshot, "battery")

\* A tick inside a dispatch window ends within the dead band of its setpoint, or
\* with the battery commanded to the end of its range: whatever the surplus
\* overlay or the deviation pass did before, and however much of it the charger
\* still owes.
DispatchIsMet ==
    [][changes' = changes /\ outcome'.dispatch # NoDispatch
        /\ ~world.lost /\ HardLimit = Unlimited
        /\ StorageAnswers /\ ~ReleasesColdHeater /\ ~TurnsHotHeater
        /\ Generation(pvLimit') = LivePv
        => \/ Abs(outcome'.net - world.dispatch) < DEAD_BAND
           \/ outcome'.net > world.dispatch /\ command'.battery <= Floor(Snapshot, "battery")
           \/ outcome'.net < world.dispatch /\ command'.battery >= Ceiling(Snapshot, "battery")]_vars

\* Once the world rests the commands come to rest.  The code does not promise
\* it, and TLC refutes it: under a limit the two steps of the limit pass can
\* answer each other tick by tick, the one moving the battery against a charger
\* that lags, the other the charger against the battery where it lands.
Settles == <>[][command' = command]_vars
=============================================================================
