---------------------------- MODULE ArbiterLevers ----------------------------
(***************************************************************************)
(* What each asset of a VEN's site answers to a setpoint, and the lever    *)
(* loop that every pass of the arbiter runs over those answers             *)
(* (VEN/src/controller/arbiter/ranked.rs, arbiter_levers.rs).              *)
(*                                                                         *)
(* The site has one battery, one EV charger and one heater that take       *)
(* setpoints, beside a base load and a PV array that do not.  Power is an  *)
(* integer number of 50 W units, positive for import; prices are cents per *)
(* kWh.  A snapshot s is a record of what the assets report before the     *)
(* tick, sp a record with the setpoint of each controlled asset.           *)
(***************************************************************************)
EXTENDS Integers, FiniteSets

CONSTANTS
    Rate,        \* the battery's charge and discharge rate
    EvMin,       \* the least rate the charger can sustain (min_charge_kw)
    EvMax,       \* max_charge_kw
    HeaterSteps, \* the powers of the heater's stages
    Percent      \* max_power_pct of the comms-loss fail-safe

ASSUME RatesAssumption == Rate \in Nat /\ EvMin \in Nat /\ EvMax \in Nat
ASSUME StepsAssumption ==
    /\ HeaterSteps \subseteq Nat /\ 0 \in HeaterSteps
    /\ \E p \in HeaterSteps : \A q \in HeaterSteps : q <= p
ASSUME PercentAssumption == Percent \in 0..100

DEAD_BAND == 2                 \* 0.1 kW
LEVER_PREEMPTION_MARGIN == 2   \* 0.02 EUR/kWh
COMFORT_OVERRIDE == 40         \* 0.40 EUR/kWh

Assets == {"battery", "ev", "heater"}
Levers == {"battery", "ev", "heater_pause", "heater_emergency", "pv_curtail"}
NoLever == "none"

Least(x, y) == IF x <= y THEN x ELSE y
Most(x, y) == IF x >= y THEN x ELSE y
Abs(x) == Most(x, -x)
Clamped(x, lo, hi) == Least(Most(x, lo), hi)
HeaterMax == CHOOSE p \in HeaterSteps : \A q \in HeaterSteps : q <= p

-----------------------------------------------------------------------------
(* The assets' answers                                                     *)

\* What the thermostat forces under an emergency mode, whatever is commanded:
\* off above the band unless absorbing, full power below it unless curtailed.
Forces(s, mode) ==
    \/ s.tank = "hot" /\ mode # "absorb"
    \/ s.tank = "cold" /\ mode # "curtail"
ForcedPower(s) == IF s.tank = "cold" THEN HeaterMax ELSE 0

\* A direction counts for the battery only if its full rate can be sustained:
\* nearly full it reports no import capability, nearly empty no export.
Floor(s, a) ==
    IF a = "battery" /\ s.store \notin {"empty", "low"} THEN -Rate ELSE 0
Ceiling(s, a) ==
    CASE a = "battery" -> IF s.store \in {"high", "full"} THEN 0 ELSE Rate
      [] a = "ev" -> IF s.plugged /\ ~s.charged THEN EvMax ELSE 0
      [] a = "heater" -> IF Forces(s, s.mode) THEN ForcedPower(s) ELSE HeaterMax

\* A stepped asset draws the nearest step, a tie going to the higher one.
NearestStep(kw) ==
    CHOOSE p \in HeaterSteps : \A q \in HeaterSteps :
        \/ Abs(p - kw) < Abs(q - kw)
        \/ Abs(p - kw) = Abs(q - kw) /\ q <= p
StepAtOrBelow(kw) ==
    LET reachable == {p \in HeaterSteps : p <= Most(kw, 0)}
    IN  CHOOSE p \in reachable : \A q \in reachable : q <= p

\* Mutant: the charger sustains any rate.
ChargesBelowMinimum(s, a, kw) ==
    LET held == Clamped(kw, Floor(s, a), Ceiling(s, a))
    IN  IF a = "heater" THEN NearestStep(held) ELSE held

\* The power a setpoint produces once the command has landed.
Landed(s, a, kw) ==
    LET held == Clamped(kw, Floor(s, a), Ceiling(s, a)) IN
    CASE a = "battery" -> held
      [] a = "ev" -> IF held < EvMin THEN 0 ELSE held
      [] a = "heater" -> NearestStep(held)

\* The power it produces this tick: the charger still draws the command it
\* accepted last tick, and a forced heater what its thermostat forces.
Drawn(s, a, kw) ==
    CASE a = "ev" -> IF s.plugged THEN s.pending ELSE 0
      [] a = "heater" /\ Forces(s, s.mode) -> ForcedPower(s)
      [] OTHER -> Landed(s, a, kw)

\* The site's net power with generation pv, this tick and once every command
\* has landed.
ProjectedNet(s, sp, pv) ==
    s.load - pv + Drawn(s, "battery", sp.battery) + Drawn(s, "ev", sp.ev)
        + Drawn(s, "heater", sp.heater)
ProjectedLandedNet(s, sp, pv) ==
    s.load - pv + Landed(s, "battery", sp.battery) + Landed(s, "ev", sp.ev)
        + Landed(s, "heater", sp.heater)

\* The comms-loss clamp: each asset within Percent of its rated range.
RatedExport(a) == IF a = "battery" THEN Rate ELSE 0
RatedImport(a) == CASE a = "battery" -> Rate [] a = "ev" -> EvMax [] a = "heater" -> HeaterMax
FailSafeFloor(a) == -((Percent * RatedExport(a)) \div 100)
FailSafeCeiling(a) == (Percent * RatedImport(a)) \div 100

-----------------------------------------------------------------------------
(* The levers.  A pass p says which levers it admits, whether it may cut   *)
(* charging the plan scheduled, whether it follows the planner's objective *)
(* (MaxRevenue refuses discharge), last tick's lever of its own, and       *)
(* whether it must stay inside the fail-safe's bounds.  dev > 0 is import  *)
(* to shed, dev < 0 a surplus to absorb.                                   *)

StorageFloor(s, p) ==
    IF p.bounded THEN Least(Most(Floor(s, "battery"), FailSafeFloor("battery")), 0)
    ELSE Floor(s, "battery")
StorageCeiling(s, p) ==
    IF p.bounded THEN Most(Least(Ceiling(s, "battery"), FailSafeCeiling("battery")), 0)
    ELSE Ceiling(s, "battery")

OffersSurplus(s, p) == p.overrides \/ (s.overlay /\ ~s.slot.evAllocated)

Capacity(s, p, sp, dev, l) ==
    CASE l = "battery" /\ dev > 0 -> sp.battery - StorageFloor(s, p)
      [] l = "battery" /\ dev <= 0 -> StorageCeiling(s, p) - sp.battery
      [] l = "ev" /\ dev < 0 -> Ceiling(s, "ev") - Most(sp.ev, 0)
      [] l = "ev" /\ dev >= 0 -> Most(sp.ev, 0)
      [] l = "heater_pause" -> Drawn(s, "heater", sp.heater)
      [] l = "heater_emergency" /\ dev > 0 -> IF Forces(s, "normal") THEN ForcedPower(s) ELSE 0
      [] l = "heater_emergency" /\ dev <= 0 -> HeaterMax
      [] l = "pv_curtail" -> s.slot.pvUsed

Usable(s, p, dev, l) ==
    CASE l = "battery" -> IF dev > 0 THEN s.store # "empty" ELSE s.store # "full"
      [] l = "ev" -> OffersSurplus(s, p) /\ Ceiling(s, "ev") > 0
      [] l = "heater_pause" -> dev >= 0 /\ ~Forces(s, s.mode)
      [] l = "heater_emergency" ->
            IF dev > 0 THEN s.alert
            ELSE s.slot.known /\ s.slot.costExport >
                    COMFORT_OVERRIDE - (IF p.incumbent = l THEN LEVER_PREEMPTION_MARGIN ELSE 0)
      [] l = "pv_curtail" -> s.slot.known /\ dev < 0

Cost(s, dev, l) ==
    CASE l = "battery" -> IF dev > 0 THEN s.slot.costImport ELSE s.slot.costExport
      [] l = "heater_emergency" -> IF dev > 0 THEN COMFORT_OVERRIDE ELSE s.slot.costExport
      [] l = "pv_curtail" -> s.slot.tariff
      [] OTHER -> 0

LeverCandidates(s, p, sp, dev) ==
    {[kind |-> l, cost |-> Cost(s, dev, l), capacity |-> Capacity(s, p, sp, dev, l)] :
        l \in {k \in p.admits : Usable(s, p, dev, k) /\ Capacity(s, p, sp, dev, k) > 0}}

\* Candidate order, the order of equal costs.
Precedence ==
    [battery |-> 1, ev |-> 2, heater_pause |-> 3, heater_emergency |-> 4, pv_curtail |-> 5]
Cheaper(l, m) ==
    l.cost < m.cost \/ (l.cost = m.cost /\ Precedence[l.kind] < Precedence[m.kind])
Place(levers, l) == 1 + Cardinality({m \in levers : Cheaper(m, l)})

\* Last tick's lever keeps the head unless the cheapest beats it by more than
\* the margin; the cheapest then takes its place.
KeptIncumbent(levers, incumbent) ==
    {l \in levers : l.kind = incumbent
        /\ \A m \in levers : l.cost - m.cost <= LEVER_PREEMPTION_MARGIN}
Due(levers, incumbent, turn) ==
    LET kept == KeptIncumbent(levers, incumbent)
    IN  IF turn = 1 /\ kept # {} THEN kept
        ELSE {l \in levers \ kept :
                IF kept # {} /\ Place(levers, l) = 1
                THEN \E k \in kept : turn = Place(levers, k)
                ELSE turn = Place(levers, l)}

-----------------------------------------------------------------------------
(* The lever loop.  Its state w holds the setpoints, the power left to     *)
(* move, the first lever that moved any, what the charger was commanded    *)
(* and has not delivered yet, the battery's share that bridges it, the     *)
(* heater's emergency mode and the PV tightening.                          *)

Sign(dev) == IF dev > 0 THEN 1 ELSE -1

\* The setpoint lever l leaves its asset at when asked for kw (apply_*).
BatteryTarget(s, p, w, kw) == Clamped(w.sp.battery - kw, StorageFloor(s, p), StorageCeiling(s, p))
EvTarget(s, w, kw) == Landed(s, "ev", Most(Most(w.sp.ev, 0) - kw, 0))
HeaterTarget(s, w, kw) ==
    StepAtOrBelow(Clamped(Most(Drawn(s, "heater", w.sp.heater) - kw, 0), 0, Ceiling(s, "heater")))

Achieved(w, l, kw) ==
    [w EXCEPT !.left = @ - kw, !.lever = IF kw > 0 /\ @ = NoLever THEN l ELSE @]

ApplyBattery(s, p, w, dev, kw) ==
    LET target == BatteryTarget(s, p, w, Sign(dev) * kw)
        moved == Abs(target - w.sp.battery)
        bridging == Least(moved, w.lagging)
    IN  IF p.obeysObjective /\ s.slot.maxRevenue /\ dev > 0 THEN w
        ELSE [Achieved(w, "battery", moved) EXCEPT
                !.sp.battery = target, !.lagging = @ - bridging, !.bridge = @ - Sign(dev) * bridging]

\* Mutant: a command to the charger is counted as shed in the tick that gives it.
CountsTheCommand(s, w, dev, kw) ==
    LET target == EvTarget(s, w, Sign(dev) * kw)
    IN  [Achieved(w, "ev", Abs(Landed(s, "ev", Most(w.sp.ev, 0)) - target)) EXCEPT !.sp.ev = target]

\* The charger moves nothing this tick: all it was asked waits for a bridge.
ApplyEv(s, w, dev, kw) ==
    LET target == EvTarget(s, w, Sign(dev) * kw)
        landing == Abs(Landed(s, "ev", Most(w.sp.ev, 0)) - target)
    IN  [w EXCEPT !.sp.ev = target, !.lagging = @ + landing]

ApplyHeaterPause(s, w, kw) ==
    LET target == HeaterTarget(s, w, kw)
    IN  [Achieved(w, "heater_pause", Drawn(s, "heater", w.sp.heater) - Drawn(s, "heater", target))
            EXCEPT !.sp.heater = target]

ApplyHeaterEmergency(w, dev, kw) ==
    IF dev > 0
    THEN [Achieved(w, "heater_emergency", kw) EXCEPT !.sp.heater = 0, !.mode = "curtail"]
    ELSE [Achieved(w, "heater_emergency", kw) EXCEPT !.mode = "absorb"]

ApplyPvCurtail(w, kw) == [Achieved(w, "pv_curtail", kw) EXCEPT !.tighten = kw]

ApplyLever(s, p, w, dev, l) ==
    LET kw == Least(w.left, l.capacity) IN
    CASE l.kind = "battery" -> ApplyBattery(s, p, w, dev, kw)
      [] l.kind = "ev" -> ApplyEv(s, w, dev, kw)
      [] l.kind = "heater_pause" -> ApplyHeaterPause(s, w, kw)
      [] l.kind = "heater_emergency" -> ApplyHeaterEmergency(w, dev, kw)
      [] l.kind = "pv_curtail" -> ApplyPvCurtail(w, kw)

Untouched(sp) ==
    [sp |-> sp, left |-> 0, lever |-> NoLever, lagging |-> 0, bridge |-> 0,
     mode |-> "normal", tighten |-> 0]

\* The greedy loop takes the levers in their order, five at most, until what is
\* left is noise.  Its values are bound by singleton sets, so that TLC computes
\* each once.
Turn(s, p, dev, levers, i, W) ==
    {IF w.left < DEAD_BAND \/ Due(levers, p.incumbent, i) = {} THEN w
     ELSE ApplyLever(s, p, w, dev, CHOOSE l \in Due(levers, p.incumbent, i) : TRUE) : w \in W}
Turns(s, p, sp, dev, levers) ==
    Turn(s, p, dev, levers, 5, Turn(s, p, dev, levers, 4, Turn(s, p, dev, levers, 3,
        Turn(s, p, dev, levers, 2, Turn(s, p, dev, levers, 1,
            {[Untouched(sp) EXCEPT !.left = Abs(dev)]})))))
ApplyRankedLevers(s, p, sp, dev) ==
    CHOOSE w \in UNION {UNION {Turns(s, p, sp, d, levers) : levers \in {LeverCandidates(s, p, sp, d)}}
                        : d \in {dev}} : TRUE
=============================================================================
