--------------------------- MODULE ArbiterProofs ---------------------------
(***************************************************************************)
(* What a tick's commands keep to, for every site, plan, limit and window: *)
(* the comms-loss bounds (FailSafeHolds), the types and bounds of all that *)
(* is carried from tick to tick (TypeCorrect), the import limit up to what *)
(* is reported as unresolved (LimitIsKept), and a dispatch window's        *)
(* setpoint where one lever can meet it alone (DispatchHolds).             *)
(***************************************************************************)
EXTENDS Arbiter, WellFoundedInduction, FiniteSetTheorems, TLAPS

-----------------------------------------------------------------------------
(* The heater's steps                                                      *)

Below == {ss \in Nat \X Nat : ss[1] < ss[2]}

LEMMA BelowIsWellFounded == IsWellFoundedOn(Below, Nat)
BY NatLessThanWellFounded DEF OpToRel, Below

\* Every set of naturals but the empty one has a least element.
LEMMA NatHasLeast ==
    ASSUME NEW T, T \subseteq Nat, T # {}
    PROVE  \E x \in T : \A y \in T : x <= y
<1>1. PICK x \in T : \A y \in T : ~ (<<y, x>> \in Below)
    BY BelowIsWellFounded, WFMin
<1>2. \A y \in T : ~(y < x)
    BY <1>1 DEF Below
<1> QED BY <1>2

LEMMA StepsAreNats ==
    HeaterSteps \subseteq Nat /\ 0 \in HeaterSteps /\ \A p \in HeaterSteps : p \in Int
BY StepsAssumption

\* The step a stepped asset draws is one of its steps, and none is nearer.
LEMMA NearestStepIsNearest ==
    ASSUME NEW kw \in Int
    PROVE  /\ NearestStep(kw) \in HeaterSteps
           /\ \A q \in HeaterSteps : Abs(NearestStep(kw) - kw) <= Abs(q - kw)
<1> DEFINE Distance(p) == 2 * Abs(p - kw) + (IF p < kw THEN 1 ELSE 0)
           Nearest(p) == \A q \in HeaterSteps :
                            \/ Abs(p - kw) < Abs(q - kw)
                            \/ Abs(p - kw) = Abs(q - kw) /\ q <= p
           T == {Distance(p) : p \in HeaterSteps}
<1>1. \A p \in HeaterSteps : Distance(p) \in Nat
    <2> TAKE p \in HeaterSteps
    <2>1. p \in Int
        BY StepsAreNats
    <2>2. Abs(p - kw) \in Nat
        BY <2>1 DEF Abs, Most
    <2> QED BY <2>2
<1>2. PICK t \in T : \A u \in T : t <= u
    <2>1. T \subseteq Nat /\ T # {}
        BY <1>1, StepsAreNats
    <2> HIDE DEF T
    <2> QED BY <2>1, NatHasLeast
<1>3. PICK p \in HeaterSteps : t = Distance(p)
    BY <1>2
<1>4. \A q \in HeaterSteps : Distance(p) <= Distance(q)
    BY <1>2, <1>3
<1>5. Nearest(p)
    BY <1>4, StepsAreNats DEF Abs, Most
<1>6. NearestStep(kw) \in HeaterSteps /\ Nearest(NearestStep(kw))
    BY <1>5 DEF NearestStep
<1>7. \A q \in HeaterSteps : Abs(q - kw) \in Int
    BY StepsAreNats DEF Abs, Most
<1> QED BY <1>6, <1>7

LEMMA StepAtOrBelowIsBelow ==
    ASSUME NEW kw \in Int
    PROVE  StepAtOrBelow(kw) \in HeaterSteps /\ StepAtOrBelow(kw) <= Most(kw, 0)
<1> DEFINE reachable == {p \in HeaterSteps : p <= Most(kw, 0)}
           T == {Most(kw, 0) - p : p \in reachable}
<1>1. T \subseteq Nat /\ T # {}
    BY StepsAreNats DEF Most
<1>2. PICK t \in T : \A u \in T : t <= u
    <2> HIDE DEF T
    <2> QED BY <1>1, NatHasLeast
<1>3. PICK p \in reachable : t = Most(kw, 0) - p
    BY <1>2
<1>4. \A q \in reachable : q <= p
    <2> TAKE q \in reachable
    <2>1. t <= Most(kw, 0) - q
        BY <1>2
    <2> QED BY <1>3, <2>1, StepsAreNats DEF Most
<1>5. StepAtOrBelow(kw) \in reachable
    BY <1>4 DEF StepAtOrBelow
<1> QED BY <1>5

LEMMA HeaterMaxIsStep == HeaterMax \in HeaterSteps
BY StepsAssumption DEF HeaterMax

-----------------------------------------------------------------------------
(* The assets' answers are numbers                                         *)

\* A snapshot with numbers where the passes calculate.
Measured(s) == s.load \in Int /\ s.pending \in Int /\ s.slot \in Slots

LEMMA RangesAreIntervals ==
    ASSUME NEW s, NEW a \in Assets
    PROVE  Floor(s, a) \in Int /\ Floor(s, a) <= 0 /\ Ceiling(s, a) \in Nat
BY HeaterMaxIsStep, RatesAssumption, StepsAssumption
   DEF Floor, Ceiling, Assets, ForcedPower

LEMMA LandedIsInt ==
    ASSUME NEW s, NEW a \in Assets, NEW kw \in Int
    PROVE  Landed(s, a, kw) \in Int
<1> DEFINE held == Clamped(kw, Floor(s, a), Ceiling(s, a))
<1>1. held \in Int
    BY RangesAreIntervals DEF Clamped, Least, Most
<1> HIDE DEF held
<1>2. NearestStep(held) \in HeaterSteps
    BY <1>1, NearestStepIsNearest
<1>3. NearestStep(held) \in Int
    BY <1>2, StepsAreNats
<1> QED BY <1>1, <1>3 DEF Landed, held, Assets

LEMMA DrawnIsInt ==
    ASSUME NEW s, Measured(s), NEW a \in Assets, NEW kw \in Int
    PROVE  Drawn(s, a, kw) \in Int
<1>1. ForcedPower(s) \in Int
    BY HeaterMaxIsStep, StepsAssumption DEF ForcedPower
<1>2. CASE a = "ev"
    BY <1>2 DEF Drawn, Measured
<1>3. CASE a # "ev"
    BY <1>1, <1>3, LandedIsInt DEF Drawn
<1> QED BY <1>2, <1>3

\* The charger's landing power never exceeds what it is asked for.
LEMMA ChargerLandsBelow ==
    ASSUME NEW s, NEW kw \in Nat
    PROVE  Landed(s, "ev", kw) \in 0..kw
BY RangesAreIntervals, RatesAssumption DEF Landed, Clamped, Least, Most, Floor, Assets

-----------------------------------------------------------------------------
(* One lever                                                               *)

\* The state of the lever loop, and its commands inside the fail-safe's range.
Moves ==
    [sp : [Assets -> Int], left : Int, lever : Levers \cup {NoLever}, lagging : Int,
     bridge : Int, mode : {"normal", "curtail", "absorb"}, tighten : Int]
InFailSafe(sp) == \A a \in Assets : sp[a] \in FailSafeFloor(a)..FailSafeCeiling(a)

LEMMA FailSafeContainsZero ==
    ASSUME NEW a \in Assets
    PROVE  FailSafeFloor(a) \in Int /\ FailSafeFloor(a) <= 0 /\ FailSafeCeiling(a) \in Nat
<1>1. RatedExport(a) \in Nat /\ RatedImport(a) \in Nat
    BY RatesAssumption, HeaterMaxIsStep, StepsAreNats DEF RatedExport, RatedImport, Assets
<1>2. Percent \in Nat
    BY PercentAssumption
<1>3. Percent * RatedExport(a) \in Nat /\ Percent * RatedImport(a) \in Nat
    BY <1>1, <1>2
<1> QED BY <1>3 DEF FailSafeFloor, FailSafeCeiling

\* The battery's range, and inside the fail-safe's when a pass is bounded.
LEMMA StorageRange ==
    ASSUME NEW s, NEW p
    PROVE  /\ StorageFloor(s, p) \in Int /\ StorageFloor(s, p) <= 0
           /\ StorageCeiling(s, p) \in Nat
           /\ p.bounded => /\ FailSafeFloor("battery") <= StorageFloor(s, p)
                           /\ StorageCeiling(s, p) <= FailSafeCeiling("battery")
<1>1. "battery" \in Assets
    BY DEF Assets
<1> QED BY <1>1, RangesAreIntervals, FailSafeContainsZero
        DEF StorageFloor, StorageCeiling, Least, Most

LEMMA AchievedMoves ==
    ASSUME NEW w \in Moves, NEW l \in Levers, NEW kw \in Int
    PROVE  Achieved(w, l, kw) \in Moves /\ Achieved(w, l, kw).sp = w.sp
           /\ Achieved(w, l, kw).lagging = w.lagging /\ Achieved(w, l, kw).bridge = w.bridge
           /\ Achieved(w, l, kw).left = w.left - kw /\ Achieved(w, l, kw).mode = w.mode
           /\ Achieved(w, l, kw).tighten = w.tighten
<1> DEFINE lead == IF kw > 0 /\ w.lever = NoLever THEN l ELSE w.lever
<1>1. lead \in Levers \cup {NoLever} /\ w.left - kw \in Int
    BY DEF Moves
<1>2. Achieved(w, l, kw) = [w EXCEPT !.left = w.left - kw, !.lever = lead]
    BY DEF Achieved, lead
<1> HIDE DEF lead
<1> QED BY <1>1, <1>2 DEF Moves

LEMMA BatteryMoves ==
    ASSUME NEW s, NEW p, NEW w \in Moves, NEW dev \in Int, NEW kw \in Int
    PROVE  /\ ApplyBattery(s, p, w, dev, kw) \in Moves
           /\ p.bounded /\ InFailSafe(w.sp) => InFailSafe(ApplyBattery(s, p, w, dev, kw).sp)
<1> DEFINE target == BatteryTarget(s, p, w, Sign(dev) * kw)
           moved == Abs(target - w.sp.battery)
           bridging == Least(moved, w.lagging)
           done == [Achieved(w, "battery", moved) EXCEPT
                       !.sp.battery = target, !.lagging = @ - bridging,
                       !.bridge = @ - Sign(dev) * bridging]
<1>1. w.sp \in [Assets -> Int] /\ w.sp.battery \in Int /\ w.lagging \in Int /\ w.bridge \in Int
    BY DEF Moves, Assets
<1>2. Sign(dev) * kw \in Int
    BY DEF Sign
<1>3. target \in Int /\ StorageFloor(s, p) <= target /\ target <= StorageCeiling(s, p)
    BY <1>1, <1>2, StorageRange DEF BatteryTarget, Clamped, Least, Most
<1> HIDE DEF target
<1>4. moved \in Int /\ bridging \in Int /\ Sign(dev) * bridging \in Int
    BY <1>1, <1>3 DEF Abs, Most, Least, Sign
<1> HIDE DEF moved, bridging
<1>5. done \in Moves /\ done.sp = [w.sp EXCEPT !["battery"] = target]
    <2>1. /\ Achieved(w, "battery", moved) \in Moves
          /\ Achieved(w, "battery", moved).sp = w.sp
          /\ Achieved(w, "battery", moved).lagging = w.lagging
          /\ Achieved(w, "battery", moved).bridge = w.bridge
        BY <1>4, AchievedMoves DEF Levers
    <2> DEFINE w2 == Achieved(w, "battery", moved)
    <2>2. done = [w2 EXCEPT !.sp.battery = target, !.lagging = w2.lagging - bridging,
                            !.bridge = w2.bridge - Sign(dev) * bridging]
        BY DEF done, w2
    <2> HIDE DEF w2
    <2>3. w2 \in Moves /\ w2.sp = w.sp /\ w2.lagging \in Int /\ w2.bridge \in Int
        BY <1>1, <2>1 DEF w2
    <2>4. w2.lagging - bridging \in Int /\ w2.bridge - Sign(dev) * bridging \in Int
        BY <1>4, <2>3
    <2>5. PICK x \in Int, y \in Int, t \in Int :
            x = w2.lagging - bridging /\ y = w2.bridge - Sign(dev) * bridging /\ t = target
        BY <1>3, <2>4
    <2>6. done = [w2 EXCEPT !.sp.battery = t, !.lagging = x, !.bridge = y]
        BY <2>2, <2>5
    <2> HIDE DEF done
    <2>7. done \in Moves
        BY <2>3, <2>5, <2>6 DEF Moves
    <2>8. done.sp = [w2.sp EXCEPT !["battery"] = t]
        BY <2>3, <2>5, <2>6 DEF Moves
    <2> QED BY <2>3, <2>5, <2>7, <2>8
<1>6. p.bounded /\ InFailSafe(w.sp) => InFailSafe(done.sp)
    BY <1>1, <1>3, <1>5, StorageRange, FailSafeContainsZero DEF InFailSafe, Assets
<1>7. ApplyBattery(s, p, w, dev, kw) \in {w, done}
    BY DEF ApplyBattery, done, moved, bridging, target
<1> QED BY <1>5, <1>6, <1>7

LEMMA EvMoves ==
    ASSUME NEW s, NEW w \in Moves, NEW dev \in Int, NEW kw \in Nat
    PROVE  /\ ApplyEv(s, w, dev, kw) \in Moves
           /\ dev > 0 /\ InFailSafe(w.sp) => InFailSafe(ApplyEv(s, w, dev, kw).sp)
<1> DEFINE asked == Most(Most(w.sp.ev, 0) - Sign(dev) * kw, 0)
           target == Landed(s, "ev", asked)
           landing == Abs(Landed(s, "ev", Most(w.sp.ev, 0)) - target)
<1>1. w.sp \in [Assets -> Int] /\ w.sp.ev \in Int /\ w.lagging \in Int /\ "ev" \in Assets
    BY DEF Moves, Assets
<1>2. asked \in Nat /\ (dev > 0 => asked <= Most(w.sp.ev, 0))
    BY <1>1 DEF Most, Sign
<1> HIDE DEF asked
<1>3. target \in 0..asked
    BY <1>2, ChargerLandsBelow
<1> HIDE DEF target
<1>4. landing \in Int
    <2>1. Landed(s, "ev", Most(w.sp.ev, 0)) \in Int
        BY <1>1, LandedIsInt DEF Most
    <2> QED BY <1>2, <1>3, <2>1 DEF Abs, Most
<1> HIDE DEF landing
<1> DEFINE done == ApplyEv(s, w, dev, kw)
<1>5. done = [w EXCEPT !.sp.ev = target, !.lagging = @ + landing]
    BY DEF ApplyEv, EvTarget, asked, target, landing
<1> HIDE DEF done
<1>6. done \in Moves /\ done.sp = [w.sp EXCEPT !["ev"] = target]
    <2>1. PICK x \in Int, t \in Int : x = w.lagging + landing /\ t = target
        BY <1>1, <1>2, <1>3, <1>4
    <2>2. done = [w EXCEPT !.sp.ev = t, !.lagging = x]
        BY <1>5, <2>1
    <2>3. done \in Moves
        BY <2>1, <2>2 DEF Moves
    <2>4. done.sp = [w.sp EXCEPT !["ev"] = t]
        BY <2>1, <2>2 DEF Moves
    <2> QED BY <2>1, <2>3, <2>4
<1>7. ASSUME dev > 0, InFailSafe(w.sp)
      PROVE  target \in FailSafeFloor("ev")..FailSafeCeiling("ev")
    BY <1>1, <1>2, <1>3, <1>7, FailSafeContainsZero DEF InFailSafe, Most
<1>8. dev > 0 /\ InFailSafe(w.sp) => InFailSafe(done.sp)
    BY <1>1, <1>6, <1>7 DEF InFailSafe, Assets
<1> QED BY <1>6, <1>8 DEF done

\* The step the heater is paused to is below what its command asked for: a step
\* between the two would have been the nearer one.
LEMMA HeaterTargetIsBelow ==
    ASSUME NEW s, Measured(s), NEW w \in Moves, NEW kw \in Nat
    PROVE  /\ HeaterTarget(s, w, kw) \in Nat
           /\ kw > 0 /\ ~Forces(s, s.mode) => HeaterTarget(s, w, kw) <= Most(w.sp.heater, 0)
<1> DEFINE drawn == Drawn(s, "heater", w.sp.heater)
           asked == Clamped(Most(drawn - kw, 0), 0, Ceiling(s, "heater"))
           target == StepAtOrBelow(asked)
           held == Clamped(w.sp.heater, Floor(s, "heater"), Ceiling(s, "heater"))
<1>1. w.sp.heater \in Int /\ "heater" \in Assets
    BY DEF Moves, Assets
<1>2. drawn \in Int
    BY <1>1, DrawnIsInt
<1> HIDE DEF drawn
<1>3. asked \in Nat /\ asked <= Most(drawn - kw, 0)
    BY <1>1, <1>2, RangesAreIntervals DEF Clamped, Least, Most
<1> HIDE DEF asked
<1>4. target \in HeaterSteps /\ target \in Nat /\ target <= asked
    <2>1. asked \in Int /\ Most(asked, 0) = asked
        BY <1>3 DEF Most
    <2>2. target \in HeaterSteps /\ target <= asked
        BY <2>1, StepAtOrBelowIsBelow
    <2> QED BY <2>2, StepsAreNats
<1> HIDE DEF target
<1>5. HeaterTarget(s, w, kw) = target
    BY DEF HeaterTarget, target, asked, drawn
<1>6. held \in Nat /\ held <= Most(w.sp.heater, 0)
    <2>1. Floor(s, "heater") = 0
        BY DEF Floor
    <2> QED BY <1>1, <2>1, RangesAreIntervals DEF Clamped, Least, Most
<1> HIDE DEF held
<1>7. ASSUME kw > 0, ~Forces(s, s.mode)
      PROVE  target <= Most(w.sp.heater, 0)
    <2>1. drawn = NearestStep(held)
        BY <1>7 DEF drawn, Drawn, Landed, held
    <2>2. Abs(drawn - held) <= Abs(target - held)
        BY <1>4, <1>6, <2>1, NearestStepIsNearest
    <2>3. target <= held
        BY <1>2, <1>3, <1>4, <1>6, <1>7, <2>2 DEF Abs, Most
    <2> QED BY <1>1, <1>4, <1>6, <2>3 DEF Most
<1> QED BY <1>4, <1>5, <1>7

LEMMA HeaterPauseMoves ==
    ASSUME NEW s, Measured(s), NEW w \in Moves, NEW kw \in Nat
    PROVE  /\ ApplyHeaterPause(s, w, kw) \in Moves
           /\ kw > 0 /\ ~Forces(s, s.mode) /\ InFailSafe(w.sp)
                => InFailSafe(ApplyHeaterPause(s, w, kw).sp)
<1> DEFINE target == HeaterTarget(s, w, kw)
           shed == Drawn(s, "heater", w.sp.heater) - Drawn(s, "heater", target)
           w2 == Achieved(w, "heater_pause", shed)
           done == ApplyHeaterPause(s, w, kw)
<1>1. w.sp \in [Assets -> Int] /\ w.sp.heater \in Int /\ "heater" \in Assets
    BY DEF Moves, Assets
<1>2. target \in Nat /\ (kw > 0 /\ ~Forces(s, s.mode) => target <= Most(w.sp.heater, 0))
    BY HeaterTargetIsBelow
<1> HIDE DEF target
<1>3. shed \in Int
    BY <1>1, <1>2, DrawnIsInt
<1> HIDE DEF shed
<1>4. w2 \in Moves /\ w2.sp = w.sp
    BY <1>3, AchievedMoves DEF Levers
<1> HIDE DEF w2
<1>5. done = [w2 EXCEPT !.sp.heater = target]
    BY DEF ApplyHeaterPause, w2, shed, target
<1> HIDE DEF done
<1>6. PICK t \in Int : t = target
    BY <1>2
<1>7. done \in Moves
    BY <1>4, <1>5, <1>6 DEF Moves
<1>8. done.sp = [w.sp EXCEPT !["heater"] = t]
    BY <1>4, <1>5, <1>6 DEF Moves
<1>9. ASSUME kw > 0, ~Forces(s, s.mode), InFailSafe(w.sp)
      PROVE  InFailSafe(done.sp)
    <2>1. t \in FailSafeFloor("heater")..FailSafeCeiling("heater")
        BY <1>1, <1>2, <1>6, <1>9, FailSafeContainsZero DEF InFailSafe, Most
    <2> QED BY <1>1, <1>8, <1>9, <2>1 DEF InFailSafe, Assets
<1> QED BY <1>7, <1>9 DEF done

LEMMA HeaterEmergencyMoves ==
    ASSUME NEW w \in Moves, NEW dev \in Int, NEW kw \in Nat
    PROVE  /\ ApplyHeaterEmergency(w, dev, kw) \in Moves
           /\ InFailSafe(w.sp) => InFailSafe(ApplyHeaterEmergency(w, dev, kw).sp)
<1> DEFINE w2 == Achieved(w, "heater_emergency", kw)
           done == ApplyHeaterEmergency(w, dev, kw)
<1>1. w.sp \in [Assets -> Int] /\ w2 \in Moves /\ w2.sp = w.sp
    <2>1. w.sp \in [Assets -> Int]
        BY DEF Moves
    <2>2. kw \in Int
        OBVIOUS
    <2> QED BY <2>1, <2>2, AchievedMoves DEF Levers
<1> HIDE DEF w2
<1>2. CASE dev > 0
    <2>1. done = [w2 EXCEPT !.sp.heater = 0, !.mode = "curtail"]
        BY <1>2 DEF ApplyHeaterEmergency, w2
    <2> HIDE DEF done
    <2>2. done \in Moves
        <3>1. PICK t \in Int, m \in {"normal", "curtail", "absorb"} : t = 0 /\ m = "curtail"
            OBVIOUS
        <3>2. done = [w2 EXCEPT !.sp.heater = t, !.mode = m]
            BY <2>1, <3>1
        <3> QED BY <1>1, <3>1, <3>2 DEF Moves
    <2>3. done.sp = [w.sp EXCEPT !["heater"] = 0]
        BY <1>1, <2>1 DEF Moves
    <2>4. InFailSafe(w.sp) => InFailSafe(done.sp)
        BY <1>1, <2>3, FailSafeContainsZero DEF InFailSafe, Assets
    <2> QED BY <2>2, <2>4 DEF done
<1>3. CASE ~(dev > 0)
    <2>1. done = [w2 EXCEPT !.mode = "absorb"]
        BY <1>3 DEF ApplyHeaterEmergency, w2
    <2> HIDE DEF done
    <2>2. done \in Moves /\ done.sp = w.sp
        BY <1>1, <2>1 DEF Moves
    <2> QED BY <2>2 DEF done
<1> QED BY <1>2, <1>3

LEMMA PvCurtailMoves ==
    ASSUME NEW w \in Moves, NEW kw \in Int
    PROVE  ApplyPvCurtail(w, kw) \in Moves /\ ApplyPvCurtail(w, kw).sp = w.sp
<1> DEFINE w2 == Achieved(w, "pv_curtail", kw)
           done == ApplyPvCurtail(w, kw)
<1>1. w2 \in Moves /\ w2.sp = w.sp
    BY AchievedMoves DEF Levers
<1> HIDE DEF w2
<1>2. done = [w2 EXCEPT !.tighten = kw]
    BY DEF ApplyPvCurtail, w2
<1> HIDE DEF done
<1>3. done \in Moves /\ done.sp = w.sp
    BY <1>1, <1>2 DEF Moves
<1> QED BY <1>3 DEF done

-----------------------------------------------------------------------------
(* The lever loop                                                          *)

\* What the loop may rely on in the levers it is offered.
Offered(s, levers) ==
    \A l \in levers : /\ l.kind \in Levers
                      /\ l.capacity \in Nat /\ l.capacity > 0
                      /\ l.kind = "heater_pause" => ~Forces(s, s.mode)

LEMMA CapacityIsInt ==
    ASSUME NEW s, Measured(s), NEW p, NEW sp \in [Assets -> Int], NEW dev \in Int,
           NEW l \in Levers
    PROVE  Capacity(s, p, sp, dev, l) \in Int
<1>1. sp.battery \in Int /\ sp.ev \in Int /\ sp.heater \in Int
    BY DEF Assets
<1>2. CASE l = "battery"
    BY <1>1, <1>2, StorageRange DEF Capacity
<1>3. CASE l = "ev"
    <2>1. Ceiling(s, "ev") \in Int
        BY RangesAreIntervals DEF Assets
    <2> QED BY <1>1, <1>3, <2>1 DEF Capacity, Most
<1>4. CASE l = "heater_pause"
    <2>1. Drawn(s, "heater", sp.heater) \in Int
        BY <1>1, DrawnIsInt DEF Assets
    <2> QED BY <1>4, <2>1 DEF Capacity
<1>5. CASE l = "heater_emergency"
    BY <1>5, HeaterMaxIsStep, StepsAreNats DEF Capacity, ForcedPower
<1>6. CASE l = "pv_curtail"
    <2>1. s.slot.pvUsed \in Int
        BY DEF Measured, Slots
    <2> QED BY <1>6, <2>1 DEF Capacity
<1> QED BY <1>2, <1>3, <1>4, <1>5, <1>6 DEF Levers

LEMMA CandidatesAreOffered ==
    ASSUME NEW s, Measured(s), NEW p, p.admits \subseteq Levers,
           NEW sp \in [Assets -> Int], NEW dev \in Int
    PROVE  Offered(s, LeverCandidates(s, p, sp, dev))
<1> SUFFICES ASSUME NEW l \in LeverCandidates(s, p, sp, dev)
             PROVE  /\ l.kind \in Levers
                    /\ l.capacity \in Nat /\ l.capacity > 0
                    /\ l.kind = "heater_pause" => ~Forces(s, s.mode)
    BY DEF Offered
<1>1. PICK k \in p.admits :
        /\ Usable(s, p, dev, k) /\ Capacity(s, p, sp, dev, k) > 0
        /\ l = [kind |-> k, cost |-> Cost(s, dev, k), capacity |-> Capacity(s, p, sp, dev, k)]
    BY DEF LeverCandidates
<1>2. l.kind = k /\ l.capacity = Capacity(s, p, sp, dev, k)
    BY <1>1
<1>3. k \in Levers /\ Capacity(s, p, sp, dev, k) \in Int
    BY <1>1, CapacityIsInt
<1>4. k = "heater_pause" => ~Forces(s, s.mode)
    BY <1>1 DEF Usable
<1> QED BY <1>1, <1>2, <1>3, <1>4

\* A pass that sheds inside the fail-safe's bounds starts and stays inside them.
Sheds(p, dev) == p.bounded /\ dev > 0
Good(p, dev, w) == w \in Moves /\ (Sheds(p, dev) => InFailSafe(w.sp))

LEMMA LeverIsGood ==
    ASSUME NEW s, Measured(s), NEW p, NEW dev \in Int, NEW w, Good(p, dev, w),
           w.left >= DEAD_BAND, NEW levers, Offered(s, levers), NEW l \in levers
    PROVE  Good(p, dev, ApplyLever(s, p, w, dev, l))
<1> DEFINE kw == Least(w.left, l.capacity)
<1>1. w \in Moves /\ (Sheds(p, dev) => InFailSafe(w.sp))
    BY DEF Good
<1>2. /\ l.kind \in Levers /\ l.capacity \in Nat /\ l.capacity > 0
      /\ l.kind = "heater_pause" => ~Forces(s, s.mode)
    BY DEF Offered
<1>3. kw \in Nat /\ kw \in Int /\ kw > 0
    BY <1>1, <1>2 DEF Moves, Least, DEAD_BAND
<1> HIDE DEF kw
<1>4. CASE l.kind = "battery"
    <2>1. ApplyLever(s, p, w, dev, l) = ApplyBattery(s, p, w, dev, kw)
        BY <1>4 DEF ApplyLever, kw
    <2> QED BY <1>1, <1>3, <2>1, BatteryMoves DEF Good, Sheds
<1>5. CASE l.kind = "ev"
    <2>1. ApplyLever(s, p, w, dev, l) = ApplyEv(s, w, dev, kw)
        BY <1>5 DEF ApplyLever, kw
    <2> QED BY <1>1, <1>3, <2>1, EvMoves DEF Good, Sheds
<1>6. CASE l.kind = "heater_pause"
    <2>1. ApplyLever(s, p, w, dev, l) = ApplyHeaterPause(s, w, kw)
        BY <1>6 DEF ApplyLever, kw
    <2> QED BY <1>1, <1>2, <1>3, <1>6, <2>1, HeaterPauseMoves DEF Good
<1>7. CASE l.kind = "heater_emergency"
    <2>1. ApplyLever(s, p, w, dev, l) = ApplyHeaterEmergency(w, dev, kw)
        BY <1>7 DEF ApplyLever, kw
    <2> QED BY <1>1, <1>3, <2>1, HeaterEmergencyMoves DEF Good
<1>8. CASE l.kind = "pv_curtail"
    <2>1. ApplyLever(s, p, w, dev, l) = ApplyPvCurtail(w, kw)
        BY <1>8 DEF ApplyLever, kw
    <2> QED BY <1>1, <1>3, <2>1, PvCurtailMoves DEF Good
<1> QED BY <1>2, <1>4, <1>5, <1>6, <1>7, <1>8 DEF Levers

LEMMA TurnIsGood ==
    ASSUME NEW s, Measured(s), NEW p, NEW dev \in Int, NEW levers, Offered(s, levers),
           NEW i, NEW W, W # {}, \A w \in W : Good(p, dev, w)
    PROVE  /\ Turn(s, p, dev, levers, i, W) # {}
           /\ \A w \in Turn(s, p, dev, levers, i, W) : Good(p, dev, w)
<1>1. Turn(s, p, dev, levers, i, W) # {}
    BY DEF Turn
<1>2. ASSUME NEW v \in Turn(s, p, dev, levers, i, W)
      PROVE  Good(p, dev, v)
    <2> DEFINE due == Due(levers, p.incumbent, i)
               first == CHOOSE l \in due : TRUE
    <2>1. PICK w \in W :
            v = IF w.left < DEAD_BAND \/ due = {} THEN w ELSE ApplyLever(s, p, w, dev, first)
        BY DEF Turn
    <2>2. due \subseteq levers
        BY DEF Due, KeptIncumbent
    <2> HIDE DEF due
    <2>3. CASE w.left < DEAD_BAND \/ due = {}
        BY <2>1, <2>3
    <2>4. CASE ~(w.left < DEAD_BAND \/ due = {})
        <3>1. first \in levers
            BY <2>2, <2>4
        <3>2. w.left >= DEAD_BAND /\ Good(p, dev, w)
            BY <2>4 DEF Good, Moves, DEAD_BAND
        <3> HIDE DEF first
        <3>3. Good(p, dev, ApplyLever(s, p, w, dev, first))
            BY <3>1, <3>2, LeverIsGood
        <3> QED BY <2>1, <2>4, <3>3
    <2> QED BY <2>3, <2>4
<1> QED BY <1>1, <1>2

\* What the lever loop gives: commands that are numbers, within the fail-safe's
\* range if it shed inside its bounds.
LEMMA RankedLeversAreGood ==
    ASSUME NEW s, Measured(s), NEW p, p.admits \subseteq Levers,
           NEW sp \in [Assets -> Int], NEW dev \in Int,
           Sheds(p, dev) => InFailSafe(sp)
    PROVE  Good(p, dev, ApplyRankedLevers(s, p, sp, dev))
<1> DEFINE start == [Untouched(sp) EXCEPT !.left = Abs(dev)]
           levers == LeverCandidates(s, p, sp, dev)
           W0 == {start}
           W1 == Turn(s, p, dev, levers, 1, W0)
           W2 == Turn(s, p, dev, levers, 2, W1)
           W3 == Turn(s, p, dev, levers, 3, W2)
           W4 == Turn(s, p, dev, levers, 4, W3)
           W5 == Turn(s, p, dev, levers, 5, W4)
           AllGood(W) == W # {} /\ \A w \in W : Good(p, dev, w)
<1>1. Good(p, dev, start)
    <2>1. Abs(dev) \in Int
        BY DEF Abs, Most
    <2>2. start = [sp |-> sp, left |-> Abs(dev), lever |-> NoLever, lagging |-> 0,
                   bridge |-> 0, mode |-> "normal", tighten |-> 0]
        BY DEF Untouched
    <2> HIDE DEF start
    <2>3. start \in Moves /\ start.sp = sp
        BY <2>1, <2>2 DEF Moves
    <2> QED BY <2>3 DEF Good
<1>2. Offered(s, levers)
    BY CandidatesAreOffered
<1>3. Turns(s, p, sp, dev, levers) = W5
    BY DEF Turns
<1> HIDE DEF start, levers
<1>4. AllGood(W0)
    BY <1>1
<1> HIDE DEF W0
<1>5. AllGood(W1)
    BY <1>2, <1>4, TurnIsGood
<1> HIDE DEF W1
<1>6. AllGood(W2)
    BY <1>2, <1>5, TurnIsGood
<1> HIDE DEF W2
<1>7. AllGood(W3)
    BY <1>2, <1>6, TurnIsGood
<1> HIDE DEF W3
<1>8. AllGood(W4)
    BY <1>2, <1>7, TurnIsGood
<1> HIDE DEF W4
<1>9. AllGood(W5)
    BY <1>2, <1>8, TurnIsGood
<1> HIDE DEF W5
<1>10. ApplyRankedLevers(s, p, sp, dev) = CHOOSE w \in W5 : TRUE
    BY <1>3 DEF ApplyRankedLevers, levers
<1> QED BY <1>9, <1>10

-----------------------------------------------------------------------------
(* The passes of a tick                                                    *)

\* What the passes read and write is numbers where they calculate with it.
Typed ==
    /\ IsWorld(world)
    /\ command \in [Assets -> Int]
    /\ pending \in Int /\ pvLimit \in Int /\ bridge \in Int

LEMMA WorldIsMeasured ==
    ASSUME IsWorld(world)
    PROVE  /\ world.load \in Int /\ world.load \in Loads
           /\ world.pv \in Int /\ world.pv >= 0 /\ world.limit \in Int
           /\ world.dispatch \in Int /\ world.lost \in BOOLEAN /\ world.alert \in BOOLEAN
           /\ world.store \in {"empty", "low", "middle", "high", "full"}
           /\ world.tank \in {"cold", "comfort", "hot"}
           /\ world.slot \in Slots
<1>1. \A f \in DOMAIN Fields : world[f] \in Fields[f]
    BY DEF IsWorld
<1>2. /\ world.load \in Loads /\ world.pv \in Nat /\ world.limit \in Int
      /\ world.dispatch \in Int /\ world.lost \in BOOLEAN /\ world.alert \in BOOLEAN
      /\ world.store \in {"empty", "low", "middle", "high", "full"}
      /\ world.tank \in {"cold", "comfort", "hot"}
      /\ world.slot \in Slots
    BY <1>1 DEF Fields
<1> QED BY <1>2 DEF Loads

LEMMA SlotValues ==
    ASSUME NEW slot \in Slots
    PROVE  /\ slot.battery \in Int /\ slot.ev \in Int /\ slot.heater \in Int
           /\ slot.net \in Int /\ slot.pvUsed \in Int /\ slot.pvForecast \in Int
           /\ slot.battery \in -Rate..Rate /\ slot.ev \in 0..EvMax
           /\ slot.heater \in 0..HeaterMax /\ slot.pvUsed >= 0 /\ slot.pvForecast >= 0
<1>1. /\ slot.battery \in -Rate..Rate /\ slot.ev \in 0..EvMax
      /\ slot.heater \in 0..HeaterMax /\ slot.pvUsed \in Nat /\ slot.pvForecast \in Nat
      /\ slot.net \in Int
    BY DEF Slots
<1>2. Rate \in Int /\ EvMax \in Int /\ HeaterMax \in Int
    BY RatesAssumption, HeaterMaxIsStep, StepsAreNats
<1> QED BY <1>1, <1>2

LEMMA SnapshotIsMeasured ==
    ASSUME Typed
    PROVE  Measured(Snapshot)
<1>1. DOMAIN world = DOMAIN Fields
    BY DEF Typed, IsWorld
<1>2. {"load", "slot"} \subseteq DOMAIN world
    BY <1>1 DEF Fields
<1>3. Snapshot.load = world.load /\ Snapshot.slot = world.slot /\ Snapshot.pending = pending
    BY <1>2 DEF Snapshot
<1> QED BY <1>3, WorldIsMeasured DEF Measured, Typed

LEMMA LimitsAreInts ==
    ASSUME Typed
    PROVE  /\ LimitTarget \in Int /\ LivePv \in Int /\ LivePvReleased \in Int
           /\ \A net \in Int : DeviationKw(net) \in Int
           /\ \A tighten \in Int : PvGenerationLimit(tighten) \in Int
<1>1. /\ world.pv \in Int /\ world.limit \in Int /\ world.slot.net \in Int
      /\ world.slot.pvUsed \in Int /\ pvLimit \in Int
    BY WorldIsMeasured, SlotValues DEF Typed
<1>2. (Percent * PvRated) \div 100 \in Int
    <2>1. Percent * PvRated \in Int
        BY PercentAssumption, ArbiterAssumption
    <2> QED BY <2>1
<1>3. Unlimited \in Int
    BY ArbiterAssumption
<1>4. LimitTarget \in Int
    BY <1>1 DEF LimitTarget, HardLimit, LIMIT_MARGIN, LIMIT_RELEASE_HYSTERESIS
<1>5. \A tighten \in Int : PvGenerationLimit(tighten) \in Int
    BY <1>1, <1>2, <1>3 DEF PvGenerationLimit, Least
<1>6. PvGenerationLimit(0) \in Int
    BY <1>5
<1>7. LivePv \in Int /\ LivePvReleased \in Int
    BY <1>1, <1>6 DEF LivePv, LivePvReleased, Generation, Least
<1>8. \A net \in Int : DeviationKw(net) \in Int
    BY <1>1, <1>4 DEF DeviationKw, Least
<1> QED BY <1>4, <1>5, <1>7, <1>8

LEMMA ProjectionsAreInts ==
    ASSUME NEW s, Measured(s), NEW sp \in [Assets -> Int], NEW pv \in Int
    PROVE  ProjectedNet(s, sp, pv) \in Int /\ ProjectedLandedNet(s, sp, pv) \in Int
<1>1. {"battery", "ev", "heater"} \subseteq Assets
    BY DEF Assets
<1>2. sp.battery \in Int /\ sp.ev \in Int /\ sp.heater \in Int /\ s.load \in Int
    BY <1>1 DEF Measured
<1>3. /\ Drawn(s, "battery", sp.battery) \in Int /\ Drawn(s, "ev", sp.ev) \in Int
      /\ Drawn(s, "heater", sp.heater) \in Int
    BY <1>1, <1>2, DrawnIsInt
<1>4. /\ Landed(s, "battery", sp.battery) \in Int /\ Landed(s, "ev", sp.ev) \in Int
      /\ Landed(s, "heater", sp.heater) \in Int
    BY <1>1, <1>2, LandedIsInt
<1> QED BY <1>2, <1>3, <1>4 DEF ProjectedNet, ProjectedLandedNet

LEMMA CommandsAreInts ==
    ASSUME Typed
    PROVE  /\ BaseSetpoints \in [Assets -> Int] /\ Carried \in [Assets -> Int]
           /\ \A sp \in [Assets -> Int] : AtPlan(sp) \in [Assets -> Int]
<1>1. \A a \in Assets : world.slot[a] \in Int
    BY WorldIsMeasured, SlotValues DEF Typed, Assets
<1>2. BaseSetpoints \in [Assets -> Int]
    BY <1>1, ArbiterAssumption DEF BaseSetpoints
<1> HIDE DEF BaseSetpoints
<1>3. BaseSetpoints.battery \in Int /\ BaseSetpoints.ev \in Int
      /\ command.battery - bridge \in Int /\ command.ev \in Int
    BY <1>2 DEF Typed, Assets
<1> QED BY <1>2, <1>3 DEF Carried, AtPlan

LEMMA UntouchedMoves ==
    ASSUME NEW sp \in [Assets -> Int]
    PROVE  Untouched(sp) \in Moves /\ Untouched(sp).sp = sp
BY DEF Untouched, Moves

LEMMA OverlayIsInts ==
    ASSUME Typed, NEW s, Measured(s), NEW sp \in [Assets -> Int]
    PROVE  SurplusOverlay(s, sp) \in [Assets -> Int]
<1> DEFINE surplus == Most(-(s.load - LivePv + Drawn(s, "heater", sp.heater)) - Most(sp.battery, 0), 0)
           charge == Landed(s, "ev", surplus)
<1>1. {"battery", "ev", "heater"} \subseteq Assets
    BY DEF Assets
<1>2. sp.battery \in Int /\ sp.heater \in Int /\ s.load \in Int /\ LivePv \in Int
    BY <1>1, LimitsAreInts DEF Measured
<1>3. Drawn(s, "heater", sp.heater) \in Int
    BY <1>1, <1>2, DrawnIsInt
<1>4. surplus \in Int
    BY <1>2, <1>3 DEF Most
<1> HIDE DEF surplus
<1>5. charge \in Int
    BY <1>1, <1>4, LandedIsInt
<1> HIDE DEF charge
<1>6. SurplusOverlay(s, sp) \in {sp, [sp EXCEPT !.ev = charge]}
    BY DEF SurplusOverlay, charge, surplus
<1> QED BY <1>5, <1>6

LEMMA HoldingLeverIsLever ==
    ASSUME NEW sp
    PROVE  HoldingLever(sp) \in Levers \cup {NoLever}
BY DEF HoldingLever, Levers

LEMMA RelabelledMoves ==
    ASSUME NEW w \in Moves, NEW l \in Levers \cup {NoLever}
    PROVE  [w EXCEPT !.lever = l] \in Moves /\ [w EXCEPT !.lever = l].sp = w.sp
BY DEF Moves

LEMMA ReconcileMoves ==
    ASSUME Typed, NEW s, Measured(s)
    PROVE  Reconcile(s) \in Moves
<1> DEFINE dev == DeviationKw(ProjectedNet(s, Carried, LivePv))
           moved == ApplyRankedLevers(s, DeviationPolicy, Carried, dev)
           relabelled == [moved EXCEPT !.lever = IF @ = NoLever THEN HoldingLever(moved.sp) ELSE @]
           holding == [Untouched(Carried) EXCEPT !.lever = HoldingLever(Carried)]
<1>1. Carried \in [Assets -> Int] /\ AtPlan(Carried) \in [Assets -> Int]
    BY CommandsAreInts
<1>2. dev \in Int
    BY <1>1, LimitsAreInts, ProjectionsAreInts
<1>3. Untouched(SurplusOverlay(s, Carried)) \in Moves /\ Untouched(AtPlan(Carried)) \in Moves
    BY <1>1, OverlayIsInts, UntouchedMoves
<1> HIDE DEF dev
<1>4. moved \in Moves
    <2>1. DeviationPolicy.admits = Levers /\ DeviationPolicy.bounded = FALSE
        BY DEF DeviationPolicy, Policy
    <2>2. Good(DeviationPolicy, dev, moved)
        BY <1>1, <1>2, <2>1, RankedLeversAreGood DEF Sheds
    <2> QED BY <2>2 DEF Good
<1> HIDE DEF moved
<1>5. relabelled \in Moves
    <2> DEFINE l == IF moved.lever = NoLever THEN HoldingLever(moved.sp) ELSE moved.lever
    <2>1. l \in Levers \cup {NoLever}
        BY <1>4, HoldingLeverIsLever DEF Moves
    <2>2. relabelled = [moved EXCEPT !.lever = l]
        BY DEF relabelled, l
    <2> HIDE DEF l
    <2> QED BY <1>4, <2>1, <2>2, RelabelledMoves
<1>6. holding \in Moves
    BY <1>1, UntouchedMoves, HoldingLeverIsLever, RelabelledMoves
<1>7. Reconcile(s) \in {Untouched(SurplusOverlay(s, Carried)), Untouched(AtPlan(Carried)),
                        relabelled, holding}
    BY DEF Reconcile, relabelled, holding, moved, dev
<1> QED BY <1>3, <1>5, <1>6, <1>7

LEMMA ProposeMoves ==
    ASSUME Typed, NEW s, Measured(s)
    PROVE  Propose(s) \in Moves
<1>1. Untouched(SurplusOverlay(s, BaseSetpoints)) \in Moves
    BY CommandsAreInts, OverlayIsInts, UntouchedMoves
<1> QED BY <1>1, ReconcileMoves DEF Propose

LEMMA DispatchIsInts ==
    ASSUME Typed, NEW s, Measured(s), NEW sp \in [Assets -> Int]
    PROVE  DispatchOverride(s, sp) \in [Assets -> Int]
<1> DEFINE dev == ProjectedNet(s, sp, LivePv) - world.dispatch
<1>1. dev \in Int
    BY LimitsAreInts, ProjectionsAreInts, WorldIsMeasured DEF Typed
<1>2. DispatchPolicy.admits \subseteq Levers /\ DispatchPolicy.bounded = FALSE
    BY DEF DispatchPolicy, Policy, Levers
<1> HIDE DEF dev
<1>3. Good(DispatchPolicy, dev, ApplyRankedLevers(s, DispatchPolicy, sp, dev))
    BY <1>1, <1>2, RankedLeversAreGood DEF Sheds
<1>4. ApplyRankedLevers(s, DispatchPolicy, sp, dev).sp \in [Assets -> Int]
    BY <1>3 DEF Good, Moves
<1> QED BY <1>4 DEF DispatchOverride, dev

\* The clamp brings every command into the fail-safe's range.
LEMMA ClampIsInFailSafe ==
    ASSUME Typed, NEW sp \in [Assets -> Int]
    PROVE  CommsLossClamp(sp) \in [Assets -> Int] /\ (world.lost => InFailSafe(CommsLossClamp(sp)))
<1>1. \A a \in Assets : Clamped(sp[a], FailSafeFloor(a), FailSafeCeiling(a))
                            \in FailSafeFloor(a)..FailSafeCeiling(a)
    BY FailSafeContainsZero DEF Clamped, Least, Most
<1>2. \A a \in Assets : FailSafeFloor(a) \in Int /\ FailSafeCeiling(a) \in Int
    BY FailSafeContainsZero
<1> QED BY <1>1, <1>2 DEF CommsLossClamp, InFailSafe

\* The limit pass only sheds, and its levers shed no further than the range.
LEMMA LimitStaysInFailSafe ==
    ASSUME Typed, NEW s, Measured(s), NEW sp \in [Assets -> Int], NEW tighten \in Int,
           world.lost => InFailSafe(sp)
    PROVE  /\ EnforceImportLimit(s, sp, tighten) \in Moves
           /\ world.lost => InFailSafe(EnforceImportLimit(s, sp, tighten).sp)
<1> DEFINE pv == Most(LivePv - tighten, 0)
           excess == ProjectedNet(s, sp, pv) - LimitTarget
           moved == ApplyRankedLevers(s, LimitPolicy, sp, excess)
<1>1. pv \in Int
    BY LimitsAreInts DEF Most
<1> HIDE DEF pv
<1>2. excess \in Int
    BY <1>1, LimitsAreInts, ProjectionsAreInts
<1> HIDE DEF excess
<1>3. LimitPolicy.admits = Levers /\ LimitPolicy.bounded = world.lost
    BY DEF LimitPolicy, Policy
<1>4. CASE excess < DEAD_BAND
    <2>1. EnforceImportLimit(s, sp, tighten) = Untouched(sp)
        BY <1>4 DEF EnforceImportLimit, excess, pv
    <2> QED BY <2>1, UntouchedMoves
<1>5. CASE ~(excess < DEAD_BAND)
    <2>1. EnforceImportLimit(s, sp, tighten) = moved
        BY <1>5 DEF EnforceImportLimit, moved, excess, pv
    <2>2. excess > 0
        BY <1>2, <1>5 DEF DEAD_BAND
    <2>3. Good(LimitPolicy, excess, moved)
        BY <1>2, <1>3, RankedLeversAreGood DEF Sheds
    <2> HIDE DEF moved
    <2> QED BY <1>3, <2>1, <2>2, <2>3 DEF Good, Sheds
<1> QED BY <1>4, <1>5

LEMMA HoldStaysInFailSafe ==
    ASSUME Typed, NEW s, Measured(s), NEW w \in Moves, world.lost => InFailSafe(w.sp)
    PROVE  /\ HoldWhereCommandsLand(s, w).sp \in [Assets -> Int]
           /\ world.lost => InFailSafe(HoldWhereCommandsLand(s, w).sp)
<1> DEFINE excess == ProjectedLandedNet(s, w.sp, LivePv) - LimitTarget
           asked == Most(Most(w.sp.ev, 0) - excess, 0)
           target == Landed(s, "ev", asked)
<1>1. w.sp \in [Assets -> Int] /\ w.sp.ev \in Int /\ "ev" \in Assets
    BY DEF Moves, Assets
<1>2. excess \in Int
    BY <1>1, LimitsAreInts, ProjectionsAreInts
<1> HIDE DEF excess
<1>3. CASE excess < DEAD_BAND
    BY <1>1, <1>3 DEF HoldWhereCommandsLand, excess
<1>4. CASE ~(excess < DEAD_BAND)
    <2>1. asked \in Nat /\ asked <= Most(w.sp.ev, 0)
        BY <1>1, <1>2, <1>4 DEF Most, DEAD_BAND
    <2> HIDE DEF asked
    <2>2. target \in 0..asked
        BY <2>1, ChargerLandsBelow
    <2> HIDE DEF target
    <2>3. PICK t \in Int : t = target
        BY <2>1, <2>2
    <2>4. PICK l : HoldWhereCommandsLand(s, w) = [w EXCEPT !.sp.ev = t, !.lever = l]
        BY <1>4, <2>3 DEF HoldWhereCommandsLand, EvTarget, excess, target, asked
    <2>5. HoldWhereCommandsLand(s, w).sp = [w.sp EXCEPT !["ev"] = t]
        BY <2>4 DEF Moves
    <2>6. ASSUME world.lost
          PROVE  InFailSafe([w.sp EXCEPT !["ev"] = t])
        <3>1. t \in FailSafeFloor("ev")..FailSafeCeiling("ev")
            BY <1>1, <2>1, <2>2, <2>3, <2>6, FailSafeContainsZero DEF InFailSafe, Most
        <3> QED BY <1>1, <2>6, <3>1 DEF InFailSafe, Assets
    <2> QED BY <1>1, <2>3, <2>5, <2>6
<1> QED BY <1>3, <1>4

-----------------------------------------------------------------------------
(* The fail-safe holds                                                     *)

LEMMA InitHolds == Init => Typed /\ StaysInFailSafe
<1> SUFFICES ASSUME Init PROVE Typed /\ StaysInFailSafe
    OBVIOUS
<1>1. IsWorld(world)
    BY ArbiterAssumption DEF Init
<1>2. pending \in Int /\ pvLimit \in Int /\ bridge \in Int /\ command \in [Assets -> Int]
    BY ArbiterAssumption, RatesAssumption DEF Init
<1>3. StaysInFailSafe
    BY DEF Init, StaysInFailSafe
<1> QED BY <1>1, <1>2, <1>3 DEF Typed

LEMMA ChangeKeepsTyped ==
    ASSUME Typed, StaysInFailSafe, NEW f \in DOMAIN Values, Change(f)
    PROVE  Typed' /\ StaysInFailSafe'
<1>1. PICK v \in Values[f] : world' = [world EXCEPT ![f] = v]
    BY DEF Change
<1>2. f \in DOMAIN Fields /\ v \in Fields[f]
    BY <1>1, ArbiterAssumption
<1>3. IsWorld(world)'
    BY <1>1, <1>2 DEF Typed, IsWorld
<1>4. UNCHANGED <<command, pending, pvLimit, bridge, outcome>>
    BY DEF Change
<1> QED BY <1>3, <1>4 DEF Typed, StaysInFailSafe

LEMMA StoredWorldIsWorld ==
    ASSUME IsWorld(world), NEW kw
    PROVE  IsWorld([world EXCEPT !.store = StoreAfter(kw)])
<1>1. StoreAfter(kw) \in {"empty", "low", "middle", "high", "full"}
    BY WorldIsMeasured DEF StoreAfter
<1>2. Fields.store = {"empty", "low", "middle", "high", "full"} /\ "store" \in DOMAIN Fields
    BY DEF Fields
<1> QED BY <1>1, <1>2 DEF IsWorld

LEMMA TickStaysInFailSafe ==
    ASSUME Typed, Tick
    PROVE  Typed' /\ StaysInFailSafe'
<1> DEFINE s == Snapshot
           proposed == Propose(s)
           dispatched == DispatchOverride(s, proposed.sp)
           clamped == CommsLossClamp(dispatched)
           enforced == EnforceImportLimit(s, clamped, proposed.tighten)
           final == HoldWhereCommandsLand(s, enforced)
<1>1. /\ command' = final.sp
      /\ pending' = IF world.plugged THEN Landed(s, "ev", final.sp.ev) ELSE 0
      /\ pvLimit' = PvGenerationLimit(proposed.tighten)
      /\ bridge' = proposed.bridge + enforced.bridge
      /\ outcome'.lost = world.lost
      /\ world' = [world EXCEPT !.store = StoreAfter(BatteryStep(final.sp.battery))]
    BY DEF Tick
<1>2. Measured(s)
    BY SnapshotIsMeasured
<1> HIDE DEF s
<1>3. proposed \in Moves
    BY <1>2, ProposeMoves
<1>4. proposed.sp \in [Assets -> Int] /\ proposed.tighten \in Int /\ proposed.bridge \in Int
    BY <1>3 DEF Moves
<1> HIDE DEF proposed
<1>5. dispatched \in [Assets -> Int]
    BY <1>2, <1>4, DispatchIsInts
<1> HIDE DEF dispatched
<1>6. clamped \in [Assets -> Int] /\ (world.lost => InFailSafe(clamped))
    BY <1>5, ClampIsInFailSafe
<1> HIDE DEF clamped
<1>7. enforced \in Moves /\ (world.lost => InFailSafe(enforced.sp))
    BY <1>2, <1>4, <1>6, LimitStaysInFailSafe
<1> HIDE DEF enforced
<1>8. final.sp \in [Assets -> Int] /\ (world.lost => InFailSafe(final.sp))
    BY <1>2, <1>7, HoldStaysInFailSafe
<1> HIDE DEF final
<1>9. IsWorld(world)'
    BY <1>1, StoredWorldIsWorld DEF Typed
<1>10. pending' \in Int
    <2>1. "ev" \in Assets
        BY DEF Assets
    <2>2. Landed(s, "ev", final.sp.ev) \in Int
        BY <1>8, <2>1, LandedIsInt
    <2> QED BY <1>1, <2>2
<1>11. pvLimit' \in Int
    BY <1>1, <1>4, LimitsAreInts
<1>12. bridge' \in Int
    <2>1. enforced.bridge \in Int
        BY <1>7 DEF Moves
    <2> QED BY <1>1, <1>4, <2>1
<1>13. StaysInFailSafe'
    BY <1>1, <1>8 DEF StaysInFailSafe, InFailSafe
<1> QED BY <1>1, <1>8, <1>9, <1>10, <1>11, <1>12, <1>13 DEF Typed

\* While the VTN is lost no command leaves the fail-safe's share of its asset's
\* rating, for every site and plan: apply_comms_loss_clamp bounds the commands,
\* and the limit pass that runs after it sheds within storage_setpoint_range_kw,
\* or by charging and heating less.
THEOREM FailSafeHolds == Spec => []StaysInFailSafe
<1>1. Init => Typed /\ StaysInFailSafe
    BY InitHolds
<1>2. ASSUME Typed /\ StaysInFailSafe, [Next]_vars
      PROVE  (Typed /\ StaysInFailSafe)'
    <2>1. CASE Tick
        BY <1>2, <2>1, TickStaysInFailSafe
    <2>2. CASE \E f \in DOMAIN Values : Change(f)
        BY <1>2, <2>2, ChangeKeepsTyped
    <2>3. CASE UNCHANGED vars
        BY <1>2, <2>3 DEF vars, Typed, StaysInFailSafe, IsWorld
    <2> QED BY <1>2, <2>1, <2>2, <2>3 DEF Next
<1> QED BY <1>1, <1>2, PTL DEF Spec

-----------------------------------------------------------------------------
(* The lever loop, turn by turn                                            *)

\* What holds turn by turn, holds when the loop ends: G[i] is what may be true
\* before turn i, kept by applying a lever that is due in it, and by doing
\* nothing where the pass is done or no lever is due.
LEMMA LoopKeeps ==
    ASSUME NEW s, NEW p, NEW sp, NEW dev, NEW G,
           [Untouched(sp) EXCEPT !.left = Abs(dev)] \in G[1],
           \A i \in 1..5 : \A w \in G[i] :
               /\ w.left < DEAD_BAND \/ Due(LeverCandidates(s, p, sp, dev), p.incumbent, i) = {}
                    => w \in G[i + 1]
               /\ ~(w.left < DEAD_BAND) =>
                    \A l \in Due(LeverCandidates(s, p, sp, dev), p.incumbent, i) :
                        ApplyLever(s, p, w, dev, l) \in G[i + 1]
    PROVE  ApplyRankedLevers(s, p, sp, dev) \in G[6]
<1> DEFINE start == [Untouched(sp) EXCEPT !.left = Abs(dev)]
           levers == LeverCandidates(s, p, sp, dev)
           Holds(W, g) == W # {} /\ \A w \in W : w \in g
           W0 == {start}
           W1 == Turn(s, p, dev, levers, 1, W0)
           W2 == Turn(s, p, dev, levers, 2, W1)
           W3 == Turn(s, p, dev, levers, 3, W2)
           W4 == Turn(s, p, dev, levers, 4, W3)
           W5 == Turn(s, p, dev, levers, 5, W4)
<1>1. ASSUME NEW i \in 1..5, NEW W, Holds(W, G[i])
      PROVE  Holds(Turn(s, p, dev, levers, i, W), G[i + 1])
    <2>1. Turn(s, p, dev, levers, i, W) # {}
        BY <1>1 DEF Turn
    <2>2. ASSUME NEW v \in Turn(s, p, dev, levers, i, W)
          PROVE  v \in G[i + 1]
        <3> DEFINE due == Due(levers, p.incumbent, i)
                   first == CHOOSE l \in due : TRUE
        <3>1. PICK w \in W :
                v = IF w.left < DEAD_BAND \/ due = {} THEN w ELSE ApplyLever(s, p, w, dev, first)
            BY <2>2 DEF Turn
        <3>2. w \in G[i]
            BY <1>1, <3>1
        <3>3. CASE w.left < DEAD_BAND \/ due = {}
            BY <3>1, <3>2, <3>3
        <3>4. CASE ~(w.left < DEAD_BAND \/ due = {})
            <4>1. first \in due
                BY <3>4
            <4>2. ApplyLever(s, p, w, dev, first) \in G[i + 1]
                BY <3>2, <3>4, <4>1
            <4> QED BY <3>1, <3>4, <4>2
        <3> QED BY <3>3, <3>4
    <2> QED BY <2>1, <2>2
<1>2. Turns(s, p, sp, dev, levers) = W5
    BY DEF Turns
<1>3. Holds(W0, G[1])
    OBVIOUS
<1> HIDE DEF start, levers, Holds
<1>4. 1 + 1 = 2 /\ 2 + 1 = 3 /\ 3 + 1 = 4 /\ 4 + 1 = 5 /\ 5 + 1 = 6
    OBVIOUS
<1> HIDE DEF W0
<1>5. Holds(W1, G[2])
    BY <1>1, <1>3, <1>4
<1> HIDE DEF W1
<1>6. Holds(W2, G[3])
    BY <1>1, <1>4, <1>5
<1> HIDE DEF W2
<1>7. Holds(W3, G[4])
    BY <1>1, <1>4, <1>6
<1> HIDE DEF W3
<1>8. Holds(W4, G[5])
    BY <1>1, <1>4, <1>7
<1> HIDE DEF W4
<1>9. Holds(W5, G[6])
    BY <1>1, <1>4, <1>8
<1> HIDE DEF W5
<1>10. ApplyRankedLevers(s, p, sp, dev) = CHOOSE w \in W5 : TRUE
    BY <1>2 DEF ApplyRankedLevers, levers
<1> QED BY <1>9, <1>10 DEF Holds

\* The candidates are told apart by their kinds.
LEMMA CandidateOfKind ==
    ASSUME NEW s, NEW p, NEW sp, NEW dev, NEW l \in LeverCandidates(s, p, sp, dev)
    PROVE  /\ l.kind \in p.admits /\ Usable(s, p, dev, l.kind)
           /\ l.capacity = Capacity(s, p, sp, dev, l.kind) /\ l.capacity > 0
           /\ \A m \in LeverCandidates(s, p, sp, dev) : m.kind = l.kind => m = l
<1> DEFINE Candidate(k) ==
        [kind |-> k, cost |-> Cost(s, dev, k), capacity |-> Capacity(s, p, sp, dev, k)]
<1>1. \A m \in LeverCandidates(s, p, sp, dev) : \E k \in p.admits :
        Usable(s, p, dev, k) /\ Capacity(s, p, sp, dev, k) > 0 /\ m = Candidate(k)
    BY DEF LeverCandidates
<1>2. \A k : Candidate(k).kind = k /\ Candidate(k).capacity = Capacity(s, p, sp, dev, k)
    OBVIOUS
<1>3. PICK k \in p.admits :
        Usable(s, p, dev, k) /\ Capacity(s, p, sp, dev, k) > 0 /\ l = Candidate(k)
    BY <1>1
<1>4. l.kind = k /\ l.capacity = Capacity(s, p, sp, dev, k)
    BY <1>2, <1>3
<1>5. ASSUME NEW m \in LeverCandidates(s, p, sp, dev), m.kind = l.kind
      PROVE  m = l
    <2>1. PICK j \in p.admits : m = Candidate(j)
        BY <1>1
    <2>2. j = k
        BY <1>2, <1>4, <1>5, <2>1
    <2> QED BY <1>3, <2>1, <2>2
<1> QED BY <1>3, <1>4, <1>5

\* No lever is due in two turns: its place, or the incumbent's it gave way to.
LEMMA DueOnce ==
    ASSUME NEW levers, NEW incumbent, NEW i, NEW j, NEW l,
           \A k \in levers : \A m \in levers : k.kind = m.kind => k = m,
           l \in Due(levers, incumbent, i), l \in Due(levers, incumbent, j)
    PROVE  i = j
<1> DEFINE kept == KeptIncumbent(levers, incumbent)
<1>1. \A k \in kept : \A m \in kept : k = m
    BY DEF KeptIncumbent
<1> HIDE DEF kept
<1>2. CASE l \in kept
    <2>1. i = 1 /\ j = 1
        BY <1>2 DEF Due, kept
    <2> QED BY <2>1
<1>3. CASE l \notin kept
    <2>1. l \in {m \in levers \ kept :
                    IF kept # {} /\ Place(levers, m) = 1
                    THEN \E k \in kept : i = Place(levers, k)
                    ELSE i = Place(levers, m)}
        BY <1>3 DEF Due, kept
    <2>2. l \in {m \in levers \ kept :
                    IF kept # {} /\ Place(levers, m) = 1
                    THEN \E k \in kept : j = Place(levers, k)
                    ELSE j = Place(levers, m)}
        BY <1>3 DEF Due, kept
    <2>3. IF kept # {} /\ Place(levers, l) = 1
          THEN (\E k \in kept : i = Place(levers, k)) /\ (\E k \in kept : j = Place(levers, k))
          ELSE i = Place(levers, l) /\ j = Place(levers, l)
        BY <2>1, <2>2
    <2> QED BY <1>1, <2>3
<1> QED BY <1>2, <1>3

LEMMA DueAreLevers ==
    ASSUME NEW levers, NEW incumbent, NEW i
    PROVE  Due(levers, incumbent, i) \subseteq levers
BY DEF Due, KeptIncumbent

-----------------------------------------------------------------------------
(* What each lever leaves behind                                           *)

\* The heater's rating is its largest step.
LEMMA HeaterMaxIsMost ==
    HeaterMax \in HeaterSteps /\ \A q \in HeaterSteps : q <= HeaterMax
BY StepsAssumption DEF HeaterMax

Signed(dev, kw) == IF dev > 0 THEN kw ELSE -kw

LEMMA SignIsSigned ==
    ASSUME NEW dev \in Int, NEW kw \in Int
    PROVE  Sign(dev) * kw = Signed(dev, kw) /\ Signed(dev, kw) \in Int
BY DEF Sign, Signed

\* The loop's state with one command and what goes with it replaced.
BatterySet(w, t, x, y) == [w EXCEPT !.sp.battery = t, !.lagging = x, !.bridge = y]
EvSet(w, t, x) == [w EXCEPT !.sp.ev = t, !.lagging = x]
HeaterSet(w, t) == [w EXCEPT !.sp.heater = t]
ModeSet(w, m) == [w EXCEPT !.mode = m]

LEMMA BatteryIsSet ==
    ASSUME NEW w \in Moves, NEW t \in Int, NEW x \in Int, NEW y \in Int
    PROVE  /\ BatterySet(w, t, x, y) \in Moves
           /\ BatterySet(w, t, x, y).sp = [w.sp EXCEPT !["battery"] = t]
           /\ BatterySet(w, t, x, y).left = w.left /\ BatterySet(w, t, x, y).mode = w.mode
           /\ BatterySet(w, t, x, y).tighten = w.tighten
           /\ BatterySet(w, t, x, y).lagging = x /\ BatterySet(w, t, x, y).bridge = y
BY DEF BatterySet, Moves

LEMMA EvIsSet ==
    ASSUME NEW w \in Moves, NEW t \in Int, NEW x \in Int
    PROVE  /\ EvSet(w, t, x) \in Moves /\ EvSet(w, t, x).sp = [w.sp EXCEPT !["ev"] = t]
           /\ EvSet(w, t, x).left = w.left /\ EvSet(w, t, x).mode = w.mode
           /\ EvSet(w, t, x).tighten = w.tighten
           /\ EvSet(w, t, x).lagging = x /\ EvSet(w, t, x).bridge = w.bridge
BY DEF EvSet, Moves

LEMMA HeaterIsSet ==
    ASSUME NEW w \in Moves, NEW t \in Int
    PROVE  /\ HeaterSet(w, t) \in Moves /\ HeaterSet(w, t).sp = [w.sp EXCEPT !["heater"] = t]
           /\ HeaterSet(w, t).left = w.left /\ HeaterSet(w, t).mode = w.mode
           /\ HeaterSet(w, t).tighten = w.tighten
           /\ HeaterSet(w, t).lagging = w.lagging /\ HeaterSet(w, t).bridge = w.bridge
BY DEF HeaterSet, Moves

LEMMA ModeIsSet ==
    ASSUME NEW w \in Moves, NEW m \in {"normal", "curtail", "absorb"}
    PROVE  /\ ModeSet(w, m) \in Moves /\ ModeSet(w, m).sp = w.sp
           /\ ModeSet(w, m).left = w.left /\ ModeSet(w, m).mode = m
           /\ ModeSet(w, m).tighten = w.tighten
           /\ ModeSet(w, m).lagging = w.lagging /\ ModeSet(w, m).bridge = w.bridge
BY DEF ModeSet, Moves

\* What a battery that obeys no refusing objective is left with.
Refused(s, p, dev) == p.obeysObjective /\ s.slot.maxRevenue /\ dev > 0

BatteryLeaves(s, p, w, dev, kw, v) ==
    \E target, moved, bridging \in Int :
        /\ target = BatteryTarget(s, p, w, Signed(dev, kw))
        /\ moved = Abs(target - w.sp.battery)
        /\ bridging = Least(moved, w.lagging)
        /\ v \in Moves /\ v.sp = [w.sp EXCEPT !["battery"] = target]
        /\ target \in StorageFloor(s, p)..StorageCeiling(s, p) /\ moved >= 0
        /\ v.left = w.left - moved /\ v.mode = w.mode /\ v.tighten = w.tighten
        /\ v.lagging = w.lagging - bridging /\ v.bridge = w.bridge - Signed(dev, bridging)

LEMMA BatteryEffect ==
    ASSUME NEW s, NEW p, NEW w \in Moves, NEW dev \in Int, NEW kw \in Int,
           ~Refused(s, p, dev)
    PROVE  BatteryLeaves(s, p, w, dev, kw, ApplyBattery(s, p, w, dev, kw))
<1> DEFINE v == ApplyBattery(s, p, w, dev, kw)
<1>0. PICK target, moved, bridging :
        /\ target = BatteryTarget(s, p, w, Signed(dev, kw))
        /\ moved = Abs(target - w.sp.battery)
        /\ bridging = Least(moved, w.lagging)
    OBVIOUS
<1>1. w.sp \in [Assets -> Int] /\ w.sp.battery \in Int /\ w.lagging \in Int /\ w.bridge \in Int
    BY DEF Moves, Assets
<1>2. Sign(dev) * kw = Signed(dev, kw) /\ Signed(dev, kw) \in Int
    BY SignIsSigned
<1>3. target \in Int /\ StorageFloor(s, p) <= target /\ target <= StorageCeiling(s, p)
    BY <1>0, <1>1, <1>2, StorageRange DEF BatteryTarget, Clamped, Least, Most
<1>4. moved \in Nat /\ moved \in Int /\ bridging \in Int
    BY <1>0, <1>1, <1>3 DEF Abs, Most, Least
<1>5. Sign(dev) * bridging = Signed(dev, bridging) /\ Signed(dev, bridging) \in Int
    BY <1>4, SignIsSigned
<1> DEFINE w2 == Achieved(w, "battery", moved)
<1>6. /\ w2 \in Moves /\ w2.sp = w.sp /\ w2.lagging = w.lagging /\ w2.bridge = w.bridge
      /\ w2.left = w.left - moved /\ w2.mode = w.mode /\ w2.tighten = w.tighten
    <2>1. "battery" \in Levers
        BY DEF Levers
    <2> QED BY <1>4, <2>1, AchievedMoves, Zenon
<1>7. v = [w2 EXCEPT !.sp.battery = target, !.lagging = w2.lagging - bridging,
                     !.bridge = w2.bridge - Signed(dev, bridging)]
    BY <1>0, <1>2, <1>5 DEF ApplyBattery, w2, Refused
<1> HIDE DEF w2
<1>8. PICK x \in Int, y \in Int : x = w2.lagging - bridging /\ y = w2.bridge - Signed(dev, bridging)
    BY <1>1, <1>4, <1>5, <1>6
<1>9. v = BatterySet(w2, target, x, y)
    BY <1>7, <1>8 DEF BatterySet
<1>10. v \in Moves /\ v.sp = [w2.sp EXCEPT !["battery"] = target] /\ v.left = w2.left
       /\ v.mode = w2.mode /\ v.tighten = w2.tighten /\ v.lagging = x /\ v.bridge = y
    BY <1>3, <1>6, <1>8, <1>9, BatteryIsSet
<1>11. StorageFloor(s, p) \in Int /\ StorageCeiling(s, p) \in Int
    BY StorageRange
<1>12. /\ v \in Moves /\ v.sp = [w.sp EXCEPT !["battery"] = target]
       /\ target \in StorageFloor(s, p)..StorageCeiling(s, p) /\ moved >= 0
       /\ v.left = w.left - moved /\ v.mode = w.mode /\ v.tighten = w.tighten
       /\ v.lagging = w.lagging - bridging /\ v.bridge = w.bridge - Signed(dev, bridging)
    BY <1>3, <1>4, <1>6, <1>8, <1>10, <1>11
<1>13. target \in Int /\ moved \in Int /\ bridging \in Int
    BY <1>3, <1>4
<1> HIDE DEF v
<1>14. BatteryLeaves(s, p, w, dev, kw, v)
    BY <1>0, <1>12, <1>13 DEF BatteryLeaves
<1> QED BY <1>14 DEF v

\* What the charger is left with: nothing has moved yet.
LEMMA EvEffect ==
    ASSUME NEW s, NEW w \in Moves, NEW dev \in Int, NEW kw \in Nat,
           NEW asked, asked = Most(Most(w.sp.ev, 0) - Signed(dev, kw), 0),
           NEW target, target = Landed(s, "ev", asked),
           NEW landing, landing = Abs(Landed(s, "ev", Most(w.sp.ev, 0)) - target),
           NEW v, v = ApplyEv(s, w, dev, kw)
    PROVE  /\ v \in Moves /\ v.sp = [w.sp EXCEPT !["ev"] = target]
           /\ asked \in Nat /\ target \in 0..asked /\ landing \in Int
           /\ v.left = w.left /\ v.mode = w.mode /\ v.tighten = w.tighten
           /\ v.lagging = w.lagging + landing /\ v.bridge = w.bridge
<1>1. w.sp \in [Assets -> Int] /\ w.sp.ev \in Int /\ w.lagging \in Int /\ "ev" \in Assets
    BY DEF Moves, Assets
<1>2. Sign(dev) * kw = Signed(dev, kw) /\ Signed(dev, kw) \in Int
    BY SignIsSigned
<1>3. asked \in Nat
    BY <1>1, <1>2 DEF Most
<1>4. target \in 0..asked /\ target \in Int
    BY <1>3, ChargerLandsBelow
<1>5. landing \in Int
    <2>1. Landed(s, "ev", Most(w.sp.ev, 0)) \in Int
        BY <1>1, LandedIsInt DEF Most
    <2> QED BY <1>4, <2>1 DEF Abs, Most
<1>6. v = [w EXCEPT !.sp.ev = target, !.lagging = w.lagging + landing]
    BY <1>2 DEF ApplyEv, EvTarget
<1>7. PICK x \in Int : x = w.lagging + landing
    BY <1>1, <1>5
<1>8. v = EvSet(w, target, x)
    BY <1>6, <1>7 DEF EvSet
<1>9. /\ v \in Moves /\ v.sp = [w.sp EXCEPT !["ev"] = target] /\ v.left = w.left
      /\ v.mode = w.mode /\ v.tighten = w.tighten /\ v.lagging = x /\ v.bridge = w.bridge
    BY <1>4, <1>7, <1>8, EvIsSet
<1> QED BY <1>3, <1>4, <1>5, <1>7, <1>9

LEMMA HeaterPauseEffect ==
    ASSUME NEW s, Measured(s), NEW w \in Moves, NEW kw \in Nat,
           NEW target, target = HeaterTarget(s, w, kw),
           NEW v, v = ApplyHeaterPause(s, w, kw)
    PROVE  /\ v \in Moves /\ v.sp = [w.sp EXCEPT !["heater"] = target]
           /\ target \in Nat /\ target <= HeaterMax
           /\ v.left = w.left - (Drawn(s, "heater", w.sp.heater) - Drawn(s, "heater", target))
           /\ v.mode = w.mode /\ v.tighten = w.tighten
           /\ v.lagging = w.lagging /\ v.bridge = w.bridge
<1> DEFINE shed == Drawn(s, "heater", w.sp.heater) - Drawn(s, "heater", target)
           w2 == Achieved(w, "heater_pause", shed)
<1>1. w.sp \in [Assets -> Int] /\ w.sp.heater \in Int /\ "heater" \in Assets
    BY DEF Moves, Assets
<1>2. target \in HeaterSteps
    <2> DEFINE asked == Clamped(Most(Drawn(s, "heater", w.sp.heater) - kw, 0), 0, Ceiling(s, "heater"))
    <2>1. Drawn(s, "heater", w.sp.heater) \in Int
        BY <1>1, DrawnIsInt
    <2>2. asked \in Int
        BY <1>1, <2>1, RangesAreIntervals DEF Clamped, Least, Most
    <2>3. target = StepAtOrBelow(asked)
        BY DEF HeaterTarget
    <2> HIDE DEF asked
    <2> QED BY <2>2, <2>3, StepAtOrBelowIsBelow
<1>3. target \in Nat /\ target \in Int /\ target <= HeaterMax
    BY <1>2, StepsAreNats, HeaterMaxIsMost
<1>4. shed \in Int
    BY <1>1, <1>3, DrawnIsInt
<1>5. v = [Achieved(w, "heater_pause", shed) EXCEPT !.sp.heater = target]
    BY DEF ApplyHeaterPause, shed
<1> HIDE DEF shed
<1>6. /\ w2 \in Moves /\ w2.sp = w.sp /\ w2.lagging = w.lagging /\ w2.bridge = w.bridge
      /\ w2.left = w.left - shed /\ w2.mode = w.mode /\ w2.tighten = w.tighten
    BY <1>4, AchievedMoves DEF Levers
<1>7. v = HeaterSet(w2, target)
    BY <1>5 DEF w2, HeaterSet
<1> HIDE DEF w2
<1>8. /\ v \in Moves /\ v.sp = [w2.sp EXCEPT !["heater"] = target] /\ v.left = w2.left
      /\ v.mode = w2.mode /\ v.tighten = w2.tighten /\ v.lagging = w2.lagging
      /\ v.bridge = w2.bridge
    BY <1>3, <1>6, <1>7, HeaterIsSet
<1> QED BY <1>3, <1>6, <1>8 DEF shed

LEMMA HeaterEmergencyEffect ==
    ASSUME NEW w \in Moves, NEW dev \in Int, NEW kw \in Nat,
           NEW v, v = ApplyHeaterEmergency(w, dev, kw)
    PROVE  /\ v \in Moves
           /\ v.sp = IF dev > 0 THEN [w.sp EXCEPT !["heater"] = 0] ELSE w.sp
           /\ v.mode = IF dev > 0 THEN "curtail" ELSE "absorb"
           /\ v.left = w.left - kw /\ v.tighten = w.tighten
           /\ v.lagging = w.lagging /\ v.bridge = w.bridge
<1> DEFINE w2 == Achieved(w, "heater_emergency", kw)
<1>1. kw \in Int
    OBVIOUS
<1>2. /\ w2 \in Moves /\ w2.sp = w.sp /\ w2.lagging = w.lagging /\ w2.bridge = w.bridge
      /\ w2.left = w.left - kw /\ w2.mode = w.mode /\ w2.tighten = w.tighten
    BY <1>1, AchievedMoves DEF Levers
<1>3. v = IF dev > 0 THEN [w2 EXCEPT !.sp.heater = 0, !.mode = "curtail"]
          ELSE [w2 EXCEPT !.mode = "absorb"]
    BY DEF ApplyHeaterEmergency, w2
<1> HIDE DEF w2
<1>4. CASE dev > 0
    <2>1. v = ModeSet(HeaterSet(w2, 0), "curtail")
        <3>1. v = [w2 EXCEPT !.sp.heater = 0, !.mode = "curtail"]
            BY <1>3, <1>4
        <3> QED BY <1>2, <3>1 DEF ModeSet, HeaterSet, Moves
    <2>2. /\ HeaterSet(w2, 0) \in Moves /\ HeaterSet(w2, 0).sp = [w2.sp EXCEPT !["heater"] = 0]
          /\ HeaterSet(w2, 0).left = w2.left /\ HeaterSet(w2, 0).tighten = w2.tighten
          /\ HeaterSet(w2, 0).lagging = w2.lagging /\ HeaterSet(w2, 0).bridge = w2.bridge
        BY <1>2, HeaterIsSet
    <2>3. /\ v \in Moves /\ v.sp = HeaterSet(w2, 0).sp /\ v.left = HeaterSet(w2, 0).left
          /\ v.mode = "curtail" /\ v.tighten = HeaterSet(w2, 0).tighten
          /\ v.lagging = HeaterSet(w2, 0).lagging /\ v.bridge = HeaterSet(w2, 0).bridge
        BY <2>1, <2>2, ModeIsSet
    <2> QED BY <1>2, <1>4, <2>2, <2>3
<1>5. CASE ~(dev > 0)
    <2>1. v = [w2 EXCEPT !.mode = "absorb"]
        BY <1>3, <1>5
    <2>2. v \in Moves
        BY <1>2, <2>1 DEF Moves
    <2>3. /\ v.sp = w2.sp /\ v.left = w2.left /\ v.mode = "absorb"
          /\ v.tighten = w2.tighten /\ v.lagging = w2.lagging /\ v.bridge = w2.bridge
        BY <1>2, <2>1 DEF Moves
    <2> QED BY <1>2, <1>5, <2>2, <2>3
<1> QED BY <1>4, <1>5

LEMMA PvCurtailEffect ==
    ASSUME NEW w \in Moves, NEW kw \in Int, NEW v, v = ApplyPvCurtail(w, kw)
    PROVE  /\ v \in Moves /\ v.sp = w.sp /\ v.tighten = kw
           /\ v.left = w.left - kw /\ v.mode = w.mode
           /\ v.lagging = w.lagging /\ v.bridge = w.bridge
<1> DEFINE w2 == Achieved(w, "pv_curtail", kw)
<1>1. /\ w2 \in Moves /\ w2.sp = w.sp /\ w2.lagging = w.lagging /\ w2.bridge = w.bridge
      /\ w2.left = w.left - kw /\ w2.mode = w.mode
    BY AchievedMoves DEF Levers
<1>2. v = [w2 EXCEPT !.tighten = kw]
    BY DEF ApplyPvCurtail, w2
<1> HIDE DEF w2
<1> QED BY <1>1, <1>2 DEF Moves

-----------------------------------------------------------------------------
(* What any pass leaves behind                                             *)

\* The power the charger lands at: no more than it is asked for or rated for,
\* kept when it is commanded, and never less for being asked for more.
LEMMA LandedCharge ==
    ASSUME NEW s, NEW kw \in Nat
    PROVE  /\ Landed(s, "ev", kw) \in 0..EvMax /\ Landed(s, "ev", kw) \in Nat
           /\ Landed(s, "ev", Landed(s, "ev", kw)) = Landed(s, "ev", kw)
           /\ \A more \in Nat : kw <= more => Landed(s, "ev", kw) <= Landed(s, "ev", more)
<1> DEFINE ceiling == IF s.plugged /\ ~s.charged THEN EvMax ELSE 0
           lands(x) == IF Least(x, ceiling) < EvMin THEN 0 ELSE Least(x, ceiling)
<1>1. ceiling \in 0..EvMax /\ EvMax \in Nat /\ EvMin \in Nat
    BY RatesAssumption
<1>2. \A x \in Nat : Landed(s, "ev", x) = lands(x)
    <2> TAKE x \in Nat
    <2>1. Ceiling(s, "ev") = ceiling /\ Floor(s, "ev") = 0
        BY DEF Ceiling, Floor
    <2>2. Clamped(x, 0, ceiling) = Least(x, ceiling)
        BY <1>1 DEF Clamped, Most
    <2> HIDE DEF ceiling
    <2> QED BY <2>1, <2>2 DEF Landed
<1> HIDE DEF ceiling
<1>3. \A x \in Nat : lands(x) \in 0..EvMax /\ lands(x) \in Nat /\ lands(lands(x)) = lands(x)
    BY <1>1 DEF Least
<1>4. \A x, y \in Nat : x <= y => lands(x) <= lands(y)
    BY <1>1 DEF Least
<1> HIDE DEF lands
<1> QED BY <1>2, <1>3, <1>4

\* What the charger draws once the command in sp has landed.
Awaited(s, sp) == Landed(s, "ev", Most(sp.ev, 0))

LEMMA AwaitedIsBounded ==
    ASSUME NEW s, NEW sp \in [Assets -> Int]
    PROVE  Awaited(s, sp) \in 0..EvMax /\ Awaited(s, sp) \in Int
<1>1. Most(sp.ev, 0) \in Nat
    BY DEF Most, Assets
<1> QED BY <1>1, LandedCharge DEF Awaited

\* Commands are left alone or set within their assets' ranges; what the charger
\* still owes is bridged by the battery or left over.
Passed(s, p, sp, dev) ==
    {w \in Moves :
        /\ \/ w.sp.battery = sp.battery /\ w.bridge = 0
           \/ w.sp.battery \in StorageFloor(s, p)..StorageCeiling(s, p)
        /\ w.sp.ev = sp.ev \/ w.sp.ev \in 0..EvMax
        /\ w.sp.heater = sp.heater \/ w.sp.heater \in 0..HeaterMax
        /\ w.tighten >= 0
        /\ w.lagging >= 0 /\ Signed(dev, w.bridge) <= 0
        /\ w.lagging - Signed(dev, w.bridge) = Signed(dev, Awaited(s, sp) - Awaited(s, w.sp))}

LEMMA BatteryIsPassed ==
    ASSUME NEW s, NEW p, NEW sp \in [Assets -> Int], NEW dev \in Int,
           NEW w \in Passed(s, p, sp, dev), NEW kw \in Int
    PROVE  ApplyBattery(s, p, w, dev, kw) \in Passed(s, p, sp, dev)
<1> DEFINE v == ApplyBattery(s, p, w, dev, kw)
<1>1. CASE Refused(s, p, dev)
    BY <1>1 DEF ApplyBattery, Refused
<1>2. CASE ~Refused(s, p, dev)
    <2>1. w \in Moves
        BY DEF Passed
    <2> HIDE DEF v
    <2>2. v = ApplyBattery(s, p, w, dev, kw)
        BY DEF v
    <2>3. PICK target, moved, bridging \in Int :
            /\ target = BatteryTarget(s, p, w, Signed(dev, kw))
            /\ moved = Abs(target - w.sp.battery)
            /\ bridging = Least(moved, w.lagging)
            /\ v \in Moves /\ v.sp = [w.sp EXCEPT !["battery"] = target]
            /\ target \in StorageFloor(s, p)..StorageCeiling(s, p) /\ moved >= 0
            /\ v.left = w.left - moved /\ v.mode = w.mode /\ v.tighten = w.tighten
            /\ v.lagging = w.lagging - bridging /\ v.bridge = w.bridge - Signed(dev, bridging)
        <3>1. BatteryLeaves(s, p, w, dev, kw, v)
            BY <1>2, <2>1, <2>2, BatteryEffect
        <3> QED BY <3>1 DEF BatteryLeaves
    <2>4. /\ w.sp \in [Assets -> Int] /\ w.lagging \in Int /\ w.bridge \in Int
        BY <2>1 DEF Moves
    <2>5. /\ v.sp.battery = target /\ v.sp.ev = w.sp.ev /\ v.sp.heater = w.sp.heater
        BY <2>3, <2>4 DEF Assets
    <2>6. Awaited(s, v.sp) = Awaited(s, w.sp) /\ Awaited(s, w.sp) \in Int /\ Awaited(s, sp) \in Int
        BY <2>4, <2>5, AwaitedIsBounded DEF Awaited
    <2>7. w.lagging >= 0 /\ bridging >= 0 /\ bridging <= w.lagging
        BY <2>3, <2>4 DEF Passed, Least
    <2>10. /\ w.lagging >= 0 /\ Signed(dev, w.bridge) <= 0
           /\ w.lagging - Signed(dev, w.bridge) = Signed(dev, Awaited(s, sp) - Awaited(s, w.sp))
        BY DEF Passed
    <2>11. v.lagging = w.lagging - bridging /\ v.bridge = w.bridge - Signed(dev, bridging)
           /\ bridging \in Int
        BY <2>3
    <2>8. /\ v.lagging >= 0 /\ Signed(dev, v.bridge) <= 0
          /\ v.lagging - Signed(dev, v.bridge) = Signed(dev, Awaited(s, sp) - Awaited(s, v.sp))
        <3>1. CASE dev > 0
            BY <2>4, <2>6, <2>7, <2>10, <2>11, <3>1 DEF Signed
        <3>2. CASE ~(dev > 0)
            BY <2>4, <2>6, <2>7, <2>10, <2>11, <3>2 DEF Signed
        <3> QED BY <3>1, <3>2
    <2> QED BY <2>3, <2>5, <2>8 DEF Passed, v
<1> QED BY <1>1, <1>2

LEMMA EvIsPassed ==
    ASSUME NEW s, NEW p, NEW sp \in [Assets -> Int], NEW dev \in Int,
           NEW w \in Passed(s, p, sp, dev), NEW kw \in Nat
    PROVE  ApplyEv(s, w, dev, kw) \in Passed(s, p, sp, dev)
<1> DEFINE v == ApplyEv(s, w, dev, kw)
<1>1. w \in Moves
    BY DEF Passed
<1>2. PICK asked, target, landing :
        /\ asked = Most(Most(w.sp.ev, 0) - Signed(dev, kw), 0)
        /\ target = Landed(s, "ev", asked)
        /\ landing = Abs(Landed(s, "ev", Most(w.sp.ev, 0)) - target)
    OBVIOUS
<1> HIDE DEF v
<1>11. v = ApplyEv(s, w, dev, kw)
    BY DEF v
<1>3. /\ v \in Moves /\ v.sp = [w.sp EXCEPT !["ev"] = target]
      /\ asked \in Nat /\ target \in 0..asked /\ landing \in Int
      /\ v.left = w.left /\ v.mode = w.mode /\ v.tighten = w.tighten
      /\ v.lagging = w.lagging + landing /\ v.bridge = w.bridge
    BY <1>1, <1>2, <1>11, EvEffect
<1>4. w.sp \in [Assets -> Int] /\ w.sp.ev \in Int /\ w.lagging \in Int /\ w.bridge \in Int
    BY <1>1 DEF Moves, Assets
<1>5. v.sp.battery = w.sp.battery /\ v.sp.ev = target /\ v.sp.heater = w.sp.heater
    BY <1>3, <1>4 DEF Assets
<1>6. /\ Most(w.sp.ev, 0) \in Nat
      /\ dev > 0 => asked <= Most(w.sp.ev, 0)
      /\ ~(dev > 0) => Most(w.sp.ev, 0) <= asked
    BY <1>2, <1>4 DEF Most, Signed
<1>7. /\ target \in 0..EvMax /\ target \in Nat /\ Awaited(s, w.sp) \in Nat
      /\ Awaited(s, v.sp) = target
      /\ dev > 0 => target <= Awaited(s, w.sp)
      /\ ~(dev > 0) => Awaited(s, w.sp) <= target
    <2>1. target \in 0..EvMax /\ target \in Nat /\ Landed(s, "ev", target) = target
        BY <1>2, <1>3, LandedCharge
    <2>2. Most(target, 0) = target
        BY <2>1 DEF Most
    <2>3. Awaited(s, v.sp) = target
        BY <1>5, <2>1, <2>2 DEF Awaited
    <2>4. Awaited(s, w.sp) \in Nat
        BY <1>6, LandedCharge DEF Awaited
    <2>5. dev > 0 => target <= Awaited(s, w.sp)
        BY <1>2, <1>3, <1>6, LandedCharge DEF Awaited
    <2>6. ~(dev > 0) => Awaited(s, w.sp) <= target
        BY <1>2, <1>3, <1>6, LandedCharge DEF Awaited
    <2> QED BY <2>1, <2>3, <2>4, <2>5, <2>6
<1>8. landing = Signed(dev, Awaited(s, w.sp) - target) /\ landing >= 0
    BY <1>2, <1>7 DEF Abs, Most, Signed, Awaited
<1>9. Awaited(s, sp) \in Int
    BY AwaitedIsBounded
<1>12. /\ w.lagging >= 0 /\ Signed(dev, w.bridge) <= 0
       /\ w.lagging - Signed(dev, w.bridge) = Signed(dev, Awaited(s, sp) - Awaited(s, w.sp))
    BY DEF Passed
<1>10. /\ v.lagging >= 0 /\ Signed(dev, v.bridge) <= 0
       /\ v.lagging - Signed(dev, v.bridge) = Signed(dev, Awaited(s, sp) - Awaited(s, v.sp))
    <2>1. v.lagging = w.lagging + landing /\ v.bridge = w.bridge /\ Awaited(s, v.sp) = target
          /\ Awaited(s, w.sp) \in Int /\ target \in Int
        BY <1>3, <1>7
    <2>2. CASE dev > 0
        BY <1>4, <1>8, <1>9, <1>12, <2>1, <2>2 DEF Signed
    <2>3. CASE ~(dev > 0)
        BY <1>4, <1>8, <1>9, <1>12, <2>1, <2>3 DEF Signed
    <2> QED BY <2>2, <2>3
<1> QED BY <1>3, <1>5, <1>7, <1>10 DEF Passed, v

\* A lever that touches neither the charger nor the bridge.
LEMMA OtherIsPassed ==
    ASSUME NEW s, NEW p, NEW sp \in [Assets -> Int], NEW dev \in Int,
           NEW w \in Passed(s, p, sp, dev), NEW v \in Moves,
           v.sp.battery = w.sp.battery, v.sp.ev = w.sp.ev,
           v.sp.heater = w.sp.heater \/ v.sp.heater \in 0..HeaterMax,
           v.tighten >= 0, v.lagging = w.lagging, v.bridge = w.bridge
    PROVE  v \in Passed(s, p, sp, dev)
<1>1. Awaited(s, v.sp) = Awaited(s, w.sp)
    BY DEF Awaited
<1> QED BY <1>1 DEF Passed

LEMMA LeverIsPassed ==
    ASSUME NEW s, Measured(s), NEW p, p.admits \subseteq Levers,
           NEW sp \in [Assets -> Int], NEW dev \in Int,
           NEW w \in Passed(s, p, sp, dev), ~(w.left < DEAD_BAND),
           NEW l \in LeverCandidates(s, p, sp, dev)
    PROVE  ApplyLever(s, p, w, dev, l) \in Passed(s, p, sp, dev)
<1> DEFINE kw == Least(w.left, l.capacity)
           v == ApplyLever(s, p, w, dev, l)
<1>1. w \in Moves /\ w.sp \in [Assets -> Int] /\ w.tighten >= 0
    BY DEF Passed, Moves
<1>2. l.kind \in Levers /\ l.capacity \in Nat /\ l.capacity > 0
    BY CandidatesAreOffered DEF Offered
<1>3. kw \in Nat /\ kw \in Int
    BY <1>1, <1>2 DEF Moves, Least, DEAD_BAND
<1>4. HeaterMax \in Nat
    BY HeaterMaxIsStep, StepsAreNats
<1> HIDE DEF kw
<1>5. CASE l.kind = "battery"
    <2>1. v = ApplyBattery(s, p, w, dev, kw)
        BY <1>5 DEF ApplyLever, kw
    <2> QED BY <1>3, <2>1, BatteryIsPassed
<1>6. CASE l.kind = "ev"
    <2>1. v = ApplyEv(s, w, dev, kw)
        BY <1>6 DEF ApplyLever, kw
    <2> QED BY <1>3, <2>1, EvIsPassed
<1>7. CASE l.kind = "heater_pause"
    <2>1. v = ApplyHeaterPause(s, w, kw)
        BY <1>7 DEF ApplyLever, kw
    <2> DEFINE target == HeaterTarget(s, w, kw)
    <2>2. /\ v \in Moves /\ v.sp = [w.sp EXCEPT !["heater"] = target]
          /\ target \in Nat /\ target <= HeaterMax
          /\ v.tighten = w.tighten /\ v.lagging = w.lagging /\ v.bridge = w.bridge
        BY <1>1, <1>3, <2>1, HeaterPauseEffect
    <2> HIDE DEF v, target
    <2>3. /\ v.sp.battery = w.sp.battery /\ v.sp.ev = w.sp.ev /\ v.sp.heater \in 0..HeaterMax
          /\ v.tighten >= 0
        BY <1>1, <1>4, <2>2 DEF Assets
    <2>4. v \in Passed(s, p, sp, dev)
        BY <2>2, <2>3, OtherIsPassed
    <2> QED BY <2>4 DEF v
<1>8. CASE l.kind = "heater_emergency"
    <2>1. v = ApplyHeaterEmergency(w, dev, kw)
        BY <1>8 DEF ApplyLever, kw
    <2>2. /\ v \in Moves /\ v.sp = IF dev > 0 THEN [w.sp EXCEPT !["heater"] = 0] ELSE w.sp
          /\ v.tighten = w.tighten /\ v.lagging = w.lagging /\ v.bridge = w.bridge
        BY <1>1, <1>3, <2>1, HeaterEmergencyEffect
    <2> HIDE DEF v
    <2>3. /\ v.sp.battery = w.sp.battery /\ v.sp.ev = w.sp.ev
          /\ v.sp.heater = w.sp.heater \/ v.sp.heater \in 0..HeaterMax
          /\ v.tighten >= 0
        BY <1>1, <1>4, <2>2 DEF Assets
    <2>4. v \in Passed(s, p, sp, dev)
        BY <2>2, <2>3, OtherIsPassed
    <2> QED BY <2>4 DEF v
<1>9. CASE l.kind = "pv_curtail"
    <2>1. v = ApplyPvCurtail(w, kw)
        BY <1>9 DEF ApplyLever, kw
    <2>2. /\ v \in Moves /\ v.sp = w.sp /\ v.tighten = kw
          /\ v.lagging = w.lagging /\ v.bridge = w.bridge
        BY <1>1, <1>3, <2>1, PvCurtailEffect
    <2> HIDE DEF v
    <2>3. v.tighten >= 0
        BY <1>3, <2>2
    <2>4. v \in Passed(s, p, sp, dev)
        BY <2>2, <2>3, OtherIsPassed
    <2> QED BY <2>4 DEF v
<1> QED BY <1>2, <1>5, <1>6, <1>7, <1>8, <1>9 DEF Levers

\* The state the loop starts in.
Started(sp, left) ==
    [sp |-> sp, left |-> left, lever |-> NoLever, lagging |-> 0, bridge |-> 0,
     mode |-> "normal", tighten |-> 0]

LEMMA StartedMoves ==
    ASSUME NEW sp \in [Assets -> Int], NEW left \in Int
    PROVE  /\ Started(sp, left) \in Moves /\ Started(sp, left).sp = sp
           /\ Started(sp, left).left = left /\ Started(sp, left).mode = "normal"
           /\ Started(sp, left).lagging = 0 /\ Started(sp, left).bridge = 0
           /\ Started(sp, left).tighten = 0
BY DEF Started, Moves

LEMMA RankedLeversPass ==
    ASSUME NEW s, Measured(s), NEW p, p.admits \subseteq Levers,
           NEW sp \in [Assets -> Int], NEW dev \in Int
    PROVE  ApplyRankedLevers(s, p, sp, dev) \in Passed(s, p, sp, dev)
<1> DEFINE start == [Untouched(sp) EXCEPT !.left = Abs(dev)]
           G == [i \in 1..6 |-> Passed(s, p, sp, dev)]
<1>1. start \in Passed(s, p, sp, dev)
    <2>3. PICK left \in Int : left = Abs(dev)
        BY DEF Abs, Most
    <2>4. start = Started(sp, left)
        BY <2>3 DEF Untouched, Started
    <2> HIDE DEF start
    <2>1. /\ start \in Moves /\ start.sp = sp /\ start.lagging = 0 /\ start.bridge = 0
          /\ start.tighten = 0
        BY <2>3, <2>4, StartedMoves
    <2>2. Awaited(s, sp) \in Int
        BY AwaitedIsBounded
    <2> QED BY <2>1, <2>2 DEF Passed, Signed
<1>2. \A i \in 1..5 : \A w \in Passed(s, p, sp, dev) :
        ~(w.left < DEAD_BAND) =>
            \A l \in Due(LeverCandidates(s, p, sp, dev), p.incumbent, i) :
                ApplyLever(s, p, w, dev, l) \in Passed(s, p, sp, dev)
    BY DueAreLevers, LeverIsPassed
<1>3. start \in G[1] /\ G[6] = Passed(s, p, sp, dev)
    BY <1>1
<1>4. \A i \in 1..5 : G[i] = Passed(s, p, sp, dev) /\ G[i + 1] = Passed(s, p, sp, dev)
    OBVIOUS
<1> HIDE DEF G
<1>5. ApplyRankedLevers(s, p, sp, dev) \in G[6]
    BY <1>2, <1>3, <1>4, LoopKeeps
<1> QED BY <1>3, <1>5


-----------------------------------------------------------------------------
(* The commands stay within their ratings                                  *)

Rated(sp) ==
    /\ sp \in [Assets -> Int]
    /\ sp.battery \in -WindUp..WindUp
    /\ sp.ev \in 0..Most(EvMax, EvDefault)
    /\ sp.heater \in 0..HeaterMax
AtRate(sp) == sp.battery \in -Rate..Rate

\* A bridge stands between what the charger drew and what it will draw.
Bridges(bridged, before, after) ==
    \/ 0 <= bridged /\ bridged <= after - before
    \/ after - before <= bridged /\ bridged <= 0

LEMMA RatingsAreNats ==
    /\ Rate \in Nat /\ EvMin \in Nat /\ EvMax \in Nat /\ EvDefault \in Nat /\ HeaterMax \in Nat
    /\ WindUp = Rate + EvMax /\ WindUp \in Nat /\ Most(EvMax, EvDefault) \in Nat
    /\ EvMax <= Most(EvMax, EvDefault) /\ EvDefault <= Most(EvMax, EvDefault)
<1>1. HeaterMax \in Nat
    BY HeaterMaxIsStep, StepsAreNats
<1>2. Rate \in Nat /\ EvMin \in Nat /\ EvMax \in Nat /\ EvDefault \in Nat
    BY RatesAssumption, ArbiterAssumption
<1> QED BY <1>1, <1>2 DEF WindUp, Most

LEMMA StorageIsAtRate ==
    ASSUME NEW s, NEW p
    PROVE  /\ -Rate <= StorageFloor(s, p) /\ StorageCeiling(s, p) <= Rate
           /\ Floor(s, "battery") <= StorageFloor(s, p)
           /\ StorageCeiling(s, p) <= Ceiling(s, "battery")
<1>1. -Rate <= Floor(s, "battery") /\ Ceiling(s, "battery") <= Rate
    BY RatingsAreNats DEF Floor, Ceiling
<1>2. Floor(s, "battery") \in Int /\ Floor(s, "battery") <= 0 /\ Ceiling(s, "battery") \in Nat
    BY RangesAreIntervals DEF Assets
<1>3. FailSafeFloor("battery") \in Int /\ FailSafeFloor("battery") <= 0
      /\ FailSafeCeiling("battery") \in Nat
    BY FailSafeContainsZero DEF Assets
<1> QED BY <1>1, <1>2, <1>3, RatingsAreNats DEF StorageFloor, StorageCeiling, Least, Most

LEMMA PassedIsRated ==
    ASSUME NEW s, NEW p, NEW sp, Rated(sp), NEW dev \in Int, NEW w \in Passed(s, p, sp, dev)
    PROVE  /\ w \in Moves /\ Rated(w.sp) /\ w.tighten >= 0
           /\ w.bridge # 0 \/ AtRate(sp) => AtRate(w.sp)
           /\ Bridges(w.bridge, Awaited(s, sp), Awaited(s, w.sp))
           /\ dev > 0 => w.bridge <= 0
           /\ \/ w.sp.battery = sp.battery
              \/ w.sp.battery \in StorageFloor(s, p)..StorageCeiling(s, p)
<1>1. w \in Moves /\ w.sp \in [Assets -> Int] /\ w.bridge \in Int /\ w.lagging \in Int
    BY DEF Passed, Moves
<1>2. w.sp.battery \in Int /\ sp.battery \in -WindUp..WindUp
      /\ sp.ev \in 0..Most(EvMax, EvDefault) /\ sp.heater \in 0..HeaterMax
    BY <1>1 DEF Rated, Assets
<1>3. /\ \/ w.sp.battery = sp.battery /\ w.bridge = 0
         \/ w.sp.battery \in StorageFloor(s, p)..StorageCeiling(s, p)
      /\ w.sp.ev = sp.ev \/ w.sp.ev \in 0..EvMax
      /\ w.sp.heater = sp.heater \/ w.sp.heater \in 0..HeaterMax
      /\ w.tighten >= 0
    BY DEF Passed
<1>4. /\ StorageFloor(s, p) \in Int /\ StorageCeiling(s, p) \in Int
      /\ -Rate <= StorageFloor(s, p) /\ StorageCeiling(s, p) <= Rate
    BY StorageIsAtRate, StorageRange
<1>5. w.sp.battery \in -WindUp..WindUp /\ (w.bridge # 0 \/ AtRate(sp) => AtRate(w.sp))
    BY <1>2, <1>3, <1>4, RatingsAreNats DEF AtRate
<1>6. w.sp.ev \in 0..Most(EvMax, EvDefault) /\ w.sp.heater \in 0..HeaterMax
    BY <1>2, <1>3, RatingsAreNats
<1>7. /\ w.lagging >= 0 /\ Signed(dev, w.bridge) <= 0
      /\ w.lagging - Signed(dev, w.bridge) = Signed(dev, Awaited(s, sp) - Awaited(s, w.sp))
    BY DEF Passed
<1>8. Awaited(s, sp) \in Int /\ Awaited(s, w.sp) \in Int
    BY <1>1, AwaitedIsBounded DEF Rated
<1>9. Bridges(w.bridge, Awaited(s, sp), Awaited(s, w.sp)) /\ (dev > 0 => w.bridge <= 0)
    <2>1. CASE dev > 0
        BY <1>1, <1>7, <1>8, <2>1 DEF Signed, Bridges
    <2>2. CASE ~(dev > 0)
        BY <1>1, <1>7, <1>8, <2>2 DEF Signed, Bridges
    <2> QED BY <2>1, <2>2
<1> QED BY <1>1, <1>3, <1>5, <1>6, <1>9 DEF Rated

\* The snapshot is the world, what the charger owes and the heater's mode.
LEMMA SnapshotFields ==
    ASSUME IsWorld(world)
    PROVE  /\ Snapshot.load = world.load /\ Snapshot.store = world.store
           /\ Snapshot.tank = world.tank /\ Snapshot.plugged = world.plugged
           /\ Snapshot.charged = world.charged /\ Snapshot.alert = world.alert
           /\ Snapshot.slot = world.slot /\ Snapshot.overlay = world.overlay
           /\ Snapshot.pending = pending /\ Snapshot.mode = mode
           /\ \A m : /\ [Snapshot EXCEPT !.mode = m].mode = m
                     /\ [Snapshot EXCEPT !.mode = m].tank = world.tank
<1>1. DOMAIN world = DOMAIN Fields
    BY DEF IsWorld
<1>2. {"load", "store", "tank", "plugged", "charged", "alert", "slot", "overlay"} \subseteq DOMAIN world
    BY <1>1 DEF Fields
<1> QED BY <1>2 DEF Snapshot

LEMMA TypeOKIsTyped == TypeOK => Typed
<1> SUFFICES ASSUME TypeOK PROVE Typed
    OBVIOUS
<1>1. pending \in Int /\ pvLimit \in Int /\ bridge \in Int
    BY RatingsAreNats DEF TypeOK
<1> QED BY <1>1 DEF TypeOK, Typed

LEMMA PlansAreRated ==
    ASSUME TypeOK
    PROVE  /\ Rated(BaseSetpoints) /\ AtRate(BaseSetpoints) /\ Rated(Carried)
           /\ Rated(AtPlan(Carried)) /\ AtRate(AtPlan(Carried))
           /\ AtPlan(Carried).battery = BaseSetpoints.battery
<1>1. BaseSetpoints \in [Assets -> Int] /\ Carried \in [Assets -> Int]
      /\ AtPlan(Carried) \in [Assets -> Int]
    BY TypeOKIsTyped, CommandsAreInts
<1>2. /\ world.slot.battery \in -Rate..Rate /\ world.slot.ev \in 0..EvMax
      /\ world.slot.heater \in 0..HeaterMax
    BY WorldIsMeasured, SlotValues DEF TypeOK
<1>3. /\ BaseSetpoints.battery \in -Rate..Rate /\ BaseSetpoints.ev \in 0..Most(EvMax, EvDefault)
      /\ BaseSetpoints.heater \in 0..HeaterMax
    BY <1>2, RatingsAreNats DEF BaseSetpoints, Assets
<1>4. Rated(BaseSetpoints) /\ AtRate(BaseSetpoints)
    BY <1>1, <1>3, RatingsAreNats DEF Rated, AtRate
<1> HIDE DEF BaseSetpoints
<1>5. /\ Carried.battery = command.battery - bridge /\ Carried.ev = command.ev
      /\ Carried.heater = BaseSetpoints.heater
    BY <1>1 DEF Carried, Assets
<1>6. Rated(Carried)
    BY <1>1, <1>3, <1>5 DEF Rated, TypeOK
<1>7. /\ AtPlan(Carried).battery = BaseSetpoints.battery /\ AtPlan(Carried).ev = BaseSetpoints.ev
      /\ AtPlan(Carried).heater = Carried.heater
    BY <1>1 DEF AtPlan, Assets
<1>8. Rated(AtPlan(Carried)) /\ AtRate(AtPlan(Carried))
    BY <1>1, <1>3, <1>4, <1>5, <1>7 DEF Rated, AtRate
<1> QED BY <1>4, <1>6, <1>7, <1>8

LEMMA OverlayIsRated ==
    ASSUME TypeOK, NEW s, Measured(s), NEW sp, Rated(sp)
    PROVE  /\ Rated(SurplusOverlay(s, sp)) /\ SurplusOverlay(s, sp).battery = sp.battery
           /\ SurplusOverlay(s, sp).heater = sp.heater
<1> DEFINE surplus == Most(-(s.load - LivePv + Drawn(s, "heater", sp.heater)) - Most(sp.battery, 0), 0)
           charge == Landed(s, "ev", surplus)
<1>1. {"battery", "ev", "heater"} \subseteq Assets /\ sp \in [Assets -> Int]
    BY DEF Assets, Rated
<1>2. sp.battery \in Int /\ sp.heater \in Int /\ s.load \in Int /\ LivePv \in Int
    BY <1>1, TypeOKIsTyped, LimitsAreInts DEF Measured
<1>3. Drawn(s, "heater", sp.heater) \in Int
    BY <1>1, <1>2, DrawnIsInt
<1>4. surplus \in Nat
    BY <1>2, <1>3 DEF Most
<1> HIDE DEF surplus
<1>5. charge \in 0..EvMax /\ charge \in Int
    BY <1>4, LandedCharge
<1> HIDE DEF charge
<1>6. SurplusOverlay(s, sp) = sp \/ SurplusOverlay(s, sp) = [sp EXCEPT !.ev = charge]
    BY DEF SurplusOverlay, charge, surplus
<1>7. CASE SurplusOverlay(s, sp) = sp
    BY <1>7
<1>8. CASE SurplusOverlay(s, sp) = [sp EXCEPT !.ev = charge]
    <2> DEFINE o == SurplusOverlay(s, sp)
    <2>1. o \in [Assets -> Int] /\ o.battery = sp.battery /\ o.heater = sp.heater /\ o.ev = charge
        BY <1>1, <1>5, <1>8 DEF Assets
    <2> HIDE DEF o
    <2>2. Rated(o)
        BY <1>5, <2>1, RatingsAreNats DEF Rated
    <2> QED BY <2>1, <2>2 DEF o
<1> QED BY <1>6, <1>7, <1>8

\* What the deviation pass, or the plan with the overlay, hands on.
Proposal(s, w) ==
    /\ w \in Moves /\ Rated(w.sp) /\ w.tighten >= 0
    /\ w.bridge # 0 => AtRate(w.sp)
    /\ \E before \in 0..EvMax : Bridges(w.bridge, before, Awaited(s, w.sp))
    /\ \/ w.sp.battery \in Floor(s, "battery")..Ceiling(s, "battery")
       \/ w.sp.battery = BaseSetpoints.battery
       \/ world.arbiter /\ w.sp.battery = Carried.battery

LeverSet(w, l) == [w EXCEPT !.lever = l]

LEMMA LeverIsSet ==
    ASSUME NEW w \in Moves, NEW l \in Levers \cup {NoLever}
    PROVE  /\ LeverSet(w, l) \in Moves /\ LeverSet(w, l).sp = w.sp
           /\ LeverSet(w, l).bridge = w.bridge /\ LeverSet(w, l).tighten = w.tighten
           /\ LeverSet(w, l).left = w.left /\ LeverSet(w, l).mode = w.mode
BY DEF LeverSet, Moves

LEMMA RelabelledIsProposal ==
    ASSUME NEW s, NEW w, Proposal(s, w), NEW l \in Levers \cup {NoLever}
    PROVE  Proposal(s, LeverSet(w, l))
<1>1. w \in Moves
    BY DEF Proposal
<1>2. /\ LeverSet(w, l) \in Moves /\ LeverSet(w, l).sp = w.sp
      /\ LeverSet(w, l).bridge = w.bridge /\ LeverSet(w, l).tighten = w.tighten
    BY <1>1, LeverIsSet
<1> QED BY <1>2 DEF Proposal

LEMMA UntouchedIsProposal ==
    ASSUME NEW s, NEW sp, Rated(sp),
           \/ sp.battery = BaseSetpoints.battery
           \/ world.arbiter /\ sp.battery = Carried.battery
    PROVE  Proposal(s, Untouched(sp))
<1>1. /\ Untouched(sp) \in Moves /\ Untouched(sp).sp = sp /\ Untouched(sp).bridge = 0
      /\ Untouched(sp).tighten = 0
    <2>1. Untouched(sp) = Started(sp, 0)
        BY DEF Untouched, Started
    <2> QED BY <2>1, StartedMoves DEF Rated
<1>2. Awaited(s, sp) \in 0..EvMax /\ Bridges(0, Awaited(s, sp), Awaited(s, sp))
    BY AwaitedIsBounded DEF Rated, Bridges
<1> QED BY <1>1, <1>2 DEF Proposal

LEMMA ReconcileIsProposal ==
    ASSUME TypeOK, world.arbiter, NEW s, Measured(s)
    PROVE  Proposal(s, Reconcile(s))
<1> DEFINE dev == DeviationKw(ProjectedNet(s, Carried, LivePv))
           moved == ApplyRankedLevers(s, DeviationPolicy, Carried, dev)
           relabelled == [moved EXCEPT !.lever = IF @ = NoLever THEN HoldingLever(moved.sp) ELSE @]
           holding == [Untouched(Carried) EXCEPT !.lever = HoldingLever(Carried)]
<1>1. Rated(Carried) /\ Rated(AtPlan(Carried))
      /\ AtPlan(Carried).battery = BaseSetpoints.battery
    BY PlansAreRated
<1>2. Carried \in [Assets -> Int] /\ dev \in Int
    BY <1>1, TypeOKIsTyped, LimitsAreInts, ProjectionsAreInts DEF Rated
<1>3. Proposal(s, Untouched(AtPlan(Carried))) /\ Proposal(s, Untouched(Carried))
    BY <1>1, UntouchedIsProposal
<1>4. Proposal(s, Untouched(SurplusOverlay(s, Carried)))
    BY <1>1, OverlayIsRated, UntouchedIsProposal
<1> HIDE DEF dev
<1>5. DeviationPolicy.admits = Levers /\ DeviationPolicy.bounded = FALSE
    BY DEF DeviationPolicy, Policy
<1>6. moved \in Passed(s, DeviationPolicy, Carried, dev)
    BY <1>2, <1>5, RankedLeversPass
<1> HIDE DEF moved
<1>7. Proposal(s, moved)
    <2>1. /\ moved \in Moves /\ Rated(moved.sp) /\ moved.tighten >= 0
          /\ moved.bridge # 0 => AtRate(moved.sp)
          /\ Bridges(moved.bridge, Awaited(s, Carried), Awaited(s, moved.sp))
          /\ \/ moved.sp.battery = Carried.battery
             \/ moved.sp.battery \in StorageFloor(s, DeviationPolicy)..StorageCeiling(s, DeviationPolicy)
        BY <1>1, <1>2, <1>6, PassedIsRated
    <2>2. /\ StorageFloor(s, DeviationPolicy) = Floor(s, "battery")
          /\ StorageCeiling(s, DeviationPolicy) = Ceiling(s, "battery")
        BY <1>5 DEF StorageFloor, StorageCeiling
    <2>3. Awaited(s, Carried) \in 0..EvMax
        BY <1>2, AwaitedIsBounded
    <2> QED BY <2>1, <2>2, <2>3 DEF Proposal
<1>8. Proposal(s, relabelled)
    <2> DEFINE l == IF moved.lever = NoLever THEN HoldingLever(moved.sp) ELSE moved.lever
    <2>1. l \in Levers \cup {NoLever}
        BY <1>7, HoldingLeverIsLever DEF Moves, Proposal
    <2>2. relabelled = LeverSet(moved, l)
        BY DEF relabelled, l, LeverSet
    <2> HIDE DEF l
    <2> QED BY <1>7, <2>1, <2>2, RelabelledIsProposal
<1>9. Proposal(s, holding)
    BY <1>3, HoldingLeverIsLever, RelabelledIsProposal DEF LeverSet
<1>10. Reconcile(s) \in {Untouched(SurplusOverlay(s, Carried)), Untouched(AtPlan(Carried)),
                         relabelled, holding}
    BY DEF Reconcile, relabelled, holding, moved, dev
<1> QED BY <1>3, <1>4, <1>8, <1>9, <1>10

LEMMA ProposeIsProposal ==
    ASSUME TypeOK, NEW s, Measured(s)
    PROVE  Proposal(s, Propose(s))
<1>1. CASE world.arbiter
    BY <1>1, ReconcileIsProposal DEF Propose
<1>2. CASE ~world.arbiter
    <2>1. Propose(s) = Untouched(SurplusOverlay(s, BaseSetpoints))
        BY <1>2 DEF Propose
    <2>2. Rated(BaseSetpoints)
        BY PlansAreRated
    <2> QED BY <2>1, <2>2, OverlayIsRated, UntouchedIsProposal
<1> QED BY <1>1, <1>2

\* The dispatch window's pass moves nothing but the battery.
LEMMA StorageMovesAlone ==
    ASSUME NEW s, Measured(s), NEW p, p.admits = {"battery"},
           NEW sp \in [Assets -> Int], NEW dev \in Int
    PROVE  /\ ApplyRankedLevers(s, p, sp, dev) \in Moves
           /\ ApplyRankedLevers(s, p, sp, dev).sp.ev = sp.ev
           /\ ApplyRankedLevers(s, p, sp, dev).sp.heater = sp.heater
<1> DEFINE start == [Untouched(sp) EXCEPT !.left = Abs(dev)]
           Alone == {w \in Moves : w.sp.ev = sp.ev /\ w.sp.heater = sp.heater}
           levers == LeverCandidates(s, p, sp, dev)
           G == [i \in 1..6 |-> Alone]
<1>1. start \in Alone
    <2>1. PICK left \in Int : left = Abs(dev)
        BY DEF Abs, Most
    <2>2. start = Started(sp, left)
        BY <2>1 DEF Untouched, Started
    <2> HIDE DEF start
    <2> QED BY <2>2, StartedMoves
<1>2. ASSUME NEW w \in Alone, ~(w.left < DEAD_BAND), NEW l \in levers
      PROVE  ApplyLever(s, p, w, dev, l) \in Alone
    <2> DEFINE kw == Least(w.left, l.capacity)
               v == ApplyBattery(s, p, w, dev, kw)
    <2>1. l.kind = "battery"
        BY <1>2, CandidateOfKind
    <2>2. w \in Moves /\ w.sp \in [Assets -> Int]
        BY <1>2 DEF Moves
    <2>3. kw \in Int
        <3>1. {"battery"} \subseteq Levers
            BY DEF Levers
        <3>2. l.capacity \in Nat
            BY <1>2, <3>1, CandidatesAreOffered DEF Offered
        <3> QED BY <2>2, <3>2 DEF Moves, Least
    <2>4. ApplyLever(s, p, w, dev, l) = v
        BY <2>1 DEF ApplyLever
    <2> HIDE DEF kw
    <2>5. CASE Refused(s, p, dev)
        BY <1>2, <2>4, <2>5 DEF ApplyBattery, Refused
    <2>6. CASE ~Refused(s, p, dev)
        <3>1. BatteryLeaves(s, p, w, dev, kw, v)
            BY <2>2, <2>3, <2>6, BatteryEffect
        <3> HIDE DEF v
        <3>2. PICK target \in Int : v \in Moves /\ v.sp = [w.sp EXCEPT !["battery"] = target]
            BY <3>1 DEF BatteryLeaves
        <3>3. v.sp.ev = w.sp.ev /\ v.sp.heater = w.sp.heater
            BY <2>2, <3>2 DEF Assets
        <3> QED BY <1>2, <2>4, <3>2, <3>3
    <2> QED BY <2>5, <2>6
<1>3. start \in G[1] /\ G[6] = Alone
    BY <1>1
<1>4. \A i \in 1..5 : G[i] = Alone /\ G[i + 1] = Alone
    OBVIOUS
<1>5. \A i \in 1..5 : Due(levers, p.incumbent, i) \subseteq levers
    BY DueAreLevers
<1>6. \A i \in 1..5 : \A w \in G[i] :
        /\ w \in G[i + 1]
        /\ ~(w.left < DEAD_BAND) =>
             \A l \in Due(levers, p.incumbent, i) : ApplyLever(s, p, w, dev, l) \in G[i + 1]
    <2> HIDE DEF G, levers, Alone
    <2> QED BY <1>2, <1>4, <1>5
<1> HIDE DEF G, Alone, start
<1>7. ApplyRankedLevers(s, p, sp, dev) \in G[6]
    BY <1>3, <1>6, LoopKeeps DEF start
<1> QED BY <1>3, <1>7 DEF Alone

\* The window keeps the charger's and the heater's commands, and the battery's
\* or brings it into its range.
LEMMA DispatchIsRated ==
    ASSUME TypeOK, NEW s, Measured(s), NEW sp, Rated(sp)
    PROVE  LET d == DispatchOverride(s, sp)
           IN  /\ Rated(d) /\ (AtRate(sp) => AtRate(d))
               /\ Awaited(s, d) = Awaited(s, sp)
               /\ \/ d.battery = sp.battery
                  \/ d.battery \in Floor(s, "battery")..Ceiling(s, "battery")
<1> DEFINE dev == ProjectedNet(s, sp, LivePv) - world.dispatch
           w == ApplyRankedLevers(s, DispatchPolicy, sp, dev)
<1>1. sp \in [Assets -> Int] /\ dev \in Int
    BY TypeOKIsTyped, LimitsAreInts, ProjectionsAreInts, WorldIsMeasured DEF TypeOK, Rated
<1>2. DispatchPolicy.admits = {"battery"} /\ DispatchPolicy.bounded = FALSE
    BY DEF DispatchPolicy, Policy
<1> HIDE DEF dev
<1>3. w \in Passed(s, DispatchPolicy, sp, dev)
    <2>1. DispatchPolicy.admits \subseteq Levers
        BY <1>2 DEF Levers
    <2> QED BY <1>1, <2>1, RankedLeversPass
<1>4. w.sp.ev = sp.ev /\ w.sp.heater = sp.heater
    BY <1>1, <1>2, StorageMovesAlone
<1>5. /\ Rated(w.sp) /\ (AtRate(sp) => AtRate(w.sp))
      /\ \/ w.sp.battery = sp.battery
         \/ w.sp.battery \in StorageFloor(s, DispatchPolicy)..StorageCeiling(s, DispatchPolicy)
    <2> HIDE DEF w
    <2> QED BY <1>1, <1>3, PassedIsRated
<1>6. /\ StorageFloor(s, DispatchPolicy) = Floor(s, "battery")
      /\ StorageCeiling(s, DispatchPolicy) = Ceiling(s, "battery")
    BY <1>2 DEF StorageFloor, StorageCeiling
<1>7. DispatchOverride(s, sp) = sp \/ DispatchOverride(s, sp) = w.sp
    BY DEF DispatchOverride, w, dev
<1> HIDE DEF w
<1>8. Awaited(s, w.sp) = Awaited(s, sp)
    BY <1>4 DEF Awaited
<1> QED BY <1>5, <1>6, <1>7, <1>8

\* The clamp takes every command nearer to zero.
LEMMA ClampIsRated ==
    ASSUME TypeOK, NEW s, NEW sp, Rated(sp)
    PROVE  LET c == CommsLossClamp(sp)
           IN  /\ Rated(c) /\ (AtRate(sp) => AtRate(c))
               /\ Awaited(s, c) <= Awaited(s, sp)
               /\ c.battery <= Most(sp.battery, 0)
<1> DEFINE c == CommsLossClamp(sp)
<1>1. /\ sp.battery \in -WindUp..WindUp /\ sp.ev \in 0..Most(EvMax, EvDefault)
      /\ sp.heater \in 0..HeaterMax /\ sp \in [Assets -> Int]
    BY DEF Rated
<1>2. CASE ~world.lost
    <2>1. c = sp
        BY <1>2 DEF CommsLossClamp
    <2>2. Awaited(s, sp) \in Int
        BY <1>1, AwaitedIsBounded
    <2> QED BY <1>1, <2>1, <2>2, RatingsAreNats DEF Most
<1>3. CASE world.lost
    <2>1. /\ c.battery = Clamped(sp.battery, FailSafeFloor("battery"), FailSafeCeiling("battery"))
          /\ c.ev = Clamped(sp.ev, FailSafeFloor("ev"), FailSafeCeiling("ev"))
          /\ c.heater = Clamped(sp.heater, FailSafeFloor("heater"), FailSafeCeiling("heater"))
        BY <1>3 DEF CommsLossClamp, Assets
    <2>2. c \in [Assets -> Int]
        BY <1>1, TypeOKIsTyped, ClampIsInFailSafe
    <2>3. \A a \in Assets : FailSafeFloor(a) \in Int /\ FailSafeFloor(a) <= 0
                            /\ FailSafeCeiling(a) \in Nat
        BY FailSafeContainsZero
    <2>4. FailSafeFloor("ev") = 0 /\ FailSafeFloor("heater") = 0
        BY PercentAssumption DEF FailSafeFloor, RatedExport
    <2> HIDE DEF c
    <2>5. /\ c.battery \in -WindUp..WindUp /\ c.battery <= Most(sp.battery, 0)
          /\ AtRate(sp) => AtRate(c)
        <3>1. FailSafeFloor("battery") \in Int /\ FailSafeFloor("battery") <= 0
              /\ FailSafeCeiling("battery") \in Nat
            BY <2>3 DEF Assets
        <3> QED BY <1>1, <2>1, <3>1, RatingsAreNats DEF AtRate, Clamped, Least, Most
    <2>6. c.ev \in Nat /\ c.ev <= sp.ev /\ c.heater \in Nat /\ c.heater <= sp.heater
        <3>1. FailSafeCeiling("ev") \in Nat /\ FailSafeCeiling("heater") \in Nat
            BY <2>3 DEF Assets
        <3>2. sp.ev \in Nat /\ sp.heater \in Nat
            BY <1>1, RatingsAreNats
        <3> QED BY <2>1, <2>4, <3>1, <3>2 DEF Clamped, Least, Most
    <2>7. Rated(c)
        BY <1>1, <2>2, <2>5, <2>6, RatingsAreNats DEF Rated
    <2>8. Awaited(s, c) <= Awaited(s, sp)
        <3>1. Most(c.ev, 0) = c.ev /\ Most(sp.ev, 0) = sp.ev /\ sp.ev \in Nat
            BY <1>1, <2>6, RatingsAreNats DEF Most
        <3> QED BY <2>6, <3>1, LandedCharge DEF Awaited
    <2> QED BY <2>5, <2>7, <2>8 DEF c
<1> QED BY <1>2, <1>3

LEMMA LimitIsRated ==
    ASSUME TypeOK, NEW s, Measured(s), NEW sp, Rated(sp), NEW tighten \in Int
    PROVE  LET w == EnforceImportLimit(s, sp, tighten)
           IN  /\ w \in Moves /\ Rated(w.sp)
               /\ w.bridge # 0 \/ AtRate(sp) => AtRate(w.sp)
               /\ w.bridge <= 0 /\ Bridges(w.bridge, Awaited(s, sp), Awaited(s, w.sp))
<1> DEFINE pv == Most(LivePv - tighten, 0)
           excess == ProjectedNet(s, sp, pv) - LimitTarget
           w == EnforceImportLimit(s, sp, tighten)
<1>1. sp \in [Assets -> Int]
    BY DEF Rated
<1>2. pv \in Int
    BY TypeOKIsTyped, LimitsAreInts DEF Most
<1> HIDE DEF pv
<1>3. excess \in Int
    BY <1>1, <1>2, TypeOKIsTyped, LimitsAreInts, ProjectionsAreInts
<1> HIDE DEF excess
<1>4. CASE excess < DEAD_BAND
    <2>1. w = Started(sp, 0)
        BY <1>4 DEF EnforceImportLimit, excess, pv, Untouched, Started
    <2> HIDE DEF w
    <2>2. w \in Moves /\ w.sp = sp /\ w.bridge = 0
        BY <1>1, <2>1, StartedMoves
    <2>3. Awaited(s, sp) \in Int
        BY <1>1, AwaitedIsBounded
    <2> QED BY <2>2, <2>3 DEF Bridges, w
<1>5. CASE ~(excess < DEAD_BAND)
    <2>1. w = ApplyRankedLevers(s, LimitPolicy, sp, excess)
        BY <1>5 DEF EnforceImportLimit, excess, pv
    <2>2. LimitPolicy.admits \subseteq Levers
        BY DEF LimitPolicy, Policy
    <2> HIDE DEF w
    <2>3. w \in Passed(s, LimitPolicy, sp, excess)
        BY <1>1, <1>3, <2>1, <2>2, RankedLeversPass
    <2>4. excess > 0
        BY <1>3, <1>5 DEF DEAD_BAND
    <2>5. /\ w \in Moves /\ Rated(w.sp) /\ (w.bridge # 0 \/ AtRate(sp) => AtRate(w.sp))
          /\ Bridges(w.bridge, Awaited(s, sp), Awaited(s, w.sp)) /\ w.bridge <= 0
        BY <1>3, <2>3, <2>4, PassedIsRated
    <2> QED BY <2>5 DEF w
<1> QED BY <1>4, <1>5

\* The hold changes the charger's command only, for one it can land at.
LEMMA HoldIsRated ==
    ASSUME TypeOK, NEW s, Measured(s), NEW w \in Moves, Rated(w.sp)
    PROVE  LET h == HoldWhereCommandsLand(s, w)
           IN  /\ Rated(h.sp) /\ h.sp.battery = w.sp.battery /\ h.sp.heater = w.sp.heater
               /\ h.lever \in Levers \cup {NoLever}
<1> DEFINE excess == ProjectedLandedNet(s, w.sp, LivePv) - LimitTarget
           asked == Most(Most(w.sp.ev, 0) - excess, 0)
           target == Landed(s, "ev", asked)
           landing == Abs(Landed(s, "ev", Most(w.sp.ev, 0)) - target)
           l == IF w.lever = NoLever /\ landing > 0 THEN "ev" ELSE w.lever
           h == HoldWhereCommandsLand(s, w)
<1>1. w.sp \in [Assets -> Int] /\ w.sp.ev \in Int /\ "ev" \in Assets
      /\ w.lever \in Levers \cup {NoLever}
    BY DEF Moves, Assets
<1>2. excess \in Int
    BY <1>1, TypeOKIsTyped, LimitsAreInts, ProjectionsAreInts
<1>3. CASE excess < DEAD_BAND
    <2>1. h = w
        BY <1>3 DEF HoldWhereCommandsLand
    <2> QED BY <1>1, <2>1
<1>4. CASE ~(excess < DEAD_BAND)
    <2>1. h = [w EXCEPT !.sp.ev = target, !.lever = l]
        BY <1>4 DEF HoldWhereCommandsLand, EvTarget
    <2> HIDE DEF h, excess
    <2>2. asked \in Nat
        BY <1>1, <1>2 DEF Most
    <2> HIDE DEF asked
    <2>3. target \in 0..EvMax /\ target \in Int
        BY <2>2, LandedCharge
    <2>4. l \in Levers \cup {NoLever}
        BY <1>1 DEF Levers
    <2> HIDE DEF target, l
    <2>5. h = LeverSet([w EXCEPT !.sp.ev = target], l)
        BY <1>1, <2>1 DEF LeverSet, Moves
    <2>6. [w EXCEPT !.sp.ev = target] = EvSet(w, target, w.lagging)
        BY DEF EvSet, Moves
    <2>7. w.lagging \in Int
        BY DEF Moves
    <2>8. /\ EvSet(w, target, w.lagging) \in Moves
          /\ EvSet(w, target, w.lagging).sp = [w.sp EXCEPT !["ev"] = target]
        BY <2>3, <2>7, EvIsSet
    <2>9. h.sp = [w.sp EXCEPT !["ev"] = target] /\ h.lever = l
        <3>1. h = [w EXCEPT !.sp.ev = target, !.lever = l]
            BY <2>1
        <3>2. h.lever = l
            BY <3>1 DEF Moves
        <3> QED BY <2>4, <2>5, <2>6, <2>8, <3>2, LeverIsSet
    <2>10. h.sp \in [Assets -> Int] /\ h.sp.battery = w.sp.battery /\ h.sp.heater = w.sp.heater
           /\ h.sp.ev = target
        BY <1>1, <2>3, <2>9 DEF Assets
    <2>11. Rated(h.sp)
        BY <2>3, <2>10, RatingsAreNats DEF Rated
    <2> QED BY <2>4, <2>9, <2>10, <2>11 DEF h
<1> QED BY <1>3, <1>4

-----------------------------------------------------------------------------
(* The stages of a tick                                                    *)

Proposed == Propose(Snapshot)
Given == CommsLossClamp(DispatchOverride(Snapshot, Proposed.sp))
Enforced == EnforceImportLimit(Snapshot, Given, Proposed.tighten)
Final == HoldWhereCommandsLand(Snapshot, Enforced)
NewMode == IF Enforced.mode # "normal" THEN Enforced.mode ELSE Proposed.mode
NewPvLimit == PvGenerationLimit(Proposed.tighten)
Stored == BatteryStep(Final.sp.battery)

LEMMA TickStages ==
    ASSUME Tick
    PROVE  /\ command' = Final.sp
           /\ pending' = IF world.plugged THEN Landed(Snapshot, "ev", Final.sp.ev) ELSE 0
           /\ mode' = NewMode /\ pvLimit' = NewPvLimit
           /\ lever' = Proposed.lever /\ limitLever' = Final.lever
           /\ bridge' = Proposed.bridge + Enforced.bridge
           /\ outcome'.net = world.load - Generation(NewPvLimit) + Stored
                                + Drawn(Snapshot, "ev", Final.sp.ev)
                                + HeaterStep(Snapshot, Final.sp.heater, NewMode)
           /\ outcome'.limit = HardLimit
           /\ outcome'.unresolved = Most(Enforced.left, 0)
           /\ outcome'.dispatch = IF world.alert THEN NoDispatch ELSE world.dispatch
           /\ world' = [world EXCEPT !.store = StoreAfter(Stored)]
           /\ UNCHANGED changes
BY DEF Tick, Proposed, Given, Enforced, Final, NewMode, NewPvLimit, Stored

\* How the stages hand the commands on: within the ratings, and the battery at
\* its rate once a pass has made it bridge the charger.
LEMMA StagesAreRated ==
    ASSUME TypeOK
    PROVE  /\ Measured(Snapshot) /\ Proposal(Snapshot, Proposed) /\ Rated(Given)
           /\ Enforced \in Moves /\ Rated(Enforced.sp) /\ Rated(Final.sp)
           /\ Final.sp.battery = Enforced.sp.battery /\ Final.sp.heater = Enforced.sp.heater
           /\ Final.lever \in Levers \cup {NoLever}
           /\ Proposed.bridge \in Int /\ Enforced.bridge \in Int /\ Proposed.tighten \in Int
           /\ Proposed.bridge + Enforced.bridge \in -EvMax..EvMax
           /\ Proposed.bridge + Enforced.bridge # 0 => AtRate(Final.sp)
<1> DEFINE s == Snapshot
           d == DispatchOverride(s, Proposed.sp)
<1>1. Measured(s)
    BY TypeOKIsTyped, SnapshotIsMeasured
<1>2. Proposal(s, Proposed)
    BY <1>1, ProposeIsProposal DEF Proposed
<1>3. /\ Proposed \in Moves /\ Rated(Proposed.sp) /\ (Proposed.bridge # 0 => AtRate(Proposed.sp))
      /\ Proposed.tighten \in Int /\ Proposed.bridge \in Int
    BY <1>2 DEF Proposal, Moves
<1>4. Rated(d) /\ (AtRate(Proposed.sp) => AtRate(d)) /\ Awaited(s, d) = Awaited(s, Proposed.sp)
    <2> HIDE DEF s
    <2> QED BY <1>1, <1>3, DispatchIsRated
<1>5. Rated(Given) /\ (AtRate(d) => AtRate(Given)) /\ Awaited(s, Given) <= Awaited(s, d)
    <2>1. Given = CommsLossClamp(d)
        BY DEF Given
    <2> HIDE DEF d
    <2> QED BY <1>4, <2>1, ClampIsRated
<1> HIDE DEF d
<1>6. /\ Enforced \in Moves /\ Rated(Enforced.sp)
      /\ Enforced.bridge # 0 \/ AtRate(Given) => AtRate(Enforced.sp)
      /\ Enforced.bridge <= 0
      /\ Bridges(Enforced.bridge, Awaited(s, Given), Awaited(s, Enforced.sp))
    <2>1. Enforced = EnforceImportLimit(s, Given, Proposed.tighten)
        BY DEF Enforced
    <2> HIDE DEF s
    <2> QED BY <1>1, <1>3, <1>5, <2>1, LimitIsRated
<1>7. /\ Rated(Final.sp) /\ Final.lever \in Levers \cup {NoLever}
      /\ Final.sp.battery = Enforced.sp.battery /\ Final.sp.heater = Enforced.sp.heater
    <2>1. Final = HoldWhereCommandsLand(s, Enforced)
        BY DEF Final
    <2> HIDE DEF s
    <2> QED BY <1>1, <1>6, <2>1, HoldIsRated
<1>8. PICK before \in 0..EvMax : Bridges(Proposed.bridge, before, Awaited(s, Proposed.sp))
    BY <1>2 DEF Proposal
<1>9. /\ Awaited(s, Proposed.sp) \in 0..EvMax /\ Awaited(s, Given) \in 0..EvMax
      /\ Awaited(s, Enforced.sp) \in 0..EvMax
    BY <1>3, <1>5, <1>6, AwaitedIsBounded DEF Rated
<1>10. Enforced.bridge \in Int
    BY <1>6 DEF Moves
<1>11. Proposed.bridge + Enforced.bridge \in -EvMax..EvMax
    BY <1>3, <1>4, <1>5, <1>6, <1>8, <1>9, <1>10, RatingsAreNats DEF Bridges
<1>12. Proposed.bridge + Enforced.bridge # 0 => AtRate(Final.sp)
    <2>1. SUFFICES ASSUME Proposed.bridge # 0 \/ Enforced.bridge # 0
                   PROVE  AtRate(Final.sp)
        BY <1>3, <1>10
    <2>2. AtRate(Enforced.sp)
        BY <1>3, <1>4, <1>5, <1>6, <2>1
    <2> QED BY <1>7, <2>2 DEF AtRate
<1> QED BY <1>1, <1>2, <1>3, <1>5, <1>6, <1>7, <1>10, <1>11, <1>12

LEMMA PvLimitsAreNats ==
    ASSUME TypeOK, NEW tighten \in Int
    PROVE  PvGenerationLimit(tighten) \in Nat
<1>1. world.slot.pvUsed \in Nat
    BY WorldIsMeasured, SlotValues DEF TypeOK
<1>2. (Percent * PvRated) \div 100 \in Nat
    <2>1. Percent * PvRated \in Nat
        BY PercentAssumption, ArbiterAssumption
    <2> QED BY <2>1
<1>3. Unlimited \in Nat
    BY ArbiterAssumption
<1> QED BY <1>1, <1>2, <1>3 DEF PvGenerationLimit, Least

LEMMA InitIsTyped == Init => TypeOK
<1> SUFFICES ASSUME Init PROVE TypeOK
    OBVIOUS
<1>1. IsWorld(world) /\ command \in [Assets -> Int]
    BY InitHolds DEF Typed
<1>2. command.battery = 0 /\ command.ev = EvDefault /\ command.heater = 0
    BY DEF Init, Assets
<1>3. /\ pending = EvMax /\ mode = "normal" /\ pvLimit = Unlimited /\ lever = NoLever
      /\ limitLever = NoLever /\ bridge = 0
    BY DEF Init
<1> QED BY <1>1, <1>2, <1>3, RatingsAreNats, ArbiterAssumption DEF TypeOK

LEMMA TickKeepsTypes ==
    ASSUME TypeOK, Tick
    PROVE  TypeOK'
<1>1. /\ command' = Final.sp
      /\ pending' = IF world.plugged THEN Landed(Snapshot, "ev", Final.sp.ev) ELSE 0
      /\ mode' = NewMode /\ pvLimit' = NewPvLimit
      /\ lever' = Proposed.lever /\ limitLever' = Final.lever
      /\ bridge' = Proposed.bridge + Enforced.bridge
      /\ world' = [world EXCEPT !.store = StoreAfter(Stored)]
    BY TickStages
<1>2. /\ Proposal(Snapshot, Proposed) /\ Enforced \in Moves /\ Rated(Final.sp)
      /\ Final.lever \in Levers \cup {NoLever} /\ Proposed.tighten \in Int
      /\ Proposed.bridge + Enforced.bridge \in -EvMax..EvMax
      /\ Proposed.bridge + Enforced.bridge # 0 => AtRate(Final.sp)
    BY StagesAreRated
<1>3. IsWorld(world)'
    BY <1>1, StoredWorldIsWorld DEF TypeOK
<1>4. /\ command' \in [Assets -> Int] /\ command'.battery \in -WindUp..WindUp
      /\ command'.ev \in 0..Most(EvMax, EvDefault) /\ command'.heater \in 0..HeaterMax
    BY <1>1, <1>2 DEF Rated
<1>5. bridge' \in -EvMax..EvMax
    BY <1>1, <1>2
<1>6. command'.battery - bridge' \in -WindUp..WindUp
    <2>1. CASE bridge' = 0
        BY <1>4, <2>1, RatingsAreNats
    <2>2. CASE bridge' # 0
        <3>1. command'.battery \in -Rate..Rate
            BY <1>1, <1>2, <2>2 DEF AtRate
        <3> QED BY <1>5, <3>1, RatingsAreNats
    <2> QED BY <2>1, <2>2
<1>7. pending' \in {0, EvMax} \cup EvMin..EvMax
    <2> DEFINE ceiling == Ceiling(Snapshot, "ev")
               kw == Final.sp.ev
    <2>1. kw \in Nat
        BY <1>2, RatingsAreNats DEF Rated
    <2>2. ceiling \in 0..EvMax
        BY RatingsAreNats DEF Ceiling
    <2>3. Clamped(kw, Floor(Snapshot, "ev"), ceiling) = Least(kw, ceiling)
        <3>1. Floor(Snapshot, "ev") = 0
            BY DEF Floor
        <3> HIDE DEF ceiling, kw
        <3> QED BY <2>1, <2>2, <3>1, RatingsAreNats DEF Clamped, Least, Most
    <2>4. Landed(Snapshot, "ev", kw) = IF Least(kw, ceiling) < EvMin THEN 0 ELSE Least(kw, ceiling)
        BY <2>3 DEF Landed
    <2> HIDE DEF ceiling, kw
    <2>5. Landed(Snapshot, "ev", kw) \in {0, EvMax} \cup EvMin..EvMax
        BY <2>1, <2>2, <2>4, RatingsAreNats DEF Least
    <2> QED BY <1>1, <2>5 DEF kw
<1>8. mode' \in {"normal", "curtail", "absorb"} /\ lever' \in Levers \cup {NoLever}
    BY <1>1, <1>2 DEF NewMode, Proposal, Moves
<1>9. pvLimit' \in Nat
    BY <1>1, <1>2, PvLimitsAreNats DEF NewPvLimit
<1> QED BY <1>1, <1>2, <1>3, <1>4, <1>5, <1>6, <1>7, <1>8, <1>9 DEF TypeOK

LEMMA ChangeKeepsTypes ==
    ASSUME TypeOK, NEW f \in DOMAIN Values, Change(f)
    PROVE  TypeOK'
<1>1. PICK v \in Values[f] : world' = [world EXCEPT ![f] = v]
    BY DEF Change
<1>2. f \in DOMAIN Fields /\ v \in Fields[f]
    BY <1>1, ArbiterAssumption
<1>3. IsWorld(world)'
    BY <1>1, <1>2 DEF TypeOK, IsWorld
<1>4. UNCHANGED <<command, pending, mode, pvLimit, lever, limitLever, bridge>>
    BY DEF Change
<1> QED BY <1>3, <1>4 DEF TypeOK

\* The number of changes is one: a step that leaves it alone is no change.
Invariant == TypeOK /\ changes \in Nat

LEMMA InvariantHolds == Spec => []Invariant
<1>1. Init => Invariant
    BY InitIsTyped DEF Init, Invariant
<1>2. ASSUME Invariant, [Next]_vars
      PROVE  Invariant'
    <2>1. CASE Tick
        BY <1>2, <2>1, TickKeepsTypes, TickStages DEF Invariant
    <2>2. CASE \E f \in DOMAIN Values : Change(f)
        <3>1. TypeOK'
            BY <1>2, <2>2, ChangeKeepsTypes DEF Invariant
        <3>2. changes' = changes + 1
            BY <2>2 DEF Change
        <3> QED BY <1>2, <3>1, <3>2 DEF Invariant
    <2>3. CASE UNCHANGED vars
        BY <1>2, <2>3 DEF vars, Invariant, TypeOK, IsWorld
    <2> QED BY <1>2, <2>1, <2>2, <2>3 DEF Next
<1> QED BY <1>1, <1>2, PTL DEF Spec

\* For every site, plan and world the commands stay within the ratings, the
\* battery's within its rate and one charger: what the passes of a tick bridge
\* between them never exceeds what the charger can owe (arbiter_glue.rs adds the
\* two, lag_bridge.rs subtracts them from the command of the next tick).
THEOREM TypeCorrect == Spec => []TypeOK
<1>1. Invariant => TypeOK
    BY DEF Invariant
<1> QED BY <1>1, InvariantHolds, PTL

-----------------------------------------------------------------------------
(* The import limit is kept                                                *)

\* The import the limit pass counts for commands w, beside load and generation.
Counted(s, w) ==
    Drawn(s, "battery", w.sp.battery) + Drawn(s, "ev", w.sp.ev)
        + (IF w.mode = "curtail" THEN 0 ELSE Drawn(s, "heater", w.sp.heater))

\* A pass sheds what it says: whatever it has moved is missing from its count,
\* as long as the battery was not asked for more than it can charge at, and the
\* one heater it switched off was heating.
Kept(s, p, sp, dev, budget, i) ==
    {w \in Passed(s, p, sp, dev) :
        /\ w.sp.battery <= Ceiling(s, "battery")
        /\ w.mode \in {"normal", "curtail"}
        /\ w.mode = "curtail" =>
              /\ s.tank = "cold" /\ w.sp.heater = 0
              /\ \E j \in 1..5 : \E l \in Due(LeverCandidates(s, p, sp, dev), p.incumbent, j) :
                    j < i /\ l.kind = "heater_emergency"
        /\ Counted(s, w) <= budget + w.left}

LEMMA CountedIsInt ==
    ASSUME NEW s, Measured(s), NEW w \in Moves
    PROVE  /\ Drawn(s, "battery", w.sp.battery) \in Int /\ Drawn(s, "ev", w.sp.ev) \in Int
           /\ Drawn(s, "heater", w.sp.heater) \in Int /\ Counted(s, w) \in Int
<1>1. w.sp.battery \in Int /\ w.sp.ev \in Int /\ w.sp.heater \in Int
      /\ {"battery", "ev", "heater"} \subseteq Assets
    BY DEF Moves, Assets
<1>2. /\ Drawn(s, "battery", w.sp.battery) \in Int /\ Drawn(s, "ev", w.sp.ev) \in Int
      /\ Drawn(s, "heater", w.sp.heater) \in Int
    BY <1>1, DrawnIsInt
<1> QED BY <1>2 DEF Counted

\* Inside its range the battery draws its command.
LEMMA BatteryDraws ==
    ASSUME NEW s, NEW kw \in Floor(s, "battery")..Ceiling(s, "battery")
    PROVE  Drawn(s, "battery", kw) = kw
<1>1. Floor(s, "battery") \in Int /\ Ceiling(s, "battery") \in Int
    BY RangesAreIntervals DEF Assets
<1>2. Clamped(kw, Floor(s, "battery"), Ceiling(s, "battery")) = kw
    BY <1>1 DEF Clamped, Least, Most
<1> QED BY <1>2 DEF Drawn, Landed

LEMMA KeptInTheSameMode ==
    ASSUME NEW s, NEW p, NEW sp, NEW dev, NEW budget,
           NEW i \in 1..5, NEW w \in Kept(s, p, sp, dev, budget, i),
           NEW v \in Passed(s, p, sp, dev),
           v.sp.battery <= Ceiling(s, "battery"), v.mode = w.mode,
           w.mode = "curtail" => v.sp.heater = 0,
           Counted(s, v) <= budget + v.left
    PROVE  v \in Kept(s, p, sp, dev, budget, i + 1)
<1>1. \A j \in 1..5 : j < i => j < i + 1
    OBVIOUS
<1> QED BY <1>1 DEF Kept

LEMMA BatteryIsKept ==
    ASSUME NEW s, Measured(s), NEW p, ~p.obeysObjective, p.admits \subseteq Levers,
           NEW sp \in [Assets -> Int], NEW dev \in Int, dev > 0, NEW budget \in Int,
           NEW i \in 1..5, NEW w \in Kept(s, p, sp, dev, budget, i), ~(w.left < DEAD_BAND),
           NEW l \in LeverCandidates(s, p, sp, dev), l.kind = "battery"
    PROVE  ApplyLever(s, p, w, dev, l) \in Kept(s, p, sp, dev, budget, i + 1)
<1> DEFINE kw == Least(w.left, l.capacity)
           v == ApplyLever(s, p, w, dev, l)
<1>1. w \in Passed(s, p, sp, dev) /\ w \in Moves /\ w.left \in Int /\ w.left >= DEAD_BAND
    BY DEF Kept, Passed, Moves, DEAD_BAND
<1>2. v \in Passed(s, p, sp, dev)
    BY <1>1, LeverIsPassed DEF Kept
<1>3. l.capacity = sp.battery - StorageFloor(s, p) /\ l.capacity > 0
    BY CandidateOfKind DEF Capacity
<1>4. /\ StorageFloor(s, p) \in Int /\ StorageCeiling(s, p) \in Int
      /\ Floor(s, "battery") \in Int /\ Ceiling(s, "battery") \in Int
      /\ Floor(s, "battery") <= StorageFloor(s, p)
      /\ StorageCeiling(s, p) <= Ceiling(s, "battery")
    BY StorageRange, StorageIsAtRate, RangesAreIntervals DEF Assets
<1>5. sp.battery \in Int /\ w.sp.battery \in Int /\ w.sp \in [Assets -> Int]
    BY <1>1 DEF Moves, Assets
<1>6. kw \in Int /\ kw > 0
    BY <1>1, <1>3, <1>4, <1>5 DEF Least, DEAD_BAND
<1>7. ~Refused(s, p, dev)
    BY DEF Refused
<1>8. v = ApplyBattery(s, p, w, dev, kw)
    BY DEF ApplyLever
<1> HIDE DEF v, kw
<1>9. BatteryLeaves(s, p, w, dev, kw, v)
    BY <1>1, <1>6, <1>7, <1>8, BatteryEffect
<1>10. PICK target, moved \in Int :
        /\ target = BatteryTarget(s, p, w, Signed(dev, kw))
        /\ moved = Abs(target - w.sp.battery)
        /\ v \in Moves /\ v.sp = [w.sp EXCEPT !["battery"] = target]
        /\ target \in StorageFloor(s, p)..StorageCeiling(s, p)
        /\ v.left = w.left - moved /\ v.mode = w.mode
    BY <1>9 DEF BatteryLeaves
<1>11. w.sp.battery \in StorageFloor(s, p)..Ceiling(s, "battery")
    BY <1>1, <1>3, <1>4, <1>5 DEF Kept, Passed
<1>12. target = Clamped(w.sp.battery - kw, StorageFloor(s, p), StorageCeiling(s, p))
    BY <1>10 DEF BatteryTarget, Signed
<1>13. target <= w.sp.battery /\ moved = w.sp.battery - target
    BY <1>4, <1>5, <1>6, <1>10, <1>11, <1>12 DEF Clamped, Abs, Least, Most
<1>14. v.sp.battery = target /\ v.sp.ev = w.sp.ev /\ v.sp.heater = w.sp.heater
    BY <1>5, <1>10 DEF Assets
<1>15. Drawn(s, "battery", w.sp.battery) = w.sp.battery /\ Drawn(s, "battery", target) = target
    <2>1. /\ w.sp.battery \in Floor(s, "battery")..Ceiling(s, "battery")
          /\ target \in Floor(s, "battery")..Ceiling(s, "battery")
        BY <1>4, <1>10, <1>11
    <2> QED BY <2>1, BatteryDraws
<1>16. /\ Drawn(s, "ev", w.sp.ev) \in Int /\ Drawn(s, "heater", w.sp.heater) \in Int
    BY <1>1, CountedIsInt
<1>17. Counted(s, w) <= budget + w.left
    BY DEF Kept
<1>18. Counted(s, v) <= budget + v.left
    BY <1>1, <1>5, <1>10, <1>13, <1>14, <1>15, <1>16, <1>17 DEF Counted
<1>19. v.sp.battery <= Ceiling(s, "battery")
    BY <1>4, <1>10, <1>14
<1>20. w.mode = "curtail" => v.sp.heater = 0
    BY <1>14 DEF Kept
<1>21. v.mode = w.mode
    BY <1>10
<1>22. v \in Kept(s, p, sp, dev, budget, i + 1)
    BY <1>2, <1>18, <1>19, <1>20, <1>21, KeptInTheSameMode
<1> QED BY <1>22 DEF v


LEMMA EvIsKept ==
    ASSUME NEW s, Measured(s), NEW p, p.admits \subseteq Levers,
           NEW sp \in [Assets -> Int], NEW dev \in Int, NEW budget \in Int,
           NEW i \in 1..5, NEW w \in Kept(s, p, sp, dev, budget, i), ~(w.left < DEAD_BAND),
           NEW l \in LeverCandidates(s, p, sp, dev), l.kind = "ev"
    PROVE  ApplyLever(s, p, w, dev, l) \in Kept(s, p, sp, dev, budget, i + 1)
<1> DEFINE kw == Least(w.left, l.capacity)
           v == ApplyLever(s, p, w, dev, l)
<1>1. w \in Passed(s, p, sp, dev) /\ w \in Moves /\ w.left \in Int /\ w.left >= DEAD_BAND
      /\ w.sp \in [Assets -> Int]
    BY DEF Kept, Passed, Moves, DEAD_BAND
<1>2. v \in Passed(s, p, sp, dev)
    BY <1>1, LeverIsPassed DEF Kept
<1>3. l.capacity \in Nat
    BY CandidatesAreOffered DEF Offered
<1>4. kw \in Nat
    BY <1>1, <1>3 DEF Least, DEAD_BAND
<1>5. v = ApplyEv(s, w, dev, kw)
    BY DEF ApplyLever
<1> HIDE DEF v, kw
<1>6. PICK asked, target, landing :
        /\ asked = Most(Most(w.sp.ev, 0) - Signed(dev, kw), 0)
        /\ target = Landed(s, "ev", asked)
        /\ landing = Abs(Landed(s, "ev", Most(w.sp.ev, 0)) - target)
    OBVIOUS
<1>7. /\ v.sp = [w.sp EXCEPT !["ev"] = target] /\ v.left = w.left /\ v.mode = w.mode
    BY <1>1, <1>4, <1>5, <1>6, EvEffect
<1>8. v.sp.battery = w.sp.battery /\ v.sp.heater = w.sp.heater
    BY <1>1, <1>7 DEF Assets
<1>9. Drawn(s, "ev", v.sp.ev) = Drawn(s, "ev", w.sp.ev)
    BY DEF Drawn
<1>10. Counted(s, v) = Counted(s, w)
    BY <1>7, <1>8, <1>9 DEF Counted
<1>11. /\ v.sp.battery <= Ceiling(s, "battery") /\ (w.mode = "curtail" => v.sp.heater = 0)
       /\ Counted(s, v) <= budget + v.left
    BY <1>7, <1>8, <1>10 DEF Kept
<1>12. v \in Kept(s, p, sp, dev, budget, i + 1)
    BY <1>2, <1>7, <1>11, KeptInTheSameMode
<1> QED BY <1>12 DEF v

LEMMA PauseIsKept ==
    ASSUME NEW s, Measured(s), s.tank = "cold" => s.mode # "curtail",
           NEW p, p.admits \subseteq Levers,
           NEW sp \in [Assets -> Int], NEW dev \in Int, NEW budget \in Int,
           NEW i \in 1..5, NEW w \in Kept(s, p, sp, dev, budget, i), ~(w.left < DEAD_BAND),
           NEW l \in LeverCandidates(s, p, sp, dev), l.kind = "heater_pause"
    PROVE  ApplyLever(s, p, w, dev, l) \in Kept(s, p, sp, dev, budget, i + 1)
<1> DEFINE kw == Least(w.left, l.capacity)
           v == ApplyLever(s, p, w, dev, l)
           target == HeaterTarget(s, w, kw)
<1>1. w \in Passed(s, p, sp, dev) /\ w \in Moves /\ w.left \in Int /\ w.left >= DEAD_BAND
      /\ w.sp \in [Assets -> Int]
    BY DEF Kept, Passed, Moves, DEAD_BAND
<1>2. v \in Passed(s, p, sp, dev) /\ v \in Moves
    BY <1>1, LeverIsPassed DEF Kept, Passed
<1>3. l.capacity \in Nat
    BY CandidatesAreOffered DEF Offered
<1>4. kw \in Nat
    BY <1>1, <1>3 DEF Least, DEAD_BAND
<1>5. ~Forces(s, s.mode)
    BY CandidateOfKind DEF Usable
<1>6. w.mode # "curtail"
    BY <1>5 DEF Kept, Forces
<1>7. v = ApplyHeaterPause(s, w, kw)
    BY DEF ApplyLever
<1> HIDE DEF v, kw
<1>8. /\ v.sp = [w.sp EXCEPT !["heater"] = target] /\ target \in Nat
      /\ v.left = w.left - (Drawn(s, "heater", w.sp.heater) - Drawn(s, "heater", target))
      /\ v.mode = w.mode
    BY <1>1, <1>4, <1>7, HeaterPauseEffect
<1> HIDE DEF target
<1>9. v.sp.battery = w.sp.battery /\ v.sp.ev = w.sp.ev /\ v.sp.heater = target
    BY <1>1, <1>8 DEF Assets
<1>10. /\ Drawn(s, "battery", w.sp.battery) \in Int /\ Drawn(s, "ev", w.sp.ev) \in Int
       /\ Drawn(s, "heater", w.sp.heater) \in Int /\ Drawn(s, "heater", v.sp.heater) \in Int
    BY <1>1, <1>2, CountedIsInt
<1>11. Counted(s, w) <= budget + w.left
    BY DEF Kept
<1>12. Counted(s, v) <= budget + v.left
    BY <1>1, <1>6, <1>8, <1>9, <1>10, <1>11 DEF Counted
<1>13. v.sp.battery <= Ceiling(s, "battery")
    BY <1>9 DEF Kept
<1>14. v \in Kept(s, p, sp, dev, budget, i + 1)
    BY <1>2, <1>6, <1>8, <1>12, <1>13, KeptInTheSameMode
<1> QED BY <1>14 DEF v

\* The emergency comes once, and to a heater that heats.
LEMMA EmergencyIsKept ==
    ASSUME NEW s, Measured(s), s.tank = "cold" => s.mode # "curtail",
           NEW p, p.admits \subseteq Levers,
           NEW sp \in [Assets -> Int], NEW dev \in Int, dev > 0, NEW budget \in Int,
           NEW i \in 1..5, NEW w \in Kept(s, p, sp, dev, budget, i), ~(w.left < DEAD_BAND),
           NEW l \in Due(LeverCandidates(s, p, sp, dev), p.incumbent, i),
           l.kind = "heater_emergency"
    PROVE  ApplyLever(s, p, w, dev, l) \in Kept(s, p, sp, dev, budget, i + 1)
<1> DEFINE levers == LeverCandidates(s, p, sp, dev)
           kw == Least(w.left, l.capacity)
           v == ApplyLever(s, p, w, dev, l)
<1>1. w \in Passed(s, p, sp, dev) /\ w \in Moves /\ w.left \in Int /\ w.left >= DEAD_BAND
      /\ w.sp \in [Assets -> Int]
    BY DEF Kept, Passed, Moves, DEAD_BAND
<1>2. l \in levers
    BY DueAreLevers
<1>3. v \in Passed(s, p, sp, dev)
    BY <1>1, <1>2, LeverIsPassed DEF Kept
<1>4. l.capacity \in Nat
    BY <1>2, CandidatesAreOffered DEF Offered
<1>5. l.capacity = (IF Forces(s, "normal") THEN ForcedPower(s) ELSE 0) /\ l.capacity > 0
    BY <1>2, CandidateOfKind DEF Capacity
<1>6. s.tank = "cold" /\ l.capacity = HeaterMax
    BY <1>5 DEF ForcedPower
<1>7. Drawn(s, "heater", w.sp.heater) = HeaterMax
    BY <1>6 DEF Drawn, Forces, ForcedPower
<1>8. w.mode # "curtail"
    <2>1. SUFFICES ASSUME w.mode = "curtail" PROVE FALSE
        OBVIOUS
    <2>2. PICK j \in 1..5 : \E m \in Due(levers, p.incumbent, j) :
                j < i /\ m.kind = "heater_emergency"
        BY <2>1 DEF Kept
    <2>3. PICK m \in Due(levers, p.incumbent, j) : j < i /\ m.kind = "heater_emergency"
        BY <2>2
    <2>4. m \in levers
        BY <2>3, DueAreLevers
    <2>5. \A k \in levers : \A n \in levers : k.kind = n.kind => k = n
        BY CandidateOfKind
    <2>6. l = m
        BY <1>2, <2>3, <2>4, <2>5
    <2> HIDE DEF levers
    <2>7. i = j
        BY <2>3, <2>5, <2>6, DueOnce DEF levers
    <2> QED BY <2>3, <2>7
<1>9. kw \in Nat /\ kw <= HeaterMax
    BY <1>1, <1>4, <1>6, RatingsAreNats DEF Least, DEAD_BAND
<1>10. v = ApplyHeaterEmergency(w, dev, kw)
    BY DEF ApplyLever
<1> HIDE DEF v, kw
<1>11. /\ v.sp = IF dev > 0 THEN [w.sp EXCEPT !["heater"] = 0] ELSE w.sp
       /\ v.mode = IF dev > 0 THEN "curtail" ELSE "absorb"
       /\ v.left = w.left - kw
    BY <1>1, <1>9, <1>10, HeaterEmergencyEffect
<1>12. v.sp.battery = w.sp.battery /\ v.sp.ev = w.sp.ev /\ v.sp.heater = 0
       /\ v.mode = "curtail"
    BY <1>1, <1>11 DEF Assets
<1>13. Drawn(s, "battery", w.sp.battery) \in Int /\ Drawn(s, "ev", w.sp.ev) \in Int
    BY <1>1, CountedIsInt
<1>14. Counted(s, w) <= budget + w.left
    BY DEF Kept
<1>15. Counted(s, v) <= budget + v.left
    BY <1>1, <1>7, <1>8, <1>9, <1>11, <1>12, <1>13, <1>14, RatingsAreNats DEF Counted
<1>16. v.sp.battery <= Ceiling(s, "battery")
    BY <1>12 DEF Kept
<1>17. i < i + 1 /\ l \in Due(levers, p.incumbent, i) /\ l.kind = "heater_emergency"
    OBVIOUS
<1> HIDE DEF levers
<1>18. v \in Kept(s, p, sp, dev, budget, i + 1)
    BY <1>3, <1>6, <1>12, <1>15, <1>16, <1>17 DEF Kept, levers
<1> QED BY <1>18 DEF v

LEMMA LeverIsKept ==
    ASSUME NEW s, Measured(s), s.tank = "cold" => s.mode # "curtail",
           NEW p, ~p.obeysObjective, p.admits \subseteq Levers,
           NEW sp \in [Assets -> Int], NEW dev \in Int, dev > 0, NEW budget \in Int,
           NEW i \in 1..5, NEW w \in Kept(s, p, sp, dev, budget, i), ~(w.left < DEAD_BAND),
           NEW l \in Due(LeverCandidates(s, p, sp, dev), p.incumbent, i)
    PROVE  ApplyLever(s, p, w, dev, l) \in Kept(s, p, sp, dev, budget, i + 1)
<1>1. l \in LeverCandidates(s, p, sp, dev)
    BY DueAreLevers
<1>2. l.kind \in Levers /\ Usable(s, p, dev, l.kind)
    BY <1>1, CandidateOfKind
<1>3. l.kind # "pv_curtail"
    <2>1. Usable(s, p, dev, "pv_curtail") => dev < 0
        BY DEF Usable
    <2> QED BY <1>2, <2>1
<1>4. CASE l.kind = "battery"
    BY <1>1, <1>4, BatteryIsKept
<1>5. CASE l.kind = "ev"
    BY <1>1, <1>5, EvIsKept
<1>6. CASE l.kind = "heater_pause"
    BY <1>1, <1>6, PauseIsKept
<1>7. CASE l.kind = "heater_emergency"
    BY <1>7, EmergencyIsKept
<1> QED BY <1>2, <1>3, <1>4, <1>5, <1>6, <1>7 DEF Levers

\* What the limit pass cannot shed is left over: all else is gone from its count.
LEMMA RankedLeversShed ==
    ASSUME NEW s, Measured(s), s.tank = "cold" => s.mode # "curtail",
           NEW p, ~p.obeysObjective, p.admits \subseteq Levers,
           NEW sp \in [Assets -> Int], sp.battery <= Ceiling(s, "battery"),
           NEW dev \in Int, dev > 0, NEW budget \in Int,
           Drawn(s, "battery", sp.battery) + Drawn(s, "ev", sp.ev)
                + Drawn(s, "heater", sp.heater) <= budget + dev
    PROVE  ApplyRankedLevers(s, p, sp, dev) \in Kept(s, p, sp, dev, budget, 6)
<1> DEFINE start == [Untouched(sp) EXCEPT !.left = Abs(dev)]
           G == [i \in 1..6 |-> Kept(s, p, sp, dev, budget, i)]
<1>1. start \in Kept(s, p, sp, dev, budget, 1)
    <2>1. PICK left \in Int : left = Abs(dev) /\ left = dev
        BY DEF Abs, Most
    <2>2. start = Started(sp, left)
        BY <2>1 DEF Untouched, Started
    <2> HIDE DEF start
    <2>3. /\ start \in Moves /\ start.sp = sp /\ start.lagging = 0 /\ start.bridge = 0
          /\ start.tighten = 0 /\ start.mode = "normal" /\ start.left = dev
        BY <2>1, <2>2, StartedMoves
    <2>4. Awaited(s, sp) \in Int
        BY AwaitedIsBounded
    <2>5. start \in Passed(s, p, sp, dev)
        BY <2>3, <2>4 DEF Passed, Signed
    <2>6. Counted(s, start) <= budget + start.left
        BY <2>3 DEF Counted
    <2> QED BY <2>3, <2>5, <2>6 DEF Kept
<1>2. \A i \in 1..5 : \A w \in Kept(s, p, sp, dev, budget, i) :
        w \in Kept(s, p, sp, dev, budget, i + 1)
    <2>1. \A i \in 1..5 : \A j \in 1..5 : j < i => j < i + 1
        OBVIOUS
    <2> QED BY <2>1 DEF Kept
<1>3. start \in G[1] /\ G[6] = Kept(s, p, sp, dev, budget, 6)
    BY <1>1
<1>4. \A i \in 1..5 : G[i] = Kept(s, p, sp, dev, budget, i)
                      /\ G[i + 1] = Kept(s, p, sp, dev, budget, i + 1)
    OBVIOUS
<1> HIDE DEF G, start
<1>5. \A i \in 1..5 : \A w \in G[i] :
        /\ w \in G[i + 1]
        /\ ~(w.left < DEAD_BAND) =>
             \A l \in Due(LeverCandidates(s, p, sp, dev), p.incumbent, i) :
                ApplyLever(s, p, w, dev, l) \in G[i + 1]
    BY <1>2, <1>4, LeverIsKept
<1>6. ApplyRankedLevers(s, p, sp, dev) \in G[6]
    BY <1>3, <1>5, LoopKeeps DEF start
<1> QED BY <1>3, <1>6

\* The physics draws no more than the limit pass counted.
LEMMA StepIsItsNearest ==
    ASSUME NEW q \in HeaterSteps
    PROVE  NearestStep(q) = q
<1>1. q \in Int /\ Abs(q - q) = 0
    BY StepsAreNats DEF Abs, Most
<1>2. NearestStep(q) \in Int /\ Abs(NearestStep(q) - q) <= 0
    BY <1>1, NearestStepIsNearest, StepsAreNats
<1> QED BY <1>1, <1>2 DEF Abs, Most

LEMMA BatteryStaysBelow ==
    ASSUME IsWorld(world), NEW kw \in Int, kw <= Ceiling(Snapshot, "battery")
    PROVE  /\ BatteryStep(kw) \in Int
           /\ BatteryStep(kw) <= Drawn(Snapshot, "battery", kw)
<1>1. Snapshot.store = world.store
    BY SnapshotFields
<1>2. /\ Floor(Snapshot, "battery") = IF world.store \notin {"empty", "low"} THEN -Rate ELSE 0
      /\ Ceiling(Snapshot, "battery") = IF world.store \in {"high", "full"} THEN 0 ELSE Rate
    BY <1>1 DEF Floor, Ceiling
<1>3. Drawn(Snapshot, "battery", kw)
        = Clamped(kw, Floor(Snapshot, "battery"), Ceiling(Snapshot, "battery"))
    BY DEF Drawn, Landed
<1>4. BatteryStep(kw) = (LET held == Clamped(kw, -Rate, Rate)
                         IN  IF (held > 0 /\ world.store = "full")
                                \/ (held < 0 /\ world.store = "empty") THEN 0 ELSE held)
    BY DEF BatteryStep
<1> QED BY <1>2, <1>3, <1>4, RatingsAreNats DEF Clamped, Least, Most

LEMMA HeaterDraws ==
    ASSUME IsWorld(world), NEW kw \in Int, NEW m
    PROVE  LET s == Snapshot
               step == NearestStep(Clamped(kw, 0, HeaterMax))
           IN  /\ step \in 0..HeaterMax
               /\ HeaterStep(s, kw, m) =
                    (CASE world.tank = "hot" /\ m # "absorb" -> 0
                       [] world.tank = "cold" /\ m # "curtail" -> HeaterMax
                       [] OTHER -> step)
               /\ Drawn(s, "heater", kw) =
                    (CASE world.tank = "hot" /\ mode # "absorb" -> 0
                       [] world.tank = "cold" /\ mode # "curtail" -> HeaterMax
                       [] OTHER -> step)
<1> DEFINE step == NearestStep(Clamped(kw, 0, HeaterMax))
           answer(t, n) == CASE t = "hot" /\ n # "absorb" -> 0
                             [] t = "cold" /\ n # "curtail" -> HeaterMax
                             [] OTHER -> step
<1>1. step \in 0..HeaterMax
    <2>1. Clamped(kw, 0, HeaterMax) \in Int
        BY RatingsAreNats DEF Clamped, Least, Most
    <2>2. step \in HeaterSteps
        BY <2>1, NearestStepIsNearest
    <2> HIDE DEF step
    <2> QED BY <2>2, HeaterMaxIsMost, StepsAreNats
<1>2. ASSUME NEW s
      PROVE  Drawn(s, "heater", kw) = answer(s.tank, s.mode)
    <2>1. Floor(s, "heater") = 0
        BY DEF Floor
    <2>2. CASE s.tank = "hot" /\ s.mode # "absorb"
        BY <2>2 DEF Drawn, Forces, ForcedPower
    <2>3. CASE s.tank = "cold" /\ s.mode # "curtail"
        BY <2>3 DEF Drawn, Forces, ForcedPower
    <2>4. CASE ~Forces(s, s.mode)
        <3>1. Ceiling(s, "heater") = HeaterMax
            BY <2>4 DEF Ceiling
        <3>2. Drawn(s, "heater", kw) = step
            BY <2>1, <2>4, <3>1 DEF Drawn, Landed
        <3> QED BY <2>4, <3>2 DEF Forces
    <2> QED BY <2>2, <2>3, <2>4 DEF Forces
<1>3. /\ Snapshot.tank = world.tank /\ Snapshot.mode = mode
      /\ [Snapshot EXCEPT !.mode = m].mode = m
      /\ [Snapshot EXCEPT !.mode = m].tank = world.tank
    BY SnapshotFields
<1>4. Drawn(Snapshot, "heater", kw) = answer(world.tank, mode)
    BY <1>2, <1>3
<1>5. HeaterStep(Snapshot, kw, m) = answer(world.tank, m)
    <2>1. Drawn([Snapshot EXCEPT !.mode = m], "heater", kw)
            = answer([Snapshot EXCEPT !.mode = m].tank, [Snapshot EXCEPT !.mode = m].mode)
        BY <1>2
    <2> HIDE DEF answer
    <2> QED BY <1>3, <2>1 DEF HeaterStep
<1> QED BY <1>1, <1>4, <1>5

LEMMA HeaterStaysBelow ==
    ASSUME IsWorld(world), NEW kw \in Int, NEW m,
           ~(world.tank = "hot" /\ m = "absorb" /\ mode # "absorb"),
           ~(world.tank = "cold" /\ mode = "curtail")
    PROVE  /\ HeaterStep(Snapshot, kw, m) \in Int
           /\ HeaterStep(Snapshot, kw, m) <= Drawn(Snapshot, "heater", kw)
<1> DEFINE step == NearestStep(Clamped(kw, 0, HeaterMax))
           step2 == HeaterStep(Snapshot, kw, m)
           drawn == Drawn(Snapshot, "heater", kw)
<1>1. /\ step \in 0..HeaterMax
      /\ step2 = (CASE world.tank = "hot" /\ m # "absorb" -> 0
                    [] world.tank = "cold" /\ m # "curtail" -> HeaterMax
                    [] OTHER -> step)
      /\ drawn = (CASE world.tank = "hot" /\ mode # "absorb" -> 0
                    [] world.tank = "cold" /\ mode # "curtail" -> HeaterMax
                    [] OTHER -> step)
    BY HeaterDraws
<1> HIDE DEF step, step2, drawn
<1>2. step2 \in Int /\ step2 <= drawn
    BY <1>1, RatingsAreNats
<1> QED BY <1>2 DEF step2, drawn

LEMMA CurtailedHeaterIsOff ==
    ASSUME IsWorld(world), world.tank = "cold"
    PROVE  HeaterStep(Snapshot, 0, "curtail") = 0
<1>1. HeaterStep(Snapshot, 0, "curtail") = NearestStep(Clamped(0, 0, HeaterMax))
    BY HeaterDraws
<1>2. Clamped(0, 0, HeaterMax) = 0
    BY RatingsAreNats DEF Clamped, Least, Most
<1>3. NearestStep(0) = 0
    BY StepIsItsNearest, StepsAreNats
<1> QED BY <1>1, <1>2, <1>3

\* Without undrawn charge to shed, the limit pass starts inside the range the
\* battery can charge at.
LEMMA GivenIsBelowCeiling ==
    ASSUME TypeOK, ~ShedsUndrawnCharge
    PROVE  Given.battery <= Ceiling(Snapshot, "battery")
<1> DEFINE s == Snapshot
           d == DispatchOverride(s, Proposed.sp)
<1>1. /\ Measured(s) /\ Proposal(s, Proposed) /\ Rated(Proposed.sp)
    BY StagesAreRated DEF Proposal
<1>2. Ceiling(s, "battery") \in Nat /\ Floor(s, "battery") \in Int
    BY RangesAreIntervals DEF Assets
<1>3. Proposed.sp.battery <= Ceiling(s, "battery")
    <2>1. /\ ~(BaseSetpoints.battery > Ceiling(s, "battery"))
          /\ world.arbiter => ~(Carried.battery > Ceiling(s, "battery"))
        BY DEF ShedsUndrawnCharge
    <2>2. BaseSetpoints.battery \in Int /\ Carried.battery \in Int
        BY PlansAreRated DEF Rated, Assets
    <2>3. \/ Proposed.sp.battery \in Floor(s, "battery")..Ceiling(s, "battery")
          \/ Proposed.sp.battery = BaseSetpoints.battery
          \/ world.arbiter /\ Proposed.sp.battery = Carried.battery
        BY <1>1 DEF Proposal
    <2> HIDE DEF s
    <2> QED BY <1>2, <2>1, <2>2, <2>3
<1>4. /\ Rated(d)
      /\ \/ d.battery = Proposed.sp.battery
         \/ d.battery \in Floor(s, "battery")..Ceiling(s, "battery")
    <2> HIDE DEF s
    <2> QED BY <1>1, DispatchIsRated
<1>5. Given = CommsLossClamp(d)
    BY DEF Given
<1> HIDE DEF d
<1>6. Given.battery <= Most(d.battery, 0) /\ d.battery \in Int /\ Given.battery \in Int
    BY <1>4, <1>5, ClampIsRated DEF Rated, Assets
<1>7. Proposed.sp.battery \in Int
    BY <1>1 DEF Rated, Assets
<1> HIDE DEF s
<1>8. Given.battery <= Ceiling(s, "battery")
    BY <1>2, <1>3, <1>4, <1>6, <1>7 DEF Most
<1> QED BY <1>8 DEF s

LEMMA LimitPassSheds ==
    ASSUME TypeOK, ~ShedsUndrawnCharge, ~ReleasesColdHeater, Enforced.left < DEAD_BAND
    PROVE  /\ Enforced.sp.battery <= Ceiling(Snapshot, "battery")
           /\ \/ Enforced.mode = "normal"
              \/ Enforced.mode = "curtail" /\ world.tank = "cold" /\ Enforced.sp.heater = 0
           /\ world.load - LivePv + Counted(Snapshot, Enforced) <= HardLimit
<1> DEFINE s == Snapshot
           pv == Most(LivePv - Proposed.tighten, 0)
           excess == ProjectedNet(s, Given, pv) - LimitTarget
           budget == LimitTarget - s.load + pv
<1>1. /\ Measured(s) /\ Rated(Given) /\ Given \in [Assets -> Int] /\ Enforced \in Moves
      /\ Proposed.tighten \in Int /\ Proposed.tighten >= 0
    BY StagesAreRated DEF Proposal, Rated
<1>2. Given.battery <= Ceiling(s, "battery")
    BY GivenIsBelowCeiling
<1>3. s.load = world.load /\ s.tank = world.tank /\ (s.tank = "cold" => s.mode # "curtail")
      /\ s.load \in Int
    BY SnapshotFields, WorldIsMeasured DEF TypeOK, ReleasesColdHeater
<1>4. Enforced = EnforceImportLimit(s, Given, Proposed.tighten)
    BY DEF Enforced
<1>5. LimitTarget \in Int /\ LivePv \in Int /\ HardLimit \in Int /\ LimitTarget <= HardLimit - 2
    <2>1. HardLimit \in Int
        BY WorldIsMeasured DEF HardLimit, TypeOK
    <2> QED BY <2>1, TypeOKIsTyped, LimitsAreInts
            DEF LimitTarget, LIMIT_MARGIN, LIMIT_RELEASE_HYSTERESIS
<1>6. LivePv >= 0
    <2>1. world.pv \in Nat /\ pvLimit \in Nat
        BY WorldIsMeasured DEF TypeOK
    <2> QED BY <2>1 DEF LivePv, Generation, Least
<1> HIDE DEF s
<1>7. pv \in Int /\ pv <= LivePv
    BY <1>1, <1>5, <1>6 DEF Most
<1>8. excess \in Int
    BY <1>1, <1>5, <1>7, ProjectionsAreInts
<1>9. ProjectedNet(s, Given, pv) = s.load - pv + Drawn(s, "battery", Given.battery)
        + Drawn(s, "ev", Given.ev) + Drawn(s, "heater", Given.heater)
    BY DEF ProjectedNet
<1> HIDE DEF pv
<1>10. /\ Drawn(s, "battery", Given.battery) \in Int /\ Drawn(s, "ev", Given.ev) \in Int
       /\ Drawn(s, "heater", Given.heater) \in Int
    <2>1. Given.battery \in Int /\ Given.ev \in Int /\ Given.heater \in Int
          /\ {"battery", "ev", "heater"} \subseteq Assets
        BY <1>1 DEF Assets
    <2> QED BY <1>1, <2>1, DrawnIsInt
<1>11. CASE excess < DEAD_BAND
    <2>1. Enforced = Started(Given, 0)
        BY <1>4, <1>11 DEF EnforceImportLimit, excess, pv, Untouched, Started
    <2>2. Enforced.sp = Given /\ Enforced.mode = "normal"
        BY <1>1, <2>1, StartedMoves
    <2>3. Counted(s, Enforced) = Drawn(s, "battery", Given.battery) + Drawn(s, "ev", Given.ev)
            + Drawn(s, "heater", Given.heater)
        BY <2>2 DEF Counted
    <2>4. s.load - LivePv + Counted(s, Enforced) <= HardLimit
        BY <1>3, <1>5, <1>7, <1>9, <1>10, <1>11, <2>3 DEF DEAD_BAND
    <2> QED BY <1>2, <1>3, <2>2, <2>4 DEF s
<1>12. CASE ~(excess < DEAD_BAND)
    <2>1. Enforced = ApplyRankedLevers(s, LimitPolicy, Given, excess)
        BY <1>4, <1>12 DEF EnforceImportLimit, excess, pv
    <2>2. LimitPolicy.admits \subseteq Levers /\ LimitPolicy.obeysObjective = FALSE
        BY DEF LimitPolicy, Policy
    <2>3. excess > 0
        BY <1>8, <1>12 DEF DEAD_BAND
    <2>4. budget \in Int
        BY <1>3, <1>5, <1>7
    <2>5. Drawn(s, "battery", Given.battery) + Drawn(s, "ev", Given.ev)
            + Drawn(s, "heater", Given.heater) <= budget + excess
        BY <1>3, <1>5, <1>7, <1>9, <1>10
    <2> HIDE DEF excess, budget
    <2>6. Enforced \in Kept(s, LimitPolicy, Given, excess, budget, 6)
        BY <1>1, <1>2, <1>3, <1>8, <2>1, <2>2, <2>3, <2>4, <2>5, RankedLeversShed
    <2>7. /\ Enforced.sp.battery <= Ceiling(s, "battery") /\ Enforced.mode \in {"normal", "curtail"}
          /\ Enforced.mode = "curtail" => s.tank = "cold" /\ Enforced.sp.heater = 0
          /\ Counted(s, Enforced) <= budget + Enforced.left
        BY <2>6 DEF Kept
    <2>8. Counted(s, Enforced) \in Int /\ Enforced.left \in Int
        BY <1>1, CountedIsInt DEF Moves
    <2>9. s.load - LivePv + Counted(s, Enforced) <= HardLimit
        BY <1>3, <1>5, <1>7, <2>4, <2>7, <2>8 DEF DEAD_BAND, budget
    <2> QED BY <1>3, <2>7, <2>9 DEF s
<1> QED BY <1>11, <1>12

LEMMA TickKeepsTheLimit ==
    ASSUME TypeOK, Tick, ~ShedsUndrawnCharge, ~ReleasesColdHeater, ~AdmitsHotHeater,
           ~GenerationDrops
    PROVE  NeverHidden'
<1> DEFINE b == Final.sp.battery
           h == Final.sp.heater
<1>1. SUFFICES ASSUME Enforced.left < DEAD_BAND
               PROVE  outcome'.net <= HardLimit
    <2>1. Most(Enforced.left, 0) < DEAD_BAND => Enforced.left < DEAD_BAND
        BY StagesAreRated DEF Moves, Most, DEAD_BAND
    <2> QED BY <2>1, TickStages DEF NeverHidden
<1>2. /\ Enforced.sp.battery <= Ceiling(Snapshot, "battery")
      /\ \/ Enforced.mode = "normal"
         \/ Enforced.mode = "curtail" /\ world.tank = "cold" /\ Enforced.sp.heater = 0
      /\ world.load - LivePv + Counted(Snapshot, Enforced) <= HardLimit
    BY <1>1, LimitPassSheds
<1>3. /\ Measured(Snapshot) /\ Enforced \in Moves /\ Rated(Final.sp)
      /\ b = Enforced.sp.battery /\ h = Enforced.sp.heater /\ b \in Int /\ h \in Int
      /\ Proposed.tighten \in Int
    BY StagesAreRated DEF Rated, Assets
<1>4. /\ outcome'.net = world.load - Generation(NewPvLimit) + Stored
                            + Drawn(Snapshot, "ev", Final.sp.ev) + HeaterStep(Snapshot, h, NewMode)
      /\ mode' = NewMode /\ pvLimit' = NewPvLimit /\ Stored = BatteryStep(b)
    BY TickStages DEF Stored
<1>5. IsWorld(world) /\ world.load \in Int /\ world.pv \in Int
    BY WorldIsMeasured DEF TypeOK
<1>6. Stored \in Int /\ Stored <= Drawn(Snapshot, "battery", b)
    BY <1>2, <1>3, <1>4, <1>5, BatteryStaysBelow
<1>7. Drawn(Snapshot, "ev", Final.sp.ev) = Drawn(Snapshot, "ev", Enforced.sp.ev)
    BY DEF Drawn
<1>8. /\ HeaterStep(Snapshot, h, NewMode) \in Int
      /\ HeaterStep(Snapshot, h, NewMode)
            <= IF Enforced.mode = "curtail" THEN 0 ELSE Drawn(Snapshot, "heater", h)
    <2>1. CASE Enforced.mode = "normal"
        <3>1. ~(world.tank = "hot" /\ NewMode = "absorb" /\ mode # "absorb")
            BY <1>4 DEF AdmitsHotHeater, TurnsHotHeater
        <3>2. ~(world.tank = "cold" /\ mode = "curtail")
            BY DEF ReleasesColdHeater
        <3> QED BY <1>3, <1>5, <2>1, <3>1, <3>2, HeaterStaysBelow
    <2>2. CASE Enforced.mode = "curtail" /\ world.tank = "cold" /\ Enforced.sp.heater = 0
        <3>1. NewMode = "curtail" /\ h = 0
            BY <1>3, <2>2 DEF NewMode
        <3> QED BY <1>5, <2>2, <3>1, CurtailedHeaterIsOff
    <2> QED BY <1>2, <2>1, <2>2
<1>9. Generation(NewPvLimit) \in Int /\ LivePv \in Int /\ Generation(NewPvLimit) >= LivePv
    <2>1. pvLimit' \in Int /\ pvLimit \in Int
        BY <1>3, <1>4, PvLimitsAreNats DEF NewPvLimit, TypeOK
    <2>2. Generation(NewPvLimit) \in Int /\ LivePv \in Int
        BY <1>4, <1>5, <2>1 DEF Generation, LivePv, Least
    <2> QED BY <1>4, <2>2 DEF GenerationDrops
<1>10. HardLimit \in Int
    BY WorldIsMeasured DEF HardLimit, TypeOK
<1>11. /\ Drawn(Snapshot, "battery", b) \in Int /\ Drawn(Snapshot, "ev", Enforced.sp.ev) \in Int
       /\ Drawn(Snapshot, "heater", h) \in Int
    BY <1>3, CountedIsInt
<1>12. Counted(Snapshot, Enforced) = Drawn(Snapshot, "battery", b)
            + Drawn(Snapshot, "ev", Enforced.sp.ev)
            + (IF Enforced.mode = "curtail" THEN 0 ELSE Drawn(Snapshot, "heater", h))
    BY <1>3 DEF Counted
<1> HIDE DEF b, h
<1> QED BY <1>2, <1>4, <1>5, <1>6, <1>7, <1>8, <1>9, <1>10, <1>11, <1>12

\* Whatever the plan, the deviation pass and the dispatch window asked for, a
\* tick keeps the import limit in force or reports what it could not shed, for
\* every site: the limit pass's levers (ranked.rs) move by just what they count
\* as moved, but for the four cases the property names.
THEOREM LimitIsKept == Spec => KeepsTheLimit
<1>1. ASSUME Invariant, [Next]_vars
      PROVE  [changes' = changes /\ ~ShedsUndrawnCharge /\ ~ReleasesColdHeater
                /\ ~AdmitsHotHeater /\ ~GenerationDrops => NeverHidden']_vars
    <2>1. CASE Tick
        BY <1>1, <2>1, TickKeepsTheLimit DEF Invariant
    <2>2. CASE \E f \in DOMAIN Values : Change(f)
        <3>1. changes' = changes + 1
            BY <2>2 DEF Change
        <3> QED BY <1>1, <3>1 DEF Invariant
    <2>3. CASE UNCHANGED vars
        BY <2>3
    <2> QED BY <1>1, <2>1, <2>2, <2>3 DEF Next
<1> QED BY <1>1, InvariantHolds, PTL DEF Spec, KeepsTheLimit

-----------------------------------------------------------------------------
(* A dispatch window is met                                                *)

\* The window's pass has one lever, and it is due first.
LEMMA StorageIsDueFirst ==
    ASSUME NEW s, Measured(s), NEW p, p.admits = {"battery"}, p.incumbent = NoLever,
           NEW sp, NEW dev
    PROVE  /\ Due(LeverCandidates(s, p, sp, dev), p.incumbent, 1) = LeverCandidates(s, p, sp, dev)
           /\ \A i \in 2..5 : Due(LeverCandidates(s, p, sp, dev), p.incumbent, i) = {}
<1> DEFINE levers == LeverCandidates(s, p, sp, dev)
<1>1. \A l \in levers : l.kind = "battery"
    BY CandidateOfKind
<1>2. \A l \in levers : \A m \in levers : m = l
    BY <1>1, CandidateOfKind
<1>3. \A l \in levers : l.cost \in Int
    <2>1. s.slot.costImport \in Int /\ s.slot.costExport \in Int
        BY DEF Measured, Slots
    <2>2. Cost(s, dev, "battery") \in Int
        BY <2>1 DEF Cost
    <2> QED BY <1>1, <2>2 DEF LeverCandidates
<1> HIDE DEF levers
<1>4. KeptIncumbent(levers, p.incumbent) = {}
    BY <1>1 DEF KeptIncumbent, NoLever
<1>5. \A l \in levers : Place(levers, l) = 1
    <2> TAKE l \in levers
    <2>1. \A m \in levers : ~Cheaper(m, l)
        <3> TAKE m \in levers
        <3>1. m = l /\ l.cost \in Int /\ l.kind = "battery"
            BY <1>1, <1>2, <1>3
        <3>2. Precedence["battery"] = 1
            BY DEF Precedence
        <3>3. ~(l.cost < l.cost) /\ ~(Precedence[l.kind] < Precedence[l.kind])
            BY <3>1, <3>2
        <3> QED BY <3>1, <3>3 DEF Cheaper
    <2>2. {m \in levers : Cheaper(m, l)} = {}
        BY <2>1
    <2> QED BY <2>2, FS_EmptySet DEF Place
<1>6. \A i \in 1..5 : Due(levers, p.incumbent, i) = {l \in levers : i = 1}
    BY <1>4, <1>5 DEF Due
<1>7. Due(levers, p.incumbent, 1) = levers
    <2>1. Due(levers, p.incumbent, 1) = {l \in levers : 1 = 1}
        BY <1>6
    <2> QED BY <2>1
<1>8. ASSUME NEW i \in 2..5
      PROVE  Due(levers, p.incumbent, i) = {}
    <2>1. i \in 1..5 /\ i # 1
        OBVIOUS
    <2>2. Due(levers, p.incumbent, i) = {l \in levers : i = 1}
        BY <1>6, <2>1
    <2> QED BY <2>1, <2>2
<1> QED BY <1>7, <1>8 DEF levers

\* What the dispatch pass leaves of the deviation, or leaves the battery at.
Answered(s, sp, dev) ==
    {w \in Moves :
        LET rest == dev + w.sp.battery - sp.battery
        IN  /\ w.sp.ev = sp.ev /\ w.sp.heater = sp.heater
            /\ w.sp.battery \in Floor(s, "battery")..Ceiling(s, "battery")
            /\ \/ Abs(rest) < DEAD_BAND
               \/ rest > 0 /\ w.sp.battery <= Floor(s, "battery")
               \/ rest < 0 /\ w.sp.battery >= Ceiling(s, "battery")}

LEMMA StorageAnswersPass ==
    ASSUME NEW s, Measured(s), s.store \notin {"empty", "full"},
           NEW p, p.admits = {"battery"}, p.incumbent = NoLever,
           p.obeysObjective = FALSE, p.bounded = FALSE,
           NEW sp \in [Assets -> Int], NEW dev \in Int,
           sp.battery \in Floor(s, "battery")..Ceiling(s, "battery")
    PROVE  ApplyRankedLevers(s, p, sp, dev) \in Answered(s, sp, dev)
<1> DEFINE start == [Untouched(sp) EXCEPT !.left = Abs(dev)]
           levers == LeverCandidates(s, p, sp, dev)
           lo == Floor(s, "battery")
           hi == Ceiling(s, "battery")
           G == [i \in 1..6 |-> IF i = 1 THEN {start} ELSE Answered(s, sp, dev)]
<1>1. lo \in Int /\ hi \in Int /\ sp.battery \in Int
    BY RangesAreIntervals DEF Assets
<1>2. StorageFloor(s, p) = lo /\ StorageCeiling(s, p) = hi
    BY DEF StorageFloor, StorageCeiling
<1>3. start \in Moves /\ start.sp = sp /\ start.left = Abs(dev)
    <2>1. PICK left \in Int : left = Abs(dev)
        BY DEF Abs, Most
    <2>2. start = Started(sp, left)
        BY <2>1 DEF Untouched, Started
    <2> HIDE DEF start
    <2> QED BY <2>1, <2>2, StartedMoves
<1> HIDE DEF start, lo, hi
<1>4. Capacity(s, p, sp, dev, "battery") = IF dev > 0 THEN sp.battery - lo ELSE hi - sp.battery
    BY <1>2 DEF Capacity
<1>5. start.left < DEAD_BAND \/ levers = {} => start \in Answered(s, sp, dev)
    <2>1. dev + start.sp.battery - sp.battery = dev /\ start.sp.battery = sp.battery
        BY <1>1, <1>3
    <2>2. CASE start.left < DEAD_BAND
        BY <1>3, <2>1, <2>2 DEF Answered, lo, hi
    <2>3. CASE levers = {} /\ ~(start.left < DEAD_BAND)
        <3>1. Usable(s, p, dev, "battery")
            BY DEF Usable
        <3>2. ~(Capacity(s, p, sp, dev, "battery") > 0)
            <4>1. SUFFICES ASSUME Capacity(s, p, sp, dev, "battery") > 0 PROVE levers # {}
                BY <2>3
            <4>2. "battery" \in {k \in p.admits :
                                    Usable(s, p, dev, k) /\ Capacity(s, p, sp, dev, k) > 0}
                BY <3>1, <4>1
            <4> DEFINE c == [kind |-> "battery", cost |-> Cost(s, dev, "battery"),
                             capacity |-> Capacity(s, p, sp, dev, "battery")]
            <4>3. c \in levers
                BY <4>2 DEF LeverCandidates
            <4> QED BY <4>3
        <3>3. \/ dev > 0 /\ sp.battery <= lo
              \/ dev < 0 /\ sp.battery >= hi
            BY <1>1, <1>3, <1>4, <2>3, <3>2 DEF Abs, Most, DEAD_BAND
        <3> QED BY <1>1, <1>3, <2>1, <3>3 DEF Answered, lo, hi
    <2> QED BY <2>2, <2>3
<1>6. ASSUME ~(start.left < DEAD_BAND), NEW l \in levers
      PROVE  ApplyLever(s, p, start, dev, l) \in Answered(s, sp, dev)
    <2> DEFINE kw == Least(start.left, l.capacity)
               v == ApplyLever(s, p, start, dev, l)
    <2>1. l.kind = "battery" /\ l.capacity > 0
          /\ l.capacity = IF dev > 0 THEN sp.battery - lo ELSE hi - sp.battery
        BY <1>4, CandidateOfKind
    <2>2. v = ApplyBattery(s, p, start, dev, kw)
        BY <2>1 DEF ApplyLever
    <2>3. kw = Least(Abs(dev), l.capacity) /\ kw \in Int
        BY <1>1, <1>3, <2>1 DEF Least, Abs, Most
    <2> HIDE DEF v, kw
    <2>4. BatteryLeaves(s, p, start, dev, kw, v)
        <3>1. ~Refused(s, p, dev)
            BY DEF Refused
        <3> QED BY <1>3, <2>2, <2>3, <3>1, BatteryEffect
    <2>5. PICK target \in Int :
            /\ target = BatteryTarget(s, p, start, Signed(dev, kw))
            /\ v \in Moves /\ v.sp = [start.sp EXCEPT !["battery"] = target]
        BY <2>4 DEF BatteryLeaves
    <2>6. v.sp.battery = target /\ v.sp.ev = sp.ev /\ v.sp.heater = sp.heater
        BY <1>3, <2>5 DEF Assets
    <2>7. target = Clamped(sp.battery - Signed(dev, kw), lo, hi)
        BY <1>2, <1>3, <2>5 DEF BatteryTarget
    <2>8. Abs(dev) >= DEAD_BAND
        BY <1>3, <1>6 DEF Abs, Most, DEAD_BAND
    <2>9. target \in lo..hi
          /\ \/ dev + target - sp.battery = 0
             \/ dev + target - sp.battery > 0 /\ target <= lo
             \/ dev + target - sp.battery < 0 /\ target >= hi
        <3>1. sp.battery \in lo..hi
            BY DEF lo, hi
        <3>2. CASE dev > 0
            <4>1. kw = Least(dev, sp.battery - lo) /\ target = sp.battery - kw
                BY <1>1, <2>1, <2>3, <2>7, <3>1, <3>2 DEF Abs, Most, Least, Clamped, Signed
            <4> QED BY <1>1, <3>1, <3>2, <4>1 DEF Least
        <3>3. CASE ~(dev > 0)
            <4>1. dev < 0
                BY <2>8, <3>3 DEF Abs, Most, DEAD_BAND
            <4>2. kw = Least(-dev, hi - sp.battery) /\ target = sp.battery + kw
                BY <1>1, <2>1, <2>3, <2>7, <3>1, <4>1 DEF Abs, Most, Least, Clamped, Signed
            <4> QED BY <1>1, <3>1, <4>1, <4>2 DEF Least
        <3> QED BY <3>2, <3>3
    <2>10. Abs(0) < DEAD_BAND
        BY DEF Abs, Most, DEAD_BAND
    <2>11. v \in Answered(s, sp, dev)
        BY <2>5, <2>6, <2>9, <2>10 DEF Answered, lo, hi
    <2> QED BY <2>11 DEF v
<1>7. /\ Due(levers, p.incumbent, 1) = levers
      /\ \A i \in 2..5 : Due(levers, p.incumbent, i) = {}
    BY StorageIsDueFirst
<1>8. start \in G[1] /\ G[1] = {start} /\ G[6] = Answered(s, sp, dev)
      /\ \A i \in 1..5 : G[i + 1] = Answered(s, sp, dev)
      /\ \A j \in 2..5 : G[j] = Answered(s, sp, dev)
    OBVIOUS
<1> HIDE DEF G, levers
<1>9. \A i \in 1..5 : \A w \in G[i] :
        /\ w.left < DEAD_BAND \/ Due(levers, p.incumbent, i) = {} => w \in G[i + 1]
        /\ ~(w.left < DEAD_BAND) =>
             \A l \in Due(levers, p.incumbent, i) : ApplyLever(s, p, w, dev, l) \in G[i + 1]
    <2> TAKE i \in 1..5
    <2>1. CASE i = 1
        BY <1>5, <1>6, <1>7, <1>8, <2>1
    <2>2. CASE i \in 2..5
        BY <1>7, <1>8, <2>2
    <2> QED BY <2>1, <2>2
<1>10. ApplyRankedLevers(s, p, sp, dev) \in G[6]
    BY <1>8, <1>9, LoopKeeps DEF start, levers
<1> QED BY <1>8, <1>10

\* Without an alert the deviation pass does not curtail the heater.
LEMMA ProposalDoesNotCurtail ==
    ASSUME TypeOK, ~world.alert
    PROVE  Proposed.mode # "curtail"
<1> DEFINE s == Snapshot
           p == DeviationPolicy
           dev == DeviationKw(ProjectedNet(s, Carried, LivePv))
           moved == ApplyRankedLevers(s, p, Carried, dev)
           relabelled == [moved EXCEPT !.lever = IF @ = NoLever THEN HoldingLever(moved.sp) ELSE @]
           holding == [Untouched(Carried) EXCEPT !.lever = HoldingLever(Carried)]
           Heats == {w \in Moves : w.mode # "curtail"}
           G == [i \in 1..6 |-> Heats]
           levers == LeverCandidates(s, p, Carried, dev)
<1>1. Measured(s) /\ Carried \in [Assets -> Int] /\ dev \in Int
      /\ BaseSetpoints \in [Assets -> Int] /\ AtPlan(Carried) \in [Assets -> Int]
    BY StagesAreRated, TypeOKIsTyped, PlansAreRated, LimitsAreInts, ProjectionsAreInts DEF Rated
<1>2. ~s.alert
    BY SnapshotFields DEF TypeOK
<1>3. p.admits = Levers
    BY DEF DeviationPolicy, Policy
<1> HIDE DEF dev, s, p
<1>4. ASSUME NEW w \in Heats, ~(w.left < DEAD_BAND), NEW l \in levers
      PROVE  ApplyLever(s, p, w, dev, l) \in Heats
    <2> DEFINE kw == Least(w.left, l.capacity)
               v == ApplyLever(s, p, w, dev, l)
    <2>1. w \in Moves /\ w.left \in Int /\ w.left >= DEAD_BAND
        BY <1>4 DEF Moves, DEAD_BAND
    <2>2. l.kind \in Levers /\ Usable(s, p, dev, l.kind)
        BY <1>3, CandidateOfKind
    <2>3. l.capacity \in Nat
        BY <1>1, <1>3, CandidatesAreOffered DEF Offered
    <2>4. kw \in Nat /\ kw \in Int
        BY <2>1, <2>3 DEF Least, DEAD_BAND
    <2> HIDE DEF kw
    <2>5. CASE l.kind = "battery"
        <3>1. v = ApplyBattery(s, p, w, dev, kw)
            BY <2>5 DEF ApplyLever, kw
        <3>2. CASE Refused(s, p, dev)
            BY <1>4, <3>1, <3>2 DEF ApplyBattery, Refused
        <3>3. CASE ~Refused(s, p, dev)
            <4>1. BatteryLeaves(s, p, w, dev, kw, v)
                BY <1>1, <2>1, <2>4, <3>1, <3>3, BatteryEffect
            <4> HIDE DEF v
            <4>2. v \in Moves /\ v.mode = w.mode
                BY <4>1 DEF BatteryLeaves
            <4> QED BY <1>4, <4>2 DEF v
        <3> QED BY <3>2, <3>3
    <2>6. CASE l.kind = "ev"
        <3>1. v = ApplyEv(s, w, dev, kw)
            BY <2>6 DEF ApplyLever, kw
        <3> HIDE DEF v
        <3>2. PICK asked, target, landing :
                /\ asked = Most(Most(w.sp.ev, 0) - Signed(dev, kw), 0)
                /\ target = Landed(s, "ev", asked)
                /\ landing = Abs(Landed(s, "ev", Most(w.sp.ev, 0)) - target)
            OBVIOUS
        <3>3. /\ v \in Moves /\ v.sp = [w.sp EXCEPT !["ev"] = target]
              /\ v.left = w.left /\ v.mode = w.mode
            BY <1>1, <2>1, <2>4, <3>1, <3>2, EvEffect
        <3> QED BY <1>4, <3>3 DEF v
    <2>7. CASE l.kind = "heater_pause"
        <3>1. v = ApplyHeaterPause(s, w, kw)
            BY <2>7 DEF ApplyLever, kw
        <3> HIDE DEF v
        <3> DEFINE target == HeaterTarget(s, w, kw)
        <3>2. /\ v \in Moves /\ v.sp = [w.sp EXCEPT !["heater"] = target] /\ target \in Nat
              /\ v.mode = w.mode
            BY <1>1, <2>1, <2>4, <3>1, HeaterPauseEffect
        <3> QED BY <1>4, <3>2 DEF v
    <2>8. CASE l.kind = "heater_emergency"
        <3>1. Usable(s, p, dev, "heater_emergency") => ~(dev > 0)
            BY <1>2 DEF Usable
        <3>2. ~(dev > 0)
            BY <2>2, <2>8, <3>1
        <3>3. v = ApplyHeaterEmergency(w, dev, kw)
            BY <2>8 DEF ApplyLever, kw
        <3>4. w \in Moves /\ dev \in Int /\ kw \in Nat
            BY <1>1, <2>1, <2>4
        <3> HIDE DEF v, Heats, G, levers, moved, relabelled, holding
        <3>5. v \in Moves /\ v.mode = IF dev > 0 THEN "curtail" ELSE "absorb"
            BY <3>3, <3>4, HeaterEmergencyEffect
        <3> QED BY <3>2, <3>5 DEF v, Heats
    <2>9. CASE l.kind = "pv_curtail"
        <3>1. v = ApplyPvCurtail(w, kw)
            BY <2>9 DEF ApplyLever, kw
        <3>2. w \in Moves /\ kw \in Int /\ w.mode # "curtail"
            BY <1>4, <2>1, <2>4
        <3> HIDE DEF v, Heats, G, levers, moved, relabelled, holding
        <3>3. v \in Moves /\ v.mode = w.mode
            BY <3>1, <3>2, PvCurtailEffect
        <3> QED BY <3>2, <3>3 DEF v, Heats
    <2> QED BY <2>2, <2>5, <2>6, <2>7, <2>8, <2>9 DEF Levers
<1>5. moved \in Heats
    <2> DEFINE start == [Untouched(Carried) EXCEPT !.left = Abs(dev)]
    <2>1. start \in Heats
        <3>1. PICK left \in Int : left = Abs(dev)
            BY <1>1 DEF Abs, Most
        <3>2. start = Started(Carried, left)
            BY <3>1 DEF Untouched, Started
        <3> HIDE DEF start
        <3>3. start \in Moves /\ start.mode = "normal"
            BY <1>1, <3>2, StartedMoves
        <3> QED BY <3>3
    <2>2. start \in G[1] /\ G[6] = Heats /\ \A i \in 1..5 : G[i] = Heats /\ G[i + 1] = Heats
        BY <2>1
    <2>3. \A i \in 1..5 : Due(levers, p.incumbent, i) \subseteq levers
        BY DueAreLevers
    <2> HIDE DEF G, levers, start, Heats
    <2>4. \A i \in 1..5 : \A w \in G[i] :
            /\ w \in G[i + 1]
            /\ ~(w.left < DEAD_BAND) =>
                 \A l \in Due(levers, p.incumbent, i) : ApplyLever(s, p, w, dev, l) \in G[i + 1]
        BY <1>4, <2>2, <2>3
    <2>5. ApplyRankedLevers(s, p, Carried, dev) \in G[6]
        BY <2>2, <2>4, LoopKeeps DEF start, levers
    <2> QED BY <2>2, <2>5
<1> HIDE DEF moved, G, levers
<1>6. \A sp \in [Assets -> Int] : Untouched(sp).mode = "normal"
    BY DEF Untouched
<1>7. relabelled.mode # "curtail"
    BY <1>5 DEF Moves
<1>8. holding.mode # "curtail"
    BY <1>1 DEF Untouched
<1>9. /\ SurplusOverlay(s, Carried) \in [Assets -> Int]
      /\ SurplusOverlay(s, BaseSetpoints) \in [Assets -> Int]
    BY <1>1, TypeOKIsTyped, OverlayIsInts
<1>10. Reconcile(s) \in {Untouched(SurplusOverlay(s, Carried)), Untouched(AtPlan(Carried)),
                         relabelled, holding}
    BY DEF Reconcile, relabelled, holding, moved, dev, p
<1> HIDE DEF relabelled, holding
<1>11. Propose(s) \in {Reconcile(s), Untouched(SurplusOverlay(s, BaseSetpoints))}
    BY DEF Propose
<1>12. Propose(s).mode # "curtail"
    BY <1>1, <1>6, <1>7, <1>8, <1>9, <1>10, <1>11
<1> QED BY <1>12 DEF Proposed, s

\* No site can import more than its load and its ratings.
LEMMA SiteIsBounded ==
    ASSUME TypeOK, NEW sp, Rated(sp), NEW pv \in Nat
    PROVE  /\ ProjectedNet(Snapshot, sp, pv) \in Int
           /\ ProjectedNet(Snapshot, sp, pv) <= world.load + Rate + EvMax + HeaterMax
           /\ ProjectedLandedNet(Snapshot, sp, pv) \in Int
           /\ ProjectedLandedNet(Snapshot, sp, pv) <= world.load + Rate + EvMax + HeaterMax
<1> DEFINE s == Snapshot
<1>1. Measured(s) /\ s.load = world.load /\ s.pending = pending /\ IsWorld(world)
      /\ world.load \in Int
    BY StagesAreRated, SnapshotFields, WorldIsMeasured DEF TypeOK
<1>2. /\ sp \in [Assets -> Int] /\ sp.battery \in Int /\ sp.ev \in Nat /\ sp.heater \in Int
      /\ {"battery", "ev", "heater"} \subseteq Assets
    BY RatingsAreNats DEF Rated, Assets
<1>3. pending \in Int /\ pending <= EvMax
    BY RatingsAreNats DEF TypeOK
<1>4. Drawn(s, "ev", sp.ev) <= EvMax
    BY <1>1, <1>3, RatingsAreNats DEF Drawn
<1>5. Landed(s, "ev", sp.ev) <= EvMax
    <2>1. Landed(s, "ev", sp.ev) \in 0..EvMax
        BY <1>2, LandedCharge
    <2> QED BY <2>1, RatingsAreNats
<1>6. Drawn(s, "heater", sp.heater) <= HeaterMax
    <2> DEFINE step == NearestStep(Clamped(sp.heater, 0, HeaterMax))
    <2>1. /\ step \in 0..HeaterMax
          /\ Drawn(s, "heater", sp.heater) =
               (CASE world.tank = "hot" /\ mode # "absorb" -> 0
                  [] world.tank = "cold" /\ mode # "curtail" -> HeaterMax
                  [] OTHER -> step)
        BY <1>1, <1>2, HeaterDraws
    <2> HIDE DEF step
    <2> QED BY <2>1, RatingsAreNats
<1>7. Landed(s, "heater", sp.heater) <= HeaterMax
    <2> DEFINE held == Clamped(sp.heater, Floor(s, "heater"), Ceiling(s, "heater"))
    <2>1. held \in Int
        BY <1>2, RangesAreIntervals DEF Clamped, Least, Most
    <2>2. Landed(s, "heater", sp.heater) = NearestStep(held)
        BY DEF Landed
    <2> HIDE DEF held
    <2> QED BY <2>1, <2>2, NearestStepIsNearest, HeaterMaxIsMost
<1>8. Landed(s, "battery", sp.battery) <= Rate /\ Drawn(s, "battery", sp.battery) <= Rate
    <2>1. /\ Floor(s, "battery") \in Int /\ Ceiling(s, "battery") \in Int
          /\ Ceiling(s, "battery") <= Rate
        BY <1>2, RangesAreIntervals, RatingsAreNats DEF Ceiling
    <2>2. Clamped(sp.battery, Floor(s, "battery"), Ceiling(s, "battery")) <= Rate
        BY <1>2, <2>1, RatingsAreNats DEF Clamped, Least, Most
    <2> QED BY <2>2 DEF Landed, Drawn
<1> HIDE DEF s
<1>9. /\ Drawn(s, "battery", sp.battery) \in Int /\ Drawn(s, "ev", sp.ev) \in Int
      /\ Drawn(s, "heater", sp.heater) \in Int
    BY <1>1, <1>2, DrawnIsInt
<1>10. /\ Landed(s, "battery", sp.battery) \in Int /\ Landed(s, "ev", sp.ev) \in Int
       /\ Landed(s, "heater", sp.heater) \in Int
    BY <1>2, LandedIsInt
<1>11. ProjectedNet(s, sp, pv) \in Int
       /\ ProjectedNet(s, sp, pv) <= world.load + Rate + EvMax + HeaterMax
    BY <1>1, <1>4, <1>6, <1>8, <1>9, RatingsAreNats DEF ProjectedNet
<1>12. ProjectedLandedNet(s, sp, pv) \in Int
       /\ ProjectedLandedNet(s, sp, pv) <= world.load + Rate + EvMax + HeaterMax
    BY <1>1, <1>5, <1>7, <1>8, <1>10, RatingsAreNats DEF ProjectedLandedNet
<1> QED BY <1>11, <1>12 DEF s

\* Without a limit the limit pass leaves the commands alone.
LEMMA LimitRests ==
    ASSUME TypeOK, HardLimit = Unlimited
    PROVE  Enforced.mode = "normal" /\ Final.sp = Given
<1>1. /\ Rated(Given) /\ Given \in [Assets -> Int] /\ Proposed.tighten \in Int
    BY StagesAreRated DEF Rated
<1>2. LivePv \in Nat /\ Most(LivePv - Proposed.tighten, 0) \in Nat
    <2>1. world.pv \in Nat /\ pvLimit \in Nat
        BY WorldIsMeasured DEF TypeOK
    <2> QED BY <1>1, <2>1 DEF LivePv, Generation, Least, Most
<1>3. /\ LimitTarget \in Int /\ world.load + Rate + EvMax + HeaterMax < LimitTarget
      /\ world.load + Rate + EvMax + HeaterMax \in Int
    <2>1. world.load \in Int /\ world.load + Rate + EvMax + HeaterMax
                                    < Unlimited - LIMIT_MARGIN - LIMIT_RELEASE_HYSTERESIS
        BY WorldIsMeasured DEF TypeOK, Loads
    <2>2. LimitTarget >= Unlimited - LIMIT_MARGIN - LIMIT_RELEASE_HYSTERESIS
          /\ LimitTarget \in Int /\ Unlimited \in Int
        BY ArbiterAssumption DEF LimitTarget, LIMIT_MARGIN, LIMIT_RELEASE_HYSTERESIS
    <2> QED BY <2>1, <2>2, RatingsAreNats DEF LIMIT_MARGIN, LIMIT_RELEASE_HYSTERESIS
<1>4. Enforced = Started(Given, 0)
    <2> DEFINE net == ProjectedNet(Snapshot, Given, Most(LivePv - Proposed.tighten, 0))
    <2>1. net \in Int /\ net <= world.load + Rate + EvMax + HeaterMax
        BY <1>1, <1>2, SiteIsBounded
    <2>2. net - LimitTarget < DEAD_BAND
        <3> HIDE DEF net
        <3> QED BY <1>3, <2>1 DEF DEAD_BAND
    <2> QED BY <2>2 DEF Enforced, EnforceImportLimit, Untouched, Started
<1>5. Enforced.sp = Given /\ Enforced.mode = "normal"
    BY <1>1, <1>4, StartedMoves
<1>6. Final = Enforced
    <2> DEFINE net == ProjectedLandedNet(Snapshot, Enforced.sp, LivePv)
    <2>1. net \in Int /\ net <= world.load + Rate + EvMax + HeaterMax
        BY <1>1, <1>2, <1>5, SiteIsBounded
    <2>2. net - LimitTarget < DEAD_BAND
        <3> HIDE DEF net
        <3> QED BY <1>3, <2>1 DEF DEAD_BAND
    <2> QED BY <2>2 DEF Final, HoldWhereCommandsLand
<1> QED BY <1>5, <1>6

\* Neither empty nor full, the battery delivers what it is asked for in its range.
LEMMA BatteryDelivers ==
    ASSUME IsWorld(world), world.store \notin {"empty", "full"},
           NEW kw \in Floor(Snapshot, "battery")..Ceiling(Snapshot, "battery")
    PROVE  BatteryStep(kw) = kw
<1>1. Floor(Snapshot, "battery") \in -Rate..0 /\ Ceiling(Snapshot, "battery") \in 0..Rate
    BY RatingsAreNats DEF Floor, Ceiling
<1>2. kw \in -Rate..Rate
    BY <1>1, RatingsAreNats
<1>3. Clamped(kw, -Rate, Rate) = kw
    BY <1>2, RatingsAreNats DEF Clamped, Least, Most
<1> QED BY <1>3 DEF BatteryStep

\* A heater whose mode stays draws what the passes counted.
LEMMA HeaterDrawsAsCounted ==
    ASSUME IsWorld(world), NEW kw \in Int, NEW m, m # "curtail",
           world.tank = "hot" => ((mode = "absorb") <=> (m = "absorb")),
           ~(world.tank = "cold" /\ mode = "curtail")
    PROVE  HeaterStep(Snapshot, kw, m) = Drawn(Snapshot, "heater", kw)
<1> DEFINE step == NearestStep(Clamped(kw, 0, HeaterMax))
<1>1. /\ HeaterStep(Snapshot, kw, m) =
            (CASE world.tank = "hot" /\ m # "absorb" -> 0
               [] world.tank = "cold" /\ m # "curtail" -> HeaterMax
               [] OTHER -> step)
      /\ Drawn(Snapshot, "heater", kw) =
            (CASE world.tank = "hot" /\ mode # "absorb" -> 0
               [] world.tank = "cold" /\ mode # "curtail" -> HeaterMax
               [] OTHER -> step)
    BY HeaterDraws
<1> HIDE DEF step
<1> QED BY <1>1

LEMMA TickMeetsDispatch ==
    ASSUME TypeOK, Tick, outcome'.dispatch # NoDispatch, ~world.lost, HardLimit = Unlimited,
           StorageAnswers, ~ReleasesColdHeater, ~TurnsHotHeater,
           Generation(pvLimit') = LivePv
    PROVE  \/ Abs(outcome'.net - world.dispatch) < DEAD_BAND
           \/ outcome'.net > world.dispatch /\ command'.battery <= Floor(Snapshot, "battery")
           \/ outcome'.net < world.dispatch /\ command'.battery >= Ceiling(Snapshot, "battery")
<1> DEFINE s == Snapshot
           sp == Proposed.sp
           dev == ProjectedNet(s, sp, LivePv) - world.dispatch
           w == ApplyRankedLevers(s, DispatchPolicy, sp, dev)
<1>1. ~world.alert /\ world.dispatch # NoDispatch
    BY TickStages DEF NoDispatch
<1>2. /\ Measured(s) /\ Proposal(s, Proposed) /\ sp \in [Assets -> Int]
      /\ Proposed \in Moves
    BY StagesAreRated DEF Proposal, Rated
<1>3. /\ s.store = world.store /\ s.load = world.load /\ world.load \in Int
      /\ world.dispatch \in Int /\ LivePv \in Int /\ IsWorld(world)
    BY SnapshotFields, WorldIsMeasured, TypeOKIsTyped, LimitsAreInts DEF TypeOK
<1>4. sp.battery \in Floor(s, "battery")..Ceiling(s, "battery")
    BY <1>2 DEF Proposal, StorageAnswers
<1>5. dev \in Int
    BY <1>2, <1>3, ProjectionsAreInts
<1>6. /\ Final.sp = w.sp /\ NewMode = Proposed.mode
    <2>1. Enforced.mode = "normal" /\ Final.sp = Given
        BY LimitRests
    <2>2. Given = DispatchOverride(s, sp)
        BY DEF Given, CommsLossClamp
    <2>3. DispatchOverride(s, sp) = w.sp
        BY <1>1 DEF DispatchOverride
    <2> QED BY <2>1, <2>2, <2>3 DEF NewMode
<1> HIDE DEF s
<1>7. w \in Answered(s, sp, dev)
    <2>1. /\ DispatchPolicy.admits = {"battery"} /\ DispatchPolicy.incumbent = NoLever
          /\ DispatchPolicy.obeysObjective = FALSE /\ DispatchPolicy.bounded = FALSE
        BY DEF DispatchPolicy, Policy
    <2>2. s.store \notin {"empty", "full"}
        BY <1>3 DEF StorageAnswers
    <2> HIDE DEF dev
    <2> QED BY <1>2, <1>4, <1>5, <2>1, <2>2, StorageAnswersPass
<1>8. ProjectedNet(s, sp, LivePv) = s.load - LivePv + Drawn(s, "battery", sp.battery)
            + Drawn(s, "ev", sp.ev) + Drawn(s, "heater", sp.heater)
    BY DEF ProjectedNet
<1>9. Drawn(s, "battery", sp.battery) = sp.battery
    BY <1>4, BatteryDraws
<1> HIDE DEF w
<1>10. /\ w \in Moves /\ w.sp \in [Assets -> Int] /\ w.sp.ev = sp.ev /\ w.sp.heater = sp.heater
       /\ w.sp.battery \in Floor(s, "battery")..Ceiling(s, "battery")
       /\ \/ Abs(dev + w.sp.battery - sp.battery) < DEAD_BAND
          \/ dev + w.sp.battery - sp.battery > 0 /\ w.sp.battery <= Floor(s, "battery")
          \/ dev + w.sp.battery - sp.battery < 0 /\ w.sp.battery >= Ceiling(s, "battery")
    <2> HIDE DEF dev
    <2> QED BY <1>7 DEF Answered, Moves
<1>11. Stored = w.sp.battery
    <2>1. world.store \notin {"empty", "full"}
        BY DEF StorageAnswers
    <2> QED BY <1>3, <1>6, <1>10, <2>1, BatteryDelivers DEF Stored, s
<1>12. HeaterStep(s, Final.sp.heater, NewMode) = Drawn(s, "heater", sp.heater)
    <2>1. NewMode # "curtail"
        BY <1>1, <1>6, ProposalDoesNotCurtail
    <2>2. mode' = NewMode
        BY TickStages
    <2>3. sp.heater \in Int
        BY <1>2 DEF Assets
    <2>4. world.tank = "hot" => ((mode = "absorb") <=> (NewMode = "absorb"))
        BY <2>2 DEF TurnsHotHeater
    <2>5. ~(world.tank = "cold" /\ mode = "curtail")
        BY DEF ReleasesColdHeater
    <2> QED BY <1>3, <1>6, <1>10, <2>1, <2>3, <2>4, <2>5, HeaterDrawsAsCounted DEF s
<1>13. /\ outcome'.net = world.load - Generation(NewPvLimit) + Stored
                + Drawn(s, "ev", Final.sp.ev) + HeaterStep(s, Final.sp.heater, NewMode)
       /\ Generation(NewPvLimit) = LivePv /\ command' = Final.sp
    BY TickStages DEF s
<1>14. Drawn(s, "ev", Final.sp.ev) = Drawn(s, "ev", sp.ev)
    BY DEF Drawn
<1>15. /\ Drawn(s, "ev", sp.ev) \in Int /\ Drawn(s, "heater", sp.heater) \in Int
       /\ sp.battery \in Int /\ w.sp.battery \in Int
    <2>1. sp.battery \in Int /\ sp.ev \in Int /\ sp.heater \in Int /\ w.sp.battery \in Int
          /\ {"battery", "ev", "heater"} \subseteq Assets
        BY <1>2, <1>10 DEF Assets
    <2> QED BY <1>2, <2>1, DrawnIsInt
<1>16. outcome'.net - world.dispatch = dev + w.sp.battery - sp.battery /\ outcome'.net \in Int
    BY <1>3, <1>8, <1>9, <1>11, <1>12, <1>13, <1>14, <1>15
<1> HIDE DEF dev
<1>17. command'.battery = w.sp.battery
    BY <1>6, <1>13
<1>18. \/ Abs(outcome'.net - world.dispatch) < DEAD_BAND
       \/ outcome'.net > world.dispatch /\ command'.battery <= Floor(s, "battery")
       \/ outcome'.net < world.dispatch /\ command'.battery >= Ceiling(s, "battery")
    BY <1>3, <1>5, <1>10, <1>15, <1>16, <1>17
<1> QED BY <1>18 DEF s

\* For every site a tick inside a dispatch window ends within the dead band of
\* its setpoint, or with the battery at the end of its range: the pass asks the
\* battery alone (ranked.rs, storage_setpoint_range_kw), and no limit moves it
\* afterwards.
THEOREM DispatchHolds == Spec => DispatchIsMet
<1>1. ASSUME Invariant, [Next]_vars
      PROVE  [changes' = changes /\ outcome'.dispatch # NoDispatch
                /\ ~world.lost /\ HardLimit = Unlimited
                /\ StorageAnswers /\ ~ReleasesColdHeater /\ ~TurnsHotHeater
                /\ Generation(pvLimit') = LivePv
                => \/ Abs(outcome'.net - world.dispatch) < DEAD_BAND
                   \/ outcome'.net > world.dispatch
                        /\ command'.battery <= Floor(Snapshot, "battery")
                   \/ outcome'.net < world.dispatch
                        /\ command'.battery >= Ceiling(Snapshot, "battery")]_vars
    <2>1. CASE Tick
        BY <1>1, <2>1, TickMeetsDispatch DEF Invariant
    <2>2. CASE \E f \in DOMAIN Values : Change(f)
        <3>1. changes' = changes + 1
            BY <2>2 DEF Change
        <3> QED BY <1>1, <3>1 DEF Invariant
    <2>3. CASE UNCHANGED vars
        BY <2>3
    <2> QED BY <1>1, <2>1, <2>2, <2>3 DEF Next
<1> QED BY <1>1, InvariantHolds, PTL DEF Spec, DispatchIsMet
=============================================================================
