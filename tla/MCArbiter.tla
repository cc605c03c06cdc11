----------------------------- MODULE MCArbiter -----------------------------
(***************************************************************************)
(* Arbiter for TLC, in units of 50 W: a 5 kW battery, a charger from 1.4   *)
(* to 7 kW, a heater with two stages of 1.5 kW and a 5 kW array, under a   *)
(* plan slot drawn from six: none, a slot that charges at the battery's    *)
(* rate, one that sells the sun, one that leaves the site at its base      *)
(* load, one whose prices make curtailment and the heater's comfort worth  *)
(* paying for, and one that heats at such prices just below the limit.     *)
(***************************************************************************)
EXTENDS Arbiter

MCSteps == {0, 30, 60}

NoSlot ==
    [known |-> FALSE, battery |-> 0, evAllocated |-> FALSE, ev |-> 0, heater |-> 0, net |-> 0,
     pvUsed |-> 0, pvForecast |-> 0, costImport |-> 0, costExport |-> 0, tariff |-> 0,
     maxRevenue |-> FALSE]
Quiet == [NoSlot EXCEPT !.known = TRUE, !.net = 20]
Charging ==
    [Quiet EXCEPT !.battery = Rate, !.evAllocated = TRUE, !.ev = EvMax, !.heater = 30, !.net = 290,
                  !.costImport = 20, !.costExport = 8, !.tariff = 8]
Sunny ==
    [Quiet EXCEPT !.battery = 60, !.net = -20, !.pvUsed = 100, !.pvForecast = 100,
                  !.costImport = 20, !.costExport = 8, !.tariff = 8]
Dear ==
    [Quiet EXCEPT !.battery = -60, !.net = -100, !.pvUsed = 100, !.pvForecast = 100,
                  !.costImport = 50, !.costExport = 45, !.tariff = 30, !.maxRevenue = TRUE]
Warm ==
    [Quiet EXCEPT !.heater = 30, !.net = 79, !.costImport = 50, !.costExport = 45, !.tariff = 30]
MCSlots == {NoSlot, Quiet, Charging, Sunny, Dear}

\* Under the limit nothing but the hot heater is left to absorb with.
Limited ==
    [load |-> 20, pv |-> 0, limit |-> 81, alert |-> FALSE, dispatch |-> NoDispatch,
     lost |-> FALSE, plugged |-> TRUE, charged |-> FALSE, store |-> "high", tank |-> "comfort",
     slot |-> Warm, overlay |-> FALSE, arbiter |-> TRUE]
MCInitially ==
    {Limited} \cup {[load |-> 20, pv |-> sun, limit |-> Unlimited, alert |-> FALSE, dispatch |-> NoDispatch,
      lost |-> FALSE, plugged |-> TRUE, charged |-> FALSE, store |-> "middle", tank |-> "comfort",
      slot |-> slot, overlay |-> TRUE, arbiter |-> on] :
        sun \in {0, PvRated}, slot \in MCSlots, on \in BOOLEAN}
MCValues ==
    [load |-> {20, 70}, pv |-> {0, PvRated}, limit |-> {Unlimited, 81}, alert |-> BOOLEAN,
     dispatch |-> {NoDispatch, 0, 200}, lost |-> BOOLEAN, plugged |-> BOOLEAN, charged |-> BOOLEAN,
     store |-> {"empty", "low", "middle", "high", "full"}, tank |-> {"cold", "comfort", "hot"},
     slot |-> MCSlots \ {Dear}, overlay |-> BOOLEAN]
=============================================================================
