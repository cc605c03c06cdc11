-------------------------- MODULE MCEventSchedule --------------------------
(***************************************************************************)
(* EventSchedule for TLC: a pool of events that meet each other in every   *)
(* way the parser tells apart.  Plans start anywhere between 0 and MaxTime *)
(* and have a short, a long and a short slot.                              *)
(***************************************************************************)
EXTENDS EventSchedule

CONSTANTS
    tariff,   \* two prices in turn, for ever, from 0: no priority
    peak,     \* a price with priority, cut short by its event's duration
    curb,     \* two limits with a gap between them, repeated, the last one cut
    newer,    \* a limit of the same priority, newer, open-ended, randomized start
    standing, \* a subscription without any start
    reserve,  \* a reservation, and a limit above the connection, back to back
    simple,   \* level 1, then level 2, then 0, randomized start
    severe,   \* an alert, and level 3 later, randomized start
    steer, export  \* two dispatch setpoints that overlap

At(start, dur, payload) == [start |-> start, dur |-> dur, window |-> 0, payload |-> payload]
Then(payload) == At(None, None, payload)
Of(types, value) == [type \in PayloadTypes |-> IF type \in types THEN value ELSE None]
One(type, value) == Of({type}, value)

Listed(priority, created, start, dur, window, duration, intervals) ==
    [priority |-> priority, created |-> created,
     period |-> [start |-> start, dur |-> dur, window |-> window],
     duration |-> duration, intervals |-> intervals]

MCDeclared == [e \in Events |->
    CASE e = tariff -> Listed(None, 1, 0, 1, 0, 60,
            <<Then(Of(TariffTypes, 1)), Then(One("PRICE", 2))>>)
      [] e = peak -> Listed(2, 1, 2, 2, 0, 3,
            <<Then(One("PRICE", 3)), Then(One("PRICE", 4)), Then(One("PRICE", 5))>>)
      [] e = curb -> Listed(1, 1, None, None, 0, 7,
            <<At(1, 1, One("IMPORT_CAPACITY_LIMIT", 4)), At(3, 2, One("IMPORT_CAPACITY_LIMIT", 6))>>)
      [] e = newer -> Listed(1, 2, 2, None, 2, None, <<Then(One("IMPORT_CAPACITY_LIMIT", 8))>>)
      [] e = standing -> Listed(None, 1, None, None, 0, None,
            <<Then(One("IMPORT_CAPACITY_SUBSCRIPTION", 4)), Then(One("IMPORT_CAPACITY_SUBSCRIPTION", 2))>>)
      [] e = reserve -> Listed(None, 1, 4, 2, 0, None,
            <<Then(One("IMPORT_CAPACITY_RESERVATION", 2)), Then(One("IMPORT_CAPACITY_LIMIT", 12))>>)
      [] e = simple -> Listed(None, 1, 1, 2, 2, None,
            <<Then(One("SIMPLE", 1)), Then(One("SIMPLE", 2)), Then(One("SIMPLE", 0))>>)
      [] e = severe -> Listed(3, 1, 3, 1, 0, None, <<Then(One("ALERT", 1)), [At(6, 1, One("SIMPLE", 3)) EXCEPT !.window = 2]>>)
      [] e = steer -> Listed(2, 1, 1, 3, 0, None, <<Then(One("DISPATCH_SETPOINT", 5))>>)
      [] OTHER -> Listed(1, 1, 2, 3, 0, None, <<Then(One("DISPATCH_SETPOINT", -5))>>)]

MCFraction == [e \in Events |-> IF e = simple THEN 99 ELSE 50]

MCSlotEnds == <<1, 4, 5>>

MCBaseLoad == <<1, 6, 2>>
=============================================================================
