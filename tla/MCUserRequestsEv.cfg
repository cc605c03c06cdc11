CONSTANTS
    e1 = e1
    e2 = e2
    t1 = t1
    h1 = h1
    h2 = h2
    l1 = l1
    l2 = l2
    l3 = l3
    ev = ev
    heater = heater
    battery = battery
    washer = washer
    EvRequests = {e1, e2}
    HeaterRequests = {}
    LoadRequests = {}
    Trips = {t1}
    BootAssets = {ev, heater, battery}
    FinishedKept = 1
    Retention = 1
    MaxTime = 2
    AssetOf <- MCAssetOf
    WindowStart <- MCWindowStart
    Deadline <- MCDeadline
SPECIFICATION FairSpec
INVARIANTS
    TypeOK
    PlanKnowsSessions
PROPERTIES
    PassedSessionsEnd
    EndedSessionEndsRequest
    EvCalendars
