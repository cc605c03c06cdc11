CONSTANTS
    p = p
    l = l
    a = a
    s = s
    d = d
    Events = {s}
    Versions = {1, 2}
    OtherTriggers = {}
    Decay = 1
    SolverFails = TRUE
    MaxChanges = 3
    MaxPollPanics = 1
    MaxPlannerPanics = 0
    Kind <- MCKind
SPECIFICATION SolverSpec
INVARIANTS
    TypeOK
    RegimeInForce
    OnlyRemovalsAreMissed
PROPERTIES
    SolvedPlanStays
    SignalReachesPlan
