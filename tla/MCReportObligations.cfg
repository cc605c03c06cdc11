SPECIFICATION FairSpec
CONSTANTS
    Events = {"event"}
    Slots = {"forecast", "usage"}
    EventOf <- MCEventOf
    Forecasts = {"forecast"}
    Objectives = {"planned", "opportunistic"}
    MaxSurprises = 2
INVARIANTS
    TypeOK
    OneObligationPerSlot
    OnlyListedAreOwed
PROPERTIES
    SubmittedIsStored
    DueIsDealtWith
    ForecastReachesVtn
CHECK_DEADLOCK FALSE
