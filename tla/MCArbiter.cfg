SPECIFICATION FairSpec
CONSTANTS
    Rate = 100
    EvMin = 28
    EvMax = 140
    HeaterSteps <- MCSteps
    Percent = 70
    EvDefault = 0
    PvRated = 100
    Unlimited = 1000
    MaxChanges = 3
    Initially <- MCInitially
    Values <- MCValues
INVARIANTS
    TypeOK
    StaysInFailSafe
PROPERTIES
    KeepsTheLimit
    DispatchIsMet
    CorrectionEnds
