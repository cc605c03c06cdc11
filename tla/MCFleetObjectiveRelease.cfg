SPECIFICATION FairSpec
CONSTANTS
    cost = cost
    carbon = carbon
    Objectives <- MCObjectives
    Profile = cost
    RequestQueue = 2
    CommandQueue = 1
    BffQueue = 2
    MaxCommands = 2
    MaxEvents = 1
PROPERTY WithdrawnCommandEnds
CHECK_DEADLOCK FALSE
