SPECIFICATION FairSpec
CONSTANTS
    cost = cost
    carbon = carbon
    Objectives <- MCObjectives
    Profile = cost
    RequestQueue = 1
    CommandQueue = 1
    BffQueue = 2
    MaxCommands = 2
    MaxEvents = 2
INVARIANT TypeOK
INVARIANT AtRestFollowsBroker
PROPERTY QueuedCommandIsApplied
PROPERTY NeverAppliesAnOldCommand
CHECK_DEADLOCK FALSE
