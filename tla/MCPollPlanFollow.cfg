CONSTANTS
    p = p
    l = l
    a = a
    s = s
    d = d
    Events = {p, l, a, d}
    Versions = {1}
    OtherTriggers = {"UserRequest", "ResidualThreshold"}
    Decay = 1
    SolverFails = FALSE
    MaxChanges = 3
    MaxPollPanics = 0
    MaxPlannerPanics = 1
    Kind <- MCKind
SPECIFICATION Spec
INVARIANTS
    PlanFollowsGrid
    GridIsFetched
