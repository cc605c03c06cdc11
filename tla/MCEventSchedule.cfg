CONSTANTS
    None = None
    tariff = tariff
    peak = peak
    curb = curb
    newer = newer
    standing = standing
    reserve = reserve
    simple = simple
    severe = severe
    steer = steer
    export = export
    Events = {tariff, peak, curb, newer, standing, reserve, simple, severe, steer, export}
    Declared <- MCDeclared
    Fraction <- MCFraction
    MaxListed = 3
    MaxTime = 6
    OpenEnd = 90
    MaxLooped = 8
    SlotEnds <- MCSlotEnds
    BaseLoad <- MCBaseLoad
    PhysImport = 10
    Level1Percent = 50
SPECIFICATION Spec
INVARIANT TypeOK
INVARIANT ScheduleIsRanked
INVARIANT SlotCapsFollowSignals
