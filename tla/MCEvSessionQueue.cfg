CONSTANTS
    s1 = s1
    s2 = s2
    s3 = s3
    SessionIds <- MCSessionIds
    Times <- MCTimes
SPECIFICATION Spec
INVARIANTS
    TypeOK
    WindowsInOrder
    CurrentIsUnique
    UpcomingDepartsFirst
PROPERTY ImplementsCalendar
