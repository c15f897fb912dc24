SPECIFICATION FairSpec
CONSTANTS
    b1 = b1
    b2 = b2
    p1 = p1
    p2 = p2
    u1 = u1
    c1 = c1
    c2 = c2
    None = None
    Bookings = {b1}
    Payments = {p1, p2}
    Users = {u1}
    Courts = {c1}
    Slots <- MCOneSlot
    HoldWindow = 1
    PastSlotGrace = 1
    LateCancelWindow = 1
    MonthAfter <- MCMonths
    RequestTimeout = 1
    InitialStandings <- MCClose
    Legacy <- MCNoLegacy
    MaxNow = 3
    MaxInFlight = 2
PROPERTIES
    LapsedHoldsAreReleased
    BookedHoursEnd
    PaidIsRecorded
CHECK_DEADLOCK FALSE
