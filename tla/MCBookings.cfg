SPECIFICATION Spec
CONSTANTS
    b1 = b1
    b2 = b2
    p1 = p1
    p2 = p2
    u1 = u1
    c1 = c1
    c2 = c2
    None = None
    Bookings = {b1, b2}
    Payments = {p1, p2, p3}
    Users = {u1}
    Courts = {c1}
    Slots <- MCOverlapping
    HoldWindow = 1
    PastSlotGrace = 0
    LateCancelWindow = 0
    MonthAfter <- MCMonths
    RequestTimeout = 0
    InitialStandings <- MCClose
    Legacy <- MCNoLegacy
    MaxNow = 3
    MaxInFlight = 2
SYMMETRY MCSymmetry
INVARIANTS
    NoDoubleBooking
    PreCheckMeansConstraint
    BookedHourHasItsPayment
    VenueNeverCollectsTwice
    CashWaitsOnlyOnBookedHours
PROPERTIES
    PaidOnlineLosesItsHourOnlyToCancel
    VerifiedIsForever
    VerifiedSettlementIsWritten
    HoursAreSoldOneByOne
CHECK_DEADLOCK FALSE
