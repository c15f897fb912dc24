SPECIFICATION Spec
CONSTANTS
    b1 = b1
    b2 = b2
    p1 = p1
    p2 = p2
    u1 = u1
    c1 = c1
    c2 = c2
    None = None
    Bookings = {b1, b2}
    Payments = {p1, p2, p3}
    Users = {u1}
    Courts = {c1, c2}
    Slots <- MCLegacySlot
    HoldWindow = 2
    PastSlotGrace = 1
    LateCancelWindow = 4
    MonthAfter <- MCMonths
    RequestTimeout = 1
    InitialStandings <- MCMixed
    Legacy <- MCLegacy
    MaxNow = 4
    MaxInFlight = 2
SYMMETRY MCSwap
INVARIANTS
    TypeOK
    BannedExactlyAtTheFloor
    OneCashDebtPerHour
PROPERTIES
    BansAreNotCancelledAway
    LapsedHoldsAreRevivedOnlyByMoney
CHECK_DEADLOCK FALSE
