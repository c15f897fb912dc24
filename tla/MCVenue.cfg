SPECIFICATION Spec
CONSTANTS
    Hour = 2
    Day = 6
    Offset = 1
    MinBookingDuration = 1
    MaxBookingDuration = 4
    PastSlotGrace = 1
    Null = Null
    Owner = Owner
    Stranger = Stranger
    Courts = {c1, c2}
    OpeningHours <- MCOpeningHours
    Bases = {1}
    Rules <- MCRules
    MaxRules = 2
    MaxBooked = 1
    MaxNow = 3
    Dates = {0, 1}
    AskedSlots <- MCAskedSlots
    Merchants = {m1, m2}
CONSTRAINT MCOneStory
SYMMETRY MCSymmetry
INVARIANTS
    FreeCellsCanBeBooked
    QuotedPriceIsCharged
    GridsHideNothing
    KeptAccountsSettle
CHECK_DEADLOCK FALSE
