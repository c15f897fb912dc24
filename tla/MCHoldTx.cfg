SPECIFICATION FairSpec
CONSTANTS
    t1 = t1
    t2 = t2
    t3 = t3
    Requests = {t1, t2, t3}
    SlotOf <- MCStaggered
    OldSlot <- MCOldEarly
    Nobody = Nobody
INVARIANTS
    SomeoneGetsTheHour
PROPERTIES
    AttemptsEnd
    CreatesAtomically
CHECK_DEADLOCK FALSE
