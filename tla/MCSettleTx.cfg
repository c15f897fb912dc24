SPECIFICATION Spec
CONSTANTS
    o1 = o1
    o2 = o2
    s1 = s1
    s2 = s2
    s3 = s3
    Online = {o1, o2}
    Cash = cash
    d1 = d1
    Settlers = {s1, s2, s3}
    Deniers = {d1}
    PaymentOf <- MCPaymentOf
    Cancellers = {x1}
    Sweepers = {w1}
    Rebookers = {n1}
    CashBookers = {k1}
    Collectors = {v1}
    B = booking
    NoTx = NoTx
INVARIANTS
    IndexNeverRefuses
    PaymentsNeverDeadlockAlone
PROPERTIES
    ActsAtomically
CHECK_DEADLOCK FALSE
