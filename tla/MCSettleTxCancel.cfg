SPECIFICATION Spec
CONSTANTS
    o1 = o1
    o2 = o2
    s1 = s1
    s2 = s2
    s3 = s3
    Online = {o1}
    Cash = cash
    d1 = d1
    Settlers = {s1}
    Deniers = {}
    PaymentOf <- MCPaymentOf1
    Cancellers = {x1}
    Sweepers = {}
    Rebookers = {}
    CashBookers = {k1}
    Collectors = {v1}
    B = booking
    NoTx = NoTx
INVARIANTS
    PaidOnlineIsNotCancelled
CHECK_DEADLOCK FALSE
