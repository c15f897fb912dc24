SPECIFICATION Spec
CONSTANTS
    Users = {u1}
    Clients = {c1, c2}
    Passwords = {p1, p2}
    Tokens = {t1, t2, t3}
    Links = {l1}
    Null = Null
    RefreshTTL = 1
    AccessTTL = 1
    PasswordResetTTL = 1
    RetainRevoked = 0
    MaxNow = 2
SYMMETRY MCSymmetry
INVARIANTS
    ChainsDoNotFork
    SweepIsNeverRefused
    OnlyARaceOutlivesThePassword
CHECK_DEADLOCK FALSE
