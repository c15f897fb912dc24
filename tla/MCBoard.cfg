SPECIFICATION FairSpec
CONSTANTS
    Author = author
    Players = {p1, p2}
    Workers = {w1, w2, w3}
    MaxNeededPlayers = 2
    MaxNow = 2
    Null = Null
INVARIANTS
    FilledCountsTheAccepted
    CheckIsOnlyABackstop
    OnlyDeletionsDeadlock
    FullGamesAreClosed
PROPERTIES
    PlayedAsPromised
    StartedCallsAreClosed
CHECK_DEADLOCK FALSE
