SPECIFICATION Spec
CONSTANTS
    Users = {u1, u2, u3}
    Teams = {t1, t2}
    Fixtures = {f1}
    Scores = {s1, s2}
    Workers = {w1, w2}
    MCThird = u3
    MaxSquadSize = 2
    MaxTeams = 1
    Null = Null
CONSTRAINT MCOneStory
SYMMETRY MCSymmetry
INVARIANTS
    TeamCountIsEntries
    ArmbandIsTheCaptains
    SquadOverrunIsBounded
PROPERTIES
    AgreedResultsStand
CHECK_DEADLOCK FALSE
