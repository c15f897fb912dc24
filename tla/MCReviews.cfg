SPECIFICATION Spec
CONSTANTS
    Players = {p1, p2}
    Owner = owner
    Ids = {i1, i2}
    Ratings = {0, 1, 5}
    Workers = {w1, w2}
    Null = Null
INVARIANTS
    RatingAveragesEveryReview
CHECK_DEADLOCK FALSE
