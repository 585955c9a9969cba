SPECIFICATION EditSpec
CONSTANTS
    Txns = {t1, t2}
    Users = {u1, u2}
    Places = {p1}
    Ratings = {3, 4}
    MaxReviews = 2
    None = None
INVARIANT RatingMatchesReviews
