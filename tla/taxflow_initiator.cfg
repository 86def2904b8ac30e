\* The retry of one user's run by another user.
SPECIFICATION HistorySpec
CONSTANTS
    Call = {c1, c2}
    User = {ann, bob}
    Key = {k1}
    Invoice = {i1}
    Pack = {p1}
    RunId = {r1}
    MaxTx = 1
    None = None
INVARIANT
    InitiatorNeverReviews
