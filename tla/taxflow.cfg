\* Both databases; two calls, two users, one invoice, one key besides "no key".
SPECIFICATION Spec
CONSTANTS
    Call = {c1, c2}
    User = {ann, bob}
    Key = {k1}
    Invoice = {i1}
    Pack = {p1, p2}
    RunId = {r1, r2}
    MaxTx = 2
    None = None
SYMMETRY Interchangeable
INVARIANTS
    TypeOK
    OneEffectPerKey
    AnswerFitsRequest
    NoKeyConflict
    NoMissedDuplicate
PROPERTY
    DecisionStands
