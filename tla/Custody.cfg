CONSTANTS
    k1 = k1
    k2 = k2
    s = s
    r = r
    i1 = i1
    i2 = i2
    h1 = h1
    h2 = h2
    t1 = t1
    t2 = t2
    Key = {k1, k2}
    Agent = {s, r}
    Id = {i1, i2}
    Hash = {h1, h2}
    Terms = {t1, t2}
    Limit = {}
    Infinite = Infinite
    None = None
    Absent = Absent
    Torn = Torn
    Request <- MCRequest
    MaxCalls = 3
    MaxChanges = 1
SPECIFICATION Spec
INVARIANTS
    TypeOK
    HandoffIsBilateral
    ReceiptForThisManifest
    HonestHandoffVerifies
CHECK_DEADLOCK FALSE
