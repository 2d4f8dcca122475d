CONSTANTS
    d = d
    n1 = n1
    n2 = n2
    p1 = p1
    p2 = p2
    None = None
    Odd = Odd
    Data = {d}
    Name = {n1, n2}
    Passphrase = {p1, p2}
    Request <- MCRequest
    Chunks <- MCChunks
    MaxWritten = 2
    MaxEdits = 1
    MaxTime = 1
SPECIFICATION Spec
INVARIANT
    AcceptedOnlyTrusted
CHECK_DEADLOCK FALSE
