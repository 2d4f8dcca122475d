CONSTANTS
    d1 = d1
    d2 = d2
    json = json
    cbor = cbor
    Data = {d1, d2}
    Name = {json, cbor}
    Candidate <- MCCandidate
    Doc <- MCDoc
    Request <- MCRequest
    MaxChanges = 1
    Absent = Absent
    Torn = Torn
    None = None
    Line <- MCLine
    MaxLines = 2
    MaxKills = 1
SPECIFICATION Spec
INVARIANT OnlyAnswers
CHECK_DEADLOCK FALSE
