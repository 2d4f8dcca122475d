CONSTANTS
    k1 = k1
    k2 = k2
    a = a
    b = b
    None = None
    Garbled = Garbled
    Key = {k1, k2}
    Kid = {a, b}
    RetailRequest <- MCRetailRequest
    Gs1Request <- MCGs1Request
    EslRequest <- MCEslRequest
    Code <- MCCode
    Slip <- MCSlip
    Narrow = 4
    Wide = 8
    MaxTime = 3
    MaxLabels = 2
    MaxChanges = 1
SPECIFICATION Spec
INVARIANTS
    TypeOK
    ValidIsMade
    NotBeyondAsked
    UsableAsAsked
    MisreadFound
CHECK_DEADLOCK FALSE
