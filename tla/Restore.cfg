CONSTANTS
    a = a
    x = x
    q = q
    Name = {a, x, q}
    Executable = {x}
    Quarantine = q
    Payloads <- MCPayloads
    Priors <- MCPriors
    MaxCrashes = 1
    Dir = Dir
    Torn = Torn
    Old = Old
SPECIFICATION Spec
INVARIANTS
    TypeOK
    HeldInQuarantine
    CompleteWhenOk
    FailsOnlyOnClash
    LeavesNoTrace
PROPERTIES
    OnlyOwnPlacesChange
CHECK_DEADLOCK FALSE
