CONSTANTS
    root = root
    next = next
    stray = stray
    Absent = Absent
    Torn = Torn
    Odd = Odd
    p1 = p1
    p2 = p2
    License <- MCLicense
    Kid = {"root", "next"}
    Key = {root, next, stray}
    RootKid = "root"
    RootKey = root
    Envs <- MCEnvs
    KeySetups <- MCKeySetups
    Starts <- MCStarts
    Proc = {p1, p2}
    MaxTicks = 1
    MaxCalls = 2
    MaxChanges = 1
SYMMETRY Processes
SPECIFICATION Spec
INVARIANTS
    TypeOK
    StatusFindsFirst
    ValidUntilTheDay
    ParsedAsCounted
    InstalledIsAuthentic
    InstallIsFound
PROPERTIES
    NeverBack
CHECK_DEADLOCK FALSE
