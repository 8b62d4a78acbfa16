SPECIFICATION OpenSafety
CONSTANTS
    NoRequest = NoRequest
    Fetchers = {r1, r2}
    r1 = r1
    r2 = r2
    Limits = {1}
    PageSize = 1
    InboxMaxLen = 2
    MaxMsgs = 2
    MaxFaults = 1
SYMMETRY RequestSymmetry
VIEW StillMatters
INVARIANTS
    OpenTypeOK
    HandedIsKept
    DoubledOnlyIf
    HeldGoesFirst
    TriggersHonoured
