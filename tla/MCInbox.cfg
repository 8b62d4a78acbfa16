SPECIFICATION Spec
CONSTANTS
    Fetchers = {f1, f2}
    Limits = {1, 2}
    InboxMaxLen = 2
    MaxMsgs = 3
    f1 = f1
    f2 = f2
SYMMETRY FetcherSymmetry
INVARIANTS
    TypeOK
    NoSilentSkip
    NothingOvertakes
    RepeatsOnlyAfterOverlap
PROPERTY
    KeepsContract
