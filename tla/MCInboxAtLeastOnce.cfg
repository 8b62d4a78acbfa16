SPECIFICATION Spec
CONSTANTS
    Fetchers = {f1, f2}
    Limits = {1, 2}
    InboxMaxLen = 2
    MaxMsgs = 2
    f1 = f1
    f2 = f2
INVARIANT
    AtLeastOnce
