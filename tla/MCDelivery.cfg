SPECIFICATION DeliverySpec
CONSTANTS
    Fetchers = {f1}
    Senders = {s1}
    Limits = {1}
    InboxMaxLen = 1
    MaxMsgs = 2
    CountLimit = 1
    MaxDrops = 1
    f1 = f1
    s1 = s1
INVARIANTS
    DeliveryTypeOK
    NoLostNudge
PROPERTIES
    ReconnectCovers
    EventuallyTold
