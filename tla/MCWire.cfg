SPECIFICATION Spec
CONSTANTS
    Environments <- MCEnvironments
    Cap = 6
    MaxFrames = 4
    MaxSleeps = 3
INVARIANTS
    TypeOK
    HeaderAccepted
    EventsArriveWhole
    BackoffFits
