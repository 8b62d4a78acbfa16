SPECIFICATION Spec
CONSTANTS
    Callers = {c1, c2, c3}
    Limit = 2
    Window = 3
    c1 = c1
    c2 = c2
    c3 = c3
INVARIANTS
    TypeOK
    SlidingBound
    WindowIsBounded
    RetryCovers
PROPERTY
    AdmittedAgain
