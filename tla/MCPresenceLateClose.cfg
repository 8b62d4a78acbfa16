SPECIFICATION Safety
CONSTANTS
    MaxConns = 2
    Reapers = {r1}
    PingEvery = 1
    PingSlack = 0
    PresenceTtl = 3
    Retention = 4
    r1 = r1
PROPERTY
    LateCloseSparesSuccessor
