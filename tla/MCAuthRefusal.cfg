SPECIFICATION Safety
CONSTANTS
    Grants = {g1, g2}
    Requests = {q1}
    Stream = stream
    CacheTtl = 2
    Latency = 1
    PingEvery = 1
    PingSlack = 1
INVARIANT
    RefusalNotServed
