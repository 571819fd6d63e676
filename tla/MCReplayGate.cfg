\* Two clients in a cache that holds one, so that the memory backstop runs; the
\* horizon outlasts MaxAge plus the delay.
CONSTANTS
    c1 = c1
    c2 = c2
    h1 = h1
    h2 = h2
    Clients = {c1, c2}
    Handlers = {h1, h2}
    NoTicket = NoTicket
    Second = 2
    MaxAge = 2
    Horizon = 4
    MaxClients = 1
    MaxDelay = 1
    MaxTime = 7
    MaxTickets = 4
SPECIFICATION Spec
SYMMETRY Symmetry
\* The clock stops at MaxTime.
CHECK_DEADLOCK FALSE
INVARIANTS
    TypeOK
    CacheBounded
    SingleUse
    RefusedOnlyWhenSuperseded
