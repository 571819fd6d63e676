\* The default: the horizon is MaxAge.
CONSTANTS
    c1 = c1
    h1 = h1
    h2 = h2
    Clients = {c1}
    Handlers = {h1, h2}
    NoTicket = NoTicket
    Second = 2
    MaxAge = 2
    Horizon = 2
    MaxClients = 1
    MaxDelay = 0
    MaxTime = 6
    MaxTickets = 4
SPECIFICATION Spec
SYMMETRY Symmetry
CHECK_DEADLOCK FALSE
INVARIANTS
    SingleUse
