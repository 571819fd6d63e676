\* Two connections, three networks of which two share an address.
CONSTANTS
    c1 = c1
    c2 = c2
    n1 = n1
    n2 = n2
    n3 = n3
    e1 = e1
    e2 = e2
    Conns = {c1, c2}
    Nets = {n1, n2, n3}
    Egresses = {e1, e2}
    Local <- MCLocal
    Horizon = 2
    Max = 2
    MaxTime = 3
    MaxGen = 1
SPECIFICATION Spec
SYMMETRY Symmetry
INVARIANTS
    TypeOK
    NoOrphanResumption
    EntriesAreEarned
