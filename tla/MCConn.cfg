\* Two writers, one closer, every socket fault.
CONSTANTS
    w1 = w1
    w2 = w2
    c1 = c1
    Writers = {w1, w2}
    Closers = {c1}
    NoThread = NoThread
    Sizes = {0, 1, 2}
    Takes = {0, 1, 3}
    Faults = {"none", "part", "reset"}
    SocketCap = 2
    MaxCalls = 2
    MaxBytes = 3
SPECIFICATION Spec
SYMMETRY Symmetry
INVARIANTS
    TypeOK
    NonceNeverReused
    WireInSequence
    DeliveredInOrder
    NothingStranded
    NoDataAfterFailure
    CleanCloseIsComplete
PROPERTIES
    ImplementsByteStream
