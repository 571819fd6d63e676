\* A fair sender, two goroutines in Close, a far end that may stop reading.
CONSTANTS
    w1 = w1
    w2 = w2
    c1 = c1
    c2 = c2
    Writers = {w1, w2}
    Closers = {c1, c2}
    NoThread = NoThread
    Sizes = {1, 2}
    Takes = {1}
    Faults = {"reset"}
    SocketCap = 1
    MaxCalls = 1
    MaxBytes = 3
SPECIFICATION FairSpec
INVARIANTS
    OneAlert
PROPERTIES
    EventuallyDelivered
