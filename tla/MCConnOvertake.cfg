\* Close against a flush of several records.
CONSTANTS
    w1 = w1
    w2 = w2
    c1 = c1
    Writers = {w1, w2}
    Closers = {c1}
    NoThread = NoThread
    Sizes = {1, 2}
    Takes = {1, 3}
    Faults = {}
    SocketCap = 2
    MaxCalls = 2
    MaxBytes = 3
SPECIFICATION Spec
INVARIANTS
    FlushNotOvertaken
