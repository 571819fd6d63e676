\* Three openings in a row, any of them cut or altered; the egress may have no full
\* profile, a shorter, the same or a longer one.
CONSTANTS
    Resumed = 1
    ClientFull = 2
    ServerFulls = {0, 1, 2, 3}
    MaxDials = 3
    MaxAlter = 2
    MaxApp = 1
SPECIFICATION FairSpec
\* Openings stop at MaxDials.
CHECK_DEADLOCK FALSE
INVARIANTS
    TypeOK
    CompletionAgrees
    AlteredNeverCompletes
    StreamsAligned
PROPERTIES
    OpeningEnds
    CleanOpeningsComplete
