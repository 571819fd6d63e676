\* An old and a new build, server names of one length.
CONSTANTS
    Hellos <- TwoBuilds
    Rank <- RankOf
    MaxPool = 2
SPECIFICATION FairSpec
\* When every hello is a known contribution nothing changes any more.
CHECK_DEADLOCK FALSE
PROPERTIES
    UpdateTakesOver
