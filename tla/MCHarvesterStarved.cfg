\* An old and a new build, server names of two lengths.
CONSTANTS
    Hellos <- LongerNames
    Rank <- RankOf
    MaxPool = 2
SPECIFICATION FairSpec
\* When every hello is a known contribution nothing changes any more.
CHECK_DEADLOCK FALSE
PROPERTIES
    UpdateTakesOver
