\* Two overlapping calls of Offer share path.tmp.
CONSTANTS
    Hellos <- FewHellos
    Rank <- RankOf
    MaxPool = 2
    o1 = o1
    o2 = o2
    Offerers = {o1, o2}
    ConfigFile <- NoHellos
    ConfigInline <- MixedPool
    EmbeddedPool <- MixedPool
    AllowEmbedded = FALSE
    MaxCrashes = 0
SPECIFICATION FileSpec
\* When every hello is a known contribution nothing changes any more.
CHECK_DEADLOCK FALSE
INVARIANTS
    FileIsWhole
