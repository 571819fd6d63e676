\* One call of Offer at a time; writes fail and the process dies at any point.
CONSTANTS
    Hellos <- ThreeGroups
    Rank <- RankOf
    MaxPool = 2
    o1 = o1
    Offerers = {o1}
    ConfigFile <- NoHellos
    ConfigInline <- MixedPool
    EmbeddedPool <- MixedPool
    AllowEmbedded = FALSE
    MaxCrashes = 1
SPECIFICATION FileSpec
\* When every hello is a known contribution nothing changes any more.
CHECK_DEADLOCK FALSE
INVARIANTS
    FileTypeOK
    FileIsWhole
    FileIsCurrent
    OneBuild
    MinorityWaits
PROPERTIES
    NeverShrinks
    NoSilentFallback
