\* One egress of a cover with two remainder records, probed twice, and one client
\* after the other with every pool, shape, profile and credential.
CONSTANTS
    Hosts <- HostNames
    Lower <- LowerOf
    DNSNames <- DNSNameSet
    EgressHosts <- EgressHostSet
    ProbeHosts <- ProbeHostSet
    Openings <- FullOpenings
    Resumptions <- ResumedOpenings
    Early <- EarlyRecords
    Responses = {300}
    Samples = 2
    MaxExtra = 1
    MaxProbes = 2
    Grease = {"g1", "g2"}
    Captures <- CapturedPools
    ClientHosts <- ClientHostSet
    OtherFull <- OtherRemainder
    OtherTicketLen = 32
SPECIFICATION OpeningSpec
INVARIANTS
    ProbeTypeOK
    ProfileStaysValid
    UsableSurvives
    EmittedIsOurs
    SpentIsAnswered
    LooksLikeChrome
    KeySurvivesEmitter
    NothingTapped
PROPERTIES
    AdoptsMeasured
