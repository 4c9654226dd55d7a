SPECIFICATION FairSpec
CONSTANTS
    CallsMayFail = FALSE
    LateReports = TRUE
    ServerAnswers = TRUE
    MaxQueued = 6
INVARIANTS
    NeverStranded
PROPERTIES
    DiscoveryCompletes
