SPECIFICATION Spec
CONSTANTS
    CallsMayFail = TRUE
    LateReports = TRUE
    ServerAnswers = FALSE
    MaxQueued = 6
INVARIANTS
    TypeOK
    MachineFollowsConnection
    LightOnly
    NothingOutlivesConnection
CHECK_DEADLOCK FALSE
