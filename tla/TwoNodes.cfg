SPECIFICATION FairSystemSpec
CONSTANTS
    Samples = {819, 1639}
    LightThreshold = 1000
    SmokeThreshold = 500
    MaxQueued = 2
    LateReports = FALSE
    ClientQueued = 3
    MaxRestarts = 1
INVARIANTS
    Settled
    ServerSurvivesResets
    ClientSurvivesResets
    InFlightRightUnlessBarred
    ShownIsLastSent
    SmokeNeverLeaves
PROPERTIES
    Reconnects
    ReadingsArrive
