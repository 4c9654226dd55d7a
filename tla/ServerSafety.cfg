SPECIFICATION Spec
CONSTANTS
    Samples <- BothSides
    LightThreshold = 1000
    SmokeThreshold = 500
    MaxQueued = 3
INVARIANTS
    TypeOK
    SubscriptionFollowsClient
    ConnectedFollowsLink
    IndicationsEndWithConnection
    BuzzerOnlyUntilSmokeConversion
PROPERTIES
    ImplementsCycle
