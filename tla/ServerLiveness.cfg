SPECIFICATION FairSpec
CONSTANTS
    Samples <- Above
    LightThreshold = 1000
    SmokeThreshold = 500
    MaxQueued = 2
PROPERTIES
    SensorsSwitchedOff
    BothSensorsRead
    Readvertises
