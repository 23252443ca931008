\* Two grants are as many as two polls of one row each can take.
CONSTANTS
    Limit = 1
    TaskLease = 2
    SweepEvery = 1
    MaxCycle = 2
SPECIFICATION FairSpec
PROPERTY MeasurementsLand
