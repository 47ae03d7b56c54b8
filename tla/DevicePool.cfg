SPECIFICATION FairSpec
CONSTANTS
    NCells = 4
    NGpu = 1
    NCpu = 1
    RecycleEvery = 3
    MaxKills = 1
    MaxErrors = 1
    MaxRelaunches = 1
INVARIANT DeviceLimit
INVARIANT LossIsBounded
INVARIANT WrittenIsDurable
PROPERTY Drains
CHECK_DEADLOCK FALSE
