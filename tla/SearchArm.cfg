SPECIFICATION FairSpec
CONSTANTS
    NGens = 3
    PerGen = 1
    NSeeds = 2
    MaxRounds = 1
    MaxCalls = 2
    OldRuns <- NoRuns
    MaxVersions = 2
    MaxLaunches = 2
ACTION_CONSTRAINT LittleOrder
INVARIANT EveryoneAccounted
INVARIANT SeedsAgree
PROPERTY PaidOnce
PROPERTY CondemnedStaysOut
PROPERTY ReflectsOnResults
PROPERTY PassEnds
CHECK_DEADLOCK FALSE
