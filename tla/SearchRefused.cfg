SPECIFICATION Spec
CONSTANTS
    NGens = 2
    PerGen = 1
    NSeeds = 1
    MaxRounds = 2
    MaxCalls = 2
    OldRuns <- FirstRun
    MaxVersions = 2
    MaxLaunches = 1
PROPERTY RefusedIsRetrained
CHECK_DEADLOCK FALSE
