SPECIFICATION FairSpec
CONSTANTS
    Budget = 5
    Plans <- Arms
    Sides = {"driver", "node"}
    Handover = FALSE
    PerJob = 2
    MaxFails = 3
    MaxDeaths = 2
 
PROPERTY ScoresTheProposal
PROPERTY Completes
CHECK_DEADLOCK FALSE
