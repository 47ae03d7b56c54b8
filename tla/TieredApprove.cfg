SPECIFICATION Spec
CONSTANTS
    LLMArms = {}
    FamilyArms = {r}
    H2Arms = {}
    Rewards = {w1, w2}
    Unhashed = {}
    Canary = TRUE
    NBlocks = 1
    HoldAtGate = TRUE
    ApproveFlag = TRUE
    MaxDrift = 0
    MaxGrants = 1
    MaxLaunches = 2
PROPERTY ApprovedRerunPasses
CHECK_DEADLOCK FALSE
