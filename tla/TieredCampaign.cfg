SPECIFICATION Spec
CONSTANTS
    LLMArms = {d}
    FamilyArms = {r}
    H2Arms = {d}
    Rewards = {w1, w2}
    Unhashed = {}
    Canary = TRUE
    NBlocks = 2
    HoldAtGate = FALSE
    ApproveFlag = FALSE
    MaxDrift = 1
    MaxGrants = 1
    MaxLaunches = 3
SYMMETRY Symmetry
ACTION_CONSTRAINT WhereItMatters
INVARIANT CanaryGuardsSpend
INVARIANT PairIsWhole
INVARIANT OneApprovalOnePassage
INVARIANT SweepOverCompleteCore
 
INVARIANT PassMovesOn
 
PROPERTY OneWinner
CHECK_DEADLOCK FALSE
