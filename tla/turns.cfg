SPECIFICATION FairSpec
CONSTANTS
    Agent = {intake, small, large}
    intake = intake
    small = small
    large = large
    Entry = intake
    Enabled = {intake, small}
    Pinned = FALSE
    Tools <- Allowed
    HandoffTo <- Targets
    MaxToolCalls = 2
    MaxHandoffs = 1
    MaxBatch = 2
    MaxRounds = 2
    FollowUp = {f1, f2}
    Delay = {1}
    MaxTurns = 3
    MaxWrapUp = 2
    MaxFirings = 2
    MaxTime = 2
    NoAgent = NoAgent
    NoFollowUp = NoFollowUp
INVARIANT SignalsObeyed
INVARIANT TurnIsAffordable
INVARIANT TransfersWithinLimit
INVARIANT FinishedMeansNothingDue
PROPERTY EveryMessageAnswered
PROPERTY EveryRigRunEnds
