SPECIFICATION FairSpec
CONSTANTS
    Scenario = {s1, s2}
    Repeat = 2
    MaxRounds = 2
    Regression = TRUE
    Backends = {"claude_cli", "openai"}
    Tampers = TRUE
    Parallel = TRUE
    MayRaise = TRUE
    NoScenario = NoScenario
INVARIANT ResultsDescribePrompts
INVARIANT KeptEditsBreakNothingSolid
PROPERTY LoopEnds
CHECK_DEADLOCK FALSE
