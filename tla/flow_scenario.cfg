SPECIFICATION Spec
CONSTANTS
    Node <- Steps
    Entry = "identify"
    Flow <- ShortFlow
    Tool <- Tools
    NoNode = NoNode
    MaxNodes = 2
    MaxCalls = 2
    MaxBatch = 2
    MaxJobs = 2
    MaxFollowups = 2
    Delay = {1}
    NoOutcome = NoOutcome
    Unnamed = Unnamed
    MayRefuse = {"calendar_create_appointment"}
    Hours = {1, 2}
    AskAgain = 2
    MaxNow = 3
 
INVARIANT StatusFollowsThePath
 
INVARIANT NobodyIsForgotten
PROPERTY JobsWalkTheGraph
CHECK_DEADLOCK FALSE
