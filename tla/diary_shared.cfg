SPECIFICATION Spec
CONSTANTS
    Conv = {c1, c2}
    Tech = {1}
    DayLength = 4
    Days = 2
    Opens = 0
    Closes = 4
    ClosedDays = {1}
    Granularity = 1
    Duration = 2
    Limit = 1
    MaxClock = 1
    MaxNumber = 2
    MaxRestarts = 1
SYMMETRY AnyConversation
 
 
INVARIANT SoldTwiceOnlyUnseen
CHECK_DEADLOCK FALSE
