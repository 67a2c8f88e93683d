SPECIFICATION Spec
CONSTANTS
    Conv = {c1, c2}
    Tech = {1, 2}
    DayLength = 4
    Days = 2
    Opens = 0
    Closes = 4
    ClosedDays = {}
    Granularity = 1
    Duration = 2
    Limit = 2
    MaxClock = 1
    MaxNumber = 2
    MaxRestarts = 1
SYMMETRY AnyConversation
PROPERTY NoTimeIsSoldTwice
CHECK_DEADLOCK FALSE
