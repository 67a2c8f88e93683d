SPECIFICATION RecordsSpec
CONSTANTS
    Conv = {c1, c2}
    Field = {"name", "address", "email"}
    Required = {"address"}
    Email = "email"
    NoRecord = NoRecord
    MaxRestarts = 1
SYMMETRY AnyConversation
INVARIANT CopiesAgree
PROPERTY KnownIsBlankedOnlyInFlight
