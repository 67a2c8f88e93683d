SPECIFICATION FairSpec
CONSTANTS
    Msg = {m1, m2, m3}
    Phone = {p1, p2, p3}
    Session = {s1}
    SessionPhone <- ThreeLines
    Texts = {p2}
    Calls = {p3}
    MayFail = {s1, p2}
    MaxCrashes = 1
    NoMsg = NoMsg
    NoLine = NoLine
    s1 = s1
    p1 = p1
    p2 = p2
    p3 = p3
 
 
INVARIANT TextsHeardInOrder
PROPERTY EveryTextIsHeard
PROPERTY NobodyPollsForever
CHECK_DEADLOCK FALSE
