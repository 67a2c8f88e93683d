SPECIFICATION Spec
CONSTANTS
    Ticket = {t1}
    Technician = {k1}
    Phone = {p1, p2}
    ApptId = {a1}
    Slot = {1}
    ClosedSlot = {}
    TagChoice = {}
    MaxLinks = 2
    MaxRounds = 2
    RoundNumber = {0, 1, 2, 3}
    KindInUse = {"emergency"}
    StatusUpdate = {"en_route"}
    AfterDispatch <- AllAssigned
    Live <- PaymentTools
    NoTicket = NoTicket
    NoTech = NoTech
    NoPhone = NoPhone
    NoSlot = NoSlot
INVARIANT PaidIsCaptured
INVARIANT EmergencyWasPaidFor
 
PROPERTY DepositLockedAfterConfirmation
CHECK_DEADLOCK FALSE
