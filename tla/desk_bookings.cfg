SPECIFICATION Spec
CONSTANTS
    Ticket = {t1}
    Technician = {k1}
    Phone = {}
    ApptId = {a1, a2}
    Slot = {1, 2}
    ClosedSlot = {2}
    TagChoice <- ApartmentOnly
    MaxLinks = 0
    MaxRounds = 2
    RoundNumber = {}
    KindInUse = {"standard", "large_project"}
    StatusUpdate = {}
    AfterDispatch <- AllAssigned
    Live <- CalendarTools
    NoTicket = NoTicket
    NoTech = NoTech
    NoPhone = NoPhone
    NoSlot = NoSlot
SYMMETRY Bookings
 
INVARIANT PromisesAreInDiary
CHECK_DEADLOCK FALSE
