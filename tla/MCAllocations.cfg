SPECIFICATION FairSpec
CONSTANTS
    p1 = p1
    p2 = p2
    r1 = r1
    r2 = r2
    e1 = e1
    Resource = {r1, r2}
    Event = {e1}
    Proc = {p1, p2}
    Slot = {1, 2}
    AllocId = {11, 12}
    Window <- MCOneWindow
    MaxQuantity = 2
    ResourceInput <- OneUnit
    InputStatus = {}
    FreedStatus = {}
    Editable = {}
    EventRequest <- CrossedRequests
    NoEvent = "none"
    NoSlot = 0
INVARIANTS
    AllocationsAccounted
PROPERTIES
    EveryTransactionEnds
    SettlingFreesCapacity
