SPECIFICATION ExecutionSpec
CONSTANTS
    p1 = p1
    p2 = p2
    r1 = r1
    e1 = e1
    Resource = {r1}
    Event = {e1}
    Proc = {p1, p2}
    Slot = {1, 2}
    AllocId = {}
    Window <- MCWindow
    MaxQuantity = 1
    ResourceInput <- OneUnit
    InputStatus = {"CONFIRMED"}
    FreedStatus = {}
    Editable = {}
    EventRequest <- NoRequests
    ExecutionRequest <- OneUnitRequest
    NoEvent = "none"
    NoSlot = 0
INVARIANT NoOverbooking
