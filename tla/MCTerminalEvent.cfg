SPECIFICATION EventSpec
CONSTANTS
    p1 = p1
    p2 = p2
    r1 = r1
    e1 = e1
    Resource = {r1}
    Event = {e1}
    Proc = {p1, p2}
    Slot = {1}
    AllocId = {11}
    Window <- MCWindow
    MaxQuantity = 2
    ResourceInput <- OneUnit
    InputStatus = {}
    FreedStatus = {}
    Editable = {}
    EventRequest <- OneRequest
    NextStatus = {"Completed"}
    NoEvent = "none"
    NoSlot = 0
INVARIANT TerminalEventReleases
CHECK_DEADLOCK FALSE
