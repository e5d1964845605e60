SPECIFICATION EventSpec
CONSTANTS
    p1 = p1
    p2 = p2
    r1 = r1
    e1 = e1
    Resource = {r1}
    Event = {e1}
    Proc = {p1, p2}
    Slot = {1}
    AllocId = {11, 12}
    Window <- MCWindow
    MaxQuantity = 2
    ResourceInput <- OneUnit
    InputStatus = {}
    FreedStatus = {"CANCELLED"}
    Editable = {}
    EventRequest <- PartialRequest
    NextStatus = {"Completed"}
    NoEvent = "none"
    NoSlot = 0
SYMMETRY Symmetry
INVARIANTS
    EventTypeOK
    SuccessfulTransitionReleases
    AllocationsHaveEvent
PROPERTIES
    AllocationSettledOnce
    BooksAtomically
CHECK_DEADLOCK FALSE
