SPECIFICATION Spec
CONSTANTS
    p1 = p1
    p2 = p2
    r1 = r1
    r2 = r2
    e1 = e1
    Resource = {r1}
    Event = {}
    Proc = {p1, p2}
    Slot = {1, 2, 3}
    AllocId = {}
    Window <- MCWindow
    MaxQuantity = 2
    ResourceInput <- Stocks
    InputStatus = {"CONFIRMED"}
    FreedStatus = {"CANCELLED"}
    Editable = {r1}
    EventRequest <- NoRequests
    NoEvent = "none"
    NoSlot = 0
CONSTRAINT Apart
SYMMETRY Symmetry
INVARIANTS
    NoOverbooking
PROPERTIES
    AdmissionWithinCapacity
