SPECIFICATION PurchaseSpec
CONSTANTS
    p1 = p1
    p2 = p2
    i1 = i1
    a = a
    b = b
    o1 = o1
    l1 = l1
    l2 = l2
    l3 = l3
    Item = {i1}
    Location = {a, b}
    Proc = {p1, p2}
    InitialStock <- OneUnitAtA
    MaxQuantity = 1
    MaxMovements = 2
    Order = {o1}
    Line = {l1, l2, l3}
    LineList <- OneOrTwoLines
    ReceiptLines <- Deliveries
    NoOrder = "none"
    NoItem = NoItem
SYMMETRY Symmetry
INVARIANTS
    PurchaseTypeOK
    StockNeverNegative
    LevelIsSumOfMovements
    ReceivedIsReceipted
    FullyReceivedIsReceived
PROPERTIES
    ReceiptsKeepTheirOrder
