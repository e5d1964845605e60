SPECIFICATION ApartSpec
CONSTANTS
    p1 = p1
    p2 = p2
    a1 = a1
    i1 = i1
    x = x
    z = z
    y1 = y1
    y2 = y2
    Proc = {p1, p2}
    Handler = {p1, p2}
    Award = {a1}
    Incident = {i1}
    Control = {"CloseItem"}
    MaxCloseout = 2
    MaxPlan = 1
    Instance = {x, z}
    NoInstance = NoInstance
    Stock = 3
    Wanted <- MCWanted
    MaxReservations = 2
    BudgetType = {"Baseline"}
    MaxBudget = 3
    Invoice = {"inv"}
    Payment = {y1, y2}
    Total = {3}
    Amount = {2}
    MaxPaid = 6
CONSTRAINT Apart
SYMMETRY Symmetry
INVARIANTS
    LifecycleTypeOK
    SynchronizedOnce
    SynchronizedWhole
    AssetTypeOK
    CheckedReservationsFit
    DisposedStaysOut
    FinanceTypeOK
    OneEffectiveBudget
    PaidIsCleared
