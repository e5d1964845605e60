SPECIFICATION PlanningSpec
CONSTANTS
    p1 = p1
    p2 = p2
    Proc = {p1, p2}
    MaxVersion <- Versions
    MaxReports = 1
    MaxCode = 3
    MaxKey = 2
    Quantity = {1, 2}
    Look = {"a", "b"}
    SetInput <- Sets
    Overridden = {2}
    BoardInput <- Boards
    ReportInput <- Reports
    Reviewed = {1}
CONSTRAINT Apart
SYMMETRY Symmetry
INVARIANTS
    PlanningTypeOK
    DependenciesOneWay
    OverridesKept
    LockedObjectsKept
    ReviewsRecorded
PROPERTIES
    VersionsFormLogs
