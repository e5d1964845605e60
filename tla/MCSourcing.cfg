SPECIFICATION ApartSpec
CONSTANTS
    p1 = p1
    p2 = p2
    s1 = s1
    i1 = i1
    d1 = d1
    d2 = d2
    o1 = o1
    o2 = o2
    Proc = {p1, p2}
    Supplier = {s1}
    i2 = i2
    Item = {i1, i2}
    Offered = {1}
    Wanted = {1, 2}
    Ranked <- OneSolution
    Revision <- Revisions
    MaxSolutions = 2
    MaxVersion = 2
    Draft = {d1, d2}
    PurchaseOrder = {o1, o2}
    Handler = {p1, p2}
    Number = {1, 2}
    MaxReviews = 2
    NoDraft = "none"
    NoOrder = "none"
CONSTRAINT OneLineSent
SYMMETRY Symmetry
INVARIANTS
    SourcingTypeOK
    OneCurrentQuote
    ApprovalChain
    SubstitutionsApproved
    OrderedOnce
    DraftTypeOK
    CommittedAsReviewed
    OneOrderPerReview
CHECK_DEADLOCK FALSE
