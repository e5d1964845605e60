SPECIFICATION FinanceSpec
CONSTANTS
    p1 = p1
    p2 = p2
    y1 = y1
    y2 = y2
    Handler = {p1, p2}
    BudgetType = {"Baseline"}
    MaxBudget = 0
    Invoice = {"inv"}
    Payment = {y1, y2}
    Total = {3}
    Amount = {2}
    MaxPaid = 6
SYMMETRY Symmetry
INVARIANT ClearedOnce
