SPECIFICATION Spec
CONSTANTS
    a1 = a1  a2 = a2  b1 = b1
    a = a  b = b
    p1 = p1  p2 = p2
    Rows = {a1, a2, b1}
    ScopeOf <- Warehouse
    Prices = {1, 4}
    MaxQty = 2
    NoCost = NoCost
    Posters = {p1, p2}
    Switchers = {u1}
    Reversible = {"SALES_RELEASE"}
    SwitchUnderWay = FALSE
    MaxMovements = 4
SYMMETRY CostingSymmetry
CHECK_DEADLOCK FALSE
INVARIANTS
    
    
    TransferKeepsCost
    
