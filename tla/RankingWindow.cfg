SPECIFICATION Spec
CONSTANTS
    Sale = {"s1", "s2"}
    Product = {"p"}
    ProductOf <- MCProductOf
    Quantity <- MCQuantity
    Process = {"i1"}
    LastSale = 1
    LastDay = 5
INVARIANT OverallIsWindow
CHECK_DEADLOCK FALSE
