\* A replay repeated under a budget that a request just fits, and layers of three sizes.
CONSTANT
    Setups <- MCSetups
SPECIFICATION Spec
CHECK_DEADLOCK FALSE
INVARIANTS
    BudgetKept
    RequestServed
    ReportsSound
PROPERTIES
    HottestStays
    Finishes
