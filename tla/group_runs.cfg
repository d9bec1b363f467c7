\* Every set of slots below 8, gaps from 0 to 5.
CONSTANTS
    MaxSlot = 7
    MaxFetch = 5
    Inputs <- MCInputs
    Costs <- MCCosts
    Limits <- MCLimits
SPECIFICATION Spec
CHECK_DEADLOCK FALSE
INVARIANTS
    Grouped
    Cheapest
    SplitExact
