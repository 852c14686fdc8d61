CONSTANTS
    Accounts = {a, b, c}
    Supplies = {2}
    Amounts = {0, 1, 2}
    MaxBalance = 2
SPECIFICATION Spec
INVARIANTS SupplyIsConserved LockedFitsAllowance
PROPERTIES ImplementsEscrow
CHECK_DEADLOCK FALSE
SYMMETRY AccountSymmetry
