CONSTANTS
    Accounts = {alice, owner}
    Owner = owner
    Fees <- HalfFee
    InitialStake = 2
    GuaranteeFund = 3
    NumEpochsToUnlock = 4
    Amounts = {2}
    Rewards = {0}
    Thresholds = {0}
    MaxEpoch = 1
    MaxBalance = 9
    MaxRoundings = 4
    MaxReceipts = 2
SPECIFICATION Spec
INVARIANT AccountSharesWithinTotal
CHECK_DEADLOCK FALSE
