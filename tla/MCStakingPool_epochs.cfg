CONSTANTS
    Accounts = {alice, owner}
    Owner = owner
    Fees <- AnyFee
    InitialStake = 2
    GuaranteeFund = 3
    NumEpochsToUnlock = 4
    Amounts = {2}
    Rewards = {0, 2}
    Thresholds = {0, 4}
    MaxEpoch = 5
    MaxBalance = 9
    MaxRoundings = 2
    MaxReceipts = 2
SPECIFICATION Spec
INVARIANTS TypeOK RecordedBalanceIsHeld GuaranteeFundCoversRounding WithdrawableIsLiquid SettledStake
PROPERTY PriceNeverDecreases
CHECK_DEADLOCK FALSE
