CONSTANTS
    AccountIds = {alice, bob}
    PoolOwners = {"short", "longer"}
    NoPool = "none"
    Legacy = {bob}
    AccountBytes = 2
    ShareBytes <- IdBytes
    PoolBytes = 1
    ByteCost = 2
    MinStorageBytes = 4
    MinPoolBalance = 12
    Deposits = {0, 5, 12}
    MaxBytesChoices = {3, 4, 9}
    Writes <- SomeWrites
    MaxTokens = 8
    MaxPoolTokens = 24
SPECIFICATION Spec
INVARIANTS PoolsCoverShares AccountsAreCovered UsedBytesAreStored PoolsCountTheirAccounts
CHECK_DEADLOCK FALSE
