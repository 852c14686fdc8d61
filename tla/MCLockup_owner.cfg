CONSTANTS
    NoPool = NoPool
    Pools = {p1}
    LockupAmount = 3
    MinBalance = 1
    LockupDuration = 0
    LockupTimestamp = 1
    ReleaseDuration = 2
    InitialVestings <- OwnerVestings
    InitialTransfers <- BothTransfers
    ViewOutcomes = {TRUE, FALSE}
    Amounts = {2}
    MaxTime = 3
    MaxPromises = 1
    MaxTokens = 4
SPECIFICATION Spec
INVARIANTS TypeOK LockedFundsAreKept LockedCoversUnvested FullKeyOnlyWhenFree
PROPERTIES LockedNeverGrows
CHECK_DEADLOCK FALSE
