CONSTANTS
    NoPool = NoPool
    Pools = {p1}
    LockupAmount = 3
    MinBalance = 1
    LockupDuration = 0
    LockupTimestamp = 0
    ReleaseDuration = 0
    InitialVestings <- PublicVesting
    InitialTransfers <- OnlyEnabled
    ViewOutcomes = {FALSE}
    Amounts = {2}
    MaxTime = 1
    MaxPromises = 1
    MaxTokens = 3
SPECIFICATION Spec
INVARIANT BusyMeansInProgress
CHECK_DEADLOCK FALSE
