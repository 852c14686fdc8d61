CONSTANTS
    NoPool = NoPool
    Pools = {p1, p2}
    LockupAmount = 3
    MinBalance = 1
    LockupDuration = 0
    LockupTimestamp = 2
    ReleaseDuration = 0
    InitialVestings <- TerminationVestings
    InitialTransfers <- BothTransfers
    ViewOutcomes = {TRUE, FALSE}
    Amounts = {2}
    MaxTime = 1
    MaxPromises = 2
    MaxTokens = 3
SPECIFICATION FairSpec
INVARIANTS OnePoolOperation OneTerminationTransaction
PROPERTIES ClaimIsFixed KnownDepositStaysKnown PoolOperationEnds TerminationTransferEnds
CHECK_DEADLOCK FALSE
