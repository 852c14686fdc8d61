CONSTANTS
    Users = {u1, u2}
    Names = {n1, n2}
    PoolFactoryId = pools
    LockupFactoryId = lockups
    MultisigFactoryId = multisigs
    AirdropId = airdrop
    Foundation = foundation
    Contracts <- AllContracts
    Deposits = {1, 2, 3}
    NoKey = NoKey
    MaxCalls = 3
    MinPoolBalance = 2
    MinLockupBalance = 2
    Fees <- AnyFee
    Keys = {k1}
    Allowance = 1
SYMMETRY Same
SPECIFICATION Spec
INVARIANTS ListedPoolsExist FactoriesKeepNoDeposit AirdropIsSolvent
PROPERTY OnlyClaimsTake
CHECK_DEADLOCK FALSE
