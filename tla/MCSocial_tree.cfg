CONSTANTS
    EmptyKey = ""
    Keys <- OrderedKeys
    KeyOrder <- Order
    AccountIds = {"alice"}
    Callers = {"alice", "bob"}
    PublicKeys = {"key"}
    Data <- SomeDataOf
    GrantPaths <- SomePathsOf
    GetQueries <- SomeGets
    KeysQueries <- SomeKeys
    PoolOwners = {}
    NoPool = "none"
    Legacy = {}
    AccountBytes = 1
    ShareBytes <- NoShareBytes
    PoolBytes = 0
    ByteCost = 1
    MinStorageBytes = 0
    MinPoolBalance = 0
    Deposits = {0, 1, 6}
    MaxBytesChoices = {}
    Writes <- SomeWrites
    MaxTokens = 7
    MaxPoolTokens = 0
    ValueBytes = 2
    DeletedBytes = 1
    NodeBytes = 1
    MaxNodes = 4
    MaxHeight = 1
SPECIFICATION SocialSpec
INVARIANTS NodesFormATree GrantsAreEnforced WritesAreExact HeightsCoverSubtrees QueriesReturnMatches OnlyGrantedNodesChange
PROPERTIES ImplementsStorage
CHECK_DEADLOCK FALSE
