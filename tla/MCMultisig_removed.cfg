CONSTANTS
    a = a
    b = b
    c = c
    Candidates = {a, b, c}
    InitialMemberLists <- ThreeMembers
    InitialConfirmations = {2}
    InitialLimit = 2
    Cooldown = 0
    Requests <- RemovalRequests
    MaxNonce = 3
    MaxTime = 1
SPECIFICATION Spec
PROPERTY ExecutedByMembers
CHECK_DEADLOCK FALSE
