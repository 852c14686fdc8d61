CONSTANTS
    a = a
    b = b
    c = c
    Candidates = {a, b, c}
    InitialMemberLists <- ThreeMembers
    InitialConfirmations = {2}
    InitialLimit = 2
    Cooldown = 0
    Requests <- MemberRequests
    MaxNonce = 3
    MaxTime = 1
SPECIFICATION Spec
INVARIANTS CountsOpenRequests RequestsBelongToMembers
PROPERTY RequestsEndProperly
CHECK_DEADLOCK FALSE
