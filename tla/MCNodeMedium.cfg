CONSTANTS
    r1 = r1
    r2 = r2
    a1 = a1
    a2 = a2
    NoRequest = NoRequest
    Request = {r1, r2}
    ActionKey = {a1, a2}
    MaxId = 2
    IdOf <- MCIdOf
    OwnerOf <- MCOwnerOf
    MaxResponses = 3
SPECIFICATION FairSpec
INVARIANTS
    TypeOK
    StoredResponseIsQueued
    NoDanglingRequest
    HandedInOrder

    
CHECK_DEADLOCK FALSE
