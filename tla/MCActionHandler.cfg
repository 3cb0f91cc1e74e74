SPECIFICATION FairSpec
CONSTANTS
    p = p  c = c  q = q
    r1 = r1  r2 = r2  n1 = n1
    Action = {p, c, q}
    Request = {r1, r2}
    Periodic = {p}
    Node = {n1}
    OwnerOf <- MCOwnerOf
    KindOf <- MCKindOf
    ChildOf <- MCChildOf
INVARIANTS
    TypeOK
    NoDanglingRequest
    NoDanglingAction
    NoLostAction
PROPERTIES
    ExitIsTaken
    AnswerIsDelivered
    PeriodicRunsAgain
