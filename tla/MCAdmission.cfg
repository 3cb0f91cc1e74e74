SPECIFICATION Spec
CHECK_DEADLOCK FALSE
CONSTANTS
    Attempt = {a1}
    Headers = 2
    FirstBlocks = 1
    MaxBlocks = 3
    MaxRetries = 2
    MaxLength = 3
    MayLose = TRUE
    MayExpire = TRUE
INVARIANTS TypeOK JoinedWasAdmitted  AnswerFits
PROPERTIES RegistrationEnds JoinedIsSynchronized
