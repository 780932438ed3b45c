CONSTANTS
    PasswordPorts = 1
    NonePorts = 2
    NumWorkers = 2
    CleanDepth = 2
    PasswordSessions = 3
    NoneSessions = 2
SPECIFICATION FairSpec
CHECK_DEADLOCK FALSE
INVARIANTS
    OneOwner
    ClosedOnce
    ForgottenAreClosed
PROPERTIES
    VerifiedGetWorker
    ShutdownGetsClosed
    ClosedAreForgotten
