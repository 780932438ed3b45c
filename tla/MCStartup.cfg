SPECIFICATION FairSpec
CONSTANTS
    NumHandlers = 4
    Ports = {1, 2, 3, 4, 5}
    Users = {admin, u1}
    Groups = {root}
    Admin = admin
    DefaultGroup = root
    MaxEarly = 3
    Fds = {1}
    None = none
CHECK_DEADLOCK FALSE
INVARIANTS
    ServingMatchesServer
    RepliesAreAwaited
    PortsExistAtHandlers
PROPERTIES
    LostHandlerBlocks
    StartupCompletes
