SPECIFICATION FairSpec
CONSTANTS
    NumHandlers = 2
    Ports = {1}
    Users = {admin, u1}
    Groups = {root, g1}
    Admin = admin
    DefaultGroup = root
    Fds = {1, 2}
    None = none
    RoleChoices = {"admin"}
    Kinds = {"create_group", "destroy_group", "add_user", "del_user", "port_join", "port_leave", "set_baud_rate"}
    MayStop = {1}
    MaxRequests = 4
    MaxConns = 2
CHECK_DEADLOCK FALSE
INVARIANTS
    HandlerGroupsCoverConfig
PROPERTIES
    OpFrozenByDeadHandler
    HandlersConverge
