SPECIFICATION Spec
CONSTANTS
    NumHandlers = 2
    Ports = {1}
    Users = {admin, u1}
    Groups = {root, g1}
    Admin = admin
    DefaultGroup = root
    Fds = {1}
    None = none
    RoleChoices = {"admin"}
    Kinds = {"create_group", "destroy_group"}
    MayStop = {}
    MaxRequests = 3
    MaxConns = 2
CHECK_DEADLOCK FALSE
INVARIANTS
    OwnRepliesOnly
