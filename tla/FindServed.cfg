SPECIFICATION Spec
CONSTANTS
    NumHandlers = 2
    Ports = {1}
    Users = {admin, u1}
    Groups = {root, g1}
    Admin = admin
    DefaultGroup = root
    Fds = {1}
    None = none
    RoleChoices = {"admin"}
    Kinds = {"create_group"}
    MayStop = {}
    MaxRequests = 2
    MaxConns = 1
CHECK_DEADLOCK FALSE
INVARIANTS
    ServedGroupReachesOp
