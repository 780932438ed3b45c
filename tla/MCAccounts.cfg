SPECIFICATION Spec
CONSTANTS
    NumHandlers = 2
    Ports = {1}
    Users = {admin, u1}
    Groups = {root, g1}
    Admin = admin
    DefaultGroup = root
    Fds = {1, 2}
    None = none
    RoleChoices = {"admin"}
    Kinds = {"create_group", "destroy_group", "add_user", "del_user"}
    MayStop = {1}
    MaxRequests = 5
    MaxConns = 2
CHECK_DEADLOCK FALSE
INVARIANTS
    TypeOK
    HandlerAccountsAgree
    ReadyMeansServed
PROPERTIES
    ImplementsReplication
