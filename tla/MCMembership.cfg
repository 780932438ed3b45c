SPECIFICATION Spec
CONSTANTS
    NumHandlers = 2
    Ports = {1}
    Users = {admin, u1}
    Groups = {root, g1}
    Admin = admin
    DefaultGroup = root
    Fds = {1, 2}
    None = none
    RoleChoices = {"admin"}
    Kinds = {"add_user", "del_user", "user_join", "user_leave"}
    MayStop = {1}
    MaxRequests = 4
    MaxConns = 2
CHECK_DEADLOCK FALSE
INVARIANTS
    HandlerMembershipsKnown
    EqualProgressEqualAccounts
    DefaultAccountKept
