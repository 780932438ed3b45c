SPECIFICATION Spec
CONSTANTS
    NumHandlers = 2
    Ports = {1}
    Users = {admin, u1}
    Groups = {root, g1}
    Admin = admin
    DefaultGroup = root
    Fds = {1}
    None = none
    RoleChoices = {"console_user", "", "other"}
    Kinds = {"create_group", "add_user", "user_join", "user_leave", "modify_role", "modify_group"}
    MayStop = {}
    MaxRequests = 4
    MaxConns = 2
CHECK_DEADLOCK FALSE
PROPERTIES
    RoleChangesFollowConfig
