SPECIFICATION FairSpec
CONSTANTS
    NumPorts = 2
    Users = {admin}
    Groups = {root}
    Admin = admin
    DefaultGroup = root
    Fds = {1, 2}
    None = none
    Typed = typed
    Listener = listener
    Kinds = {"user_leave", "set_baud_rate"}
    MaxMessages = 1
    MaxConns = 2
    MaxChunks = 1
CHECK_DEADLOCK FALSE
PROPERTIES
    RequestsAreRead
    ClosedSessionsGo
    FirstPortIsRead
