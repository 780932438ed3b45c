SPECIFICATION Spec
CONSTANTS
    NumPorts = 2
    Users = {admin, u1}
    Groups = {root}
    Admin = admin
    DefaultGroup = root
    Fds = {1, 2}
    None = none
    Typed = typed
    Listener = listener
    Kinds = {"user_leave", "set_baud_rate"}
    MaxMessages = 1
    MaxConns = 3
    MaxChunks = 2
CHECK_DEADLOCK FALSE
INVARIANTS
    TypeOK
    DescriptorsFit
    SessionsOnOpenPorts
    SessionsSeeAllData
    EventsStayValid
    ClientsAreServed
