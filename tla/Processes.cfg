SPECIFICATION ProcessesSpec
CONSTANTS
    Workers = {1, 2, 3}
    Keymgr = 3
    Timer = "yes"
    Children = "no"
    Policies = {"restart", "terminate"}
    MaxDeaths = 1
    MaxSignals = 1
    SocketPaths = {"s"}
    Abstract = {"@a"}
    Servers = {1, 2}
    Forked = {"w", "k"}
    Keymgrs = {"k"}
    MaxBinds = 3
    Modes = {"hosts", "routes", "python", "extras"}
    Names = {"a", "b"}
    Paths = {"/"}
    Methods = {"get", "head"}
    MaxServers = 1
    MaxDoms = 2
    MaxRoutes = 2
    Conns = {"c1"}
    Domains = {"p", "a"}
    Order <- MCOrder
    Primary = "p"
    Cafile = {"a"}
    Certs = {"k1"}
    NoCert = "none"
    MaxReloads = 1
    MaxOrders = 1
    Chunks = 2
    NULL = NULL
    MaxCalls = 5
    MaxLoads = 1
    Sites <- MCSites
    Requests <- MCRequests
    Arguments <- MCArguments
    Peers <- MCPeers
    Forms <- MCForms
INVARIANTS TypesOK NoneLeftBehind  ServersReady EntriesKept OrdersFollowed  FormParsed 
CHECK_DEADLOCK FALSE
