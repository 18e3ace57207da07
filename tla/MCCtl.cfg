CONSTANTS
    Peers = {p1, p2, p3}
    ServerFd = ServerFd
    NoFd = NoFd
    Names = {key, a1, b1}
    NoName = NoName
    Key = key
    a1 = a1
    b1 = b1
    AttrLen <- MCAttrLen
    ValueMax = 2
    MaxAttrs = 3
    MaxClients = 2
    Backlog = 2
    QCap = 1
    RCap = 1
    MaxReq = 1
    EnvFailSteps = {"stat", "notdir", "socket", "bind", "listen"}
SYMMETRY PeerSymmetry
SPECIFICATION Spec
INVARIANT TypeOK
INVARIANT RegistrationConsistent
INVARIANT PoolMatchesConnections
INVARIANT ResponsesMatchRequests
INVARIANT NoKeyOnWire
INVARIANT DestroyReleasesAll
PROPERTY FailedCreateLeavesNoEntry
