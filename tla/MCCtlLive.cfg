CONSTANTS
    Peers = {p1, p2}
    ServerFd = ServerFd
    NoFd = NoFd
    Names = {key, a1}
    NoName = NoName
    Key = key
    a1 = a1
    b1 = b1
    AttrLen <- MCAttrLen
    ValueMax = 2
    MaxAttrs = 2
    MaxClients = 1
    Backlog = 2
    QCap = 1
    RCap = 1
    MaxReq = 2
    EnvFailSteps = {}
SPECIFICATION FairSpec
INVARIANT StaleEntryHarmless
INVARIANT RegistrationConsistent
INVARIANT PoolMatchesConnections
INVARIANT ResponsesMatchRequests
INVARIANT NoKeyOnWire
INVARIANT DestroyReleasesAll
PROPERTY AcceptedRequestAnswered
PROPERTY QueuedConnectionAccepted
