CONSTANTS
    Peers = {p1}
    ServerFd = ServerFd
    NoFd = NoFd
    Names = {key, a1}
    NoName = NoName
    Key = key
    a1 = a1
    b1 = b1
    ValueMax = 2
    MaxClients = 2
    Backlog = 2
    QCap = 1
    RCap = 1
    AttrLen <- MCAttrLenOversize
    MaxAttrs = 3
    MaxReq = 1
    EnvFailSteps = {"stat", "notdir", "socket", "bind", "listen"}
SPECIFICATION Spec
INVARIANT NoOversizeCopy
