\* One control client asks for every attribute: the reply goes out with
\* the tag its slot's buffer already held.
CONSTANTS
    Peers = {p1}
    ServerFd = ServerFd
    NoFd = NoFd
    Names = {key, a1}
    NoName = NoName
    Key = key
    a1 = a1
    b1 = b1
    AttrLen <- MCAttrLen
    ValueMax = 2
    MaxAttrs = 3
    MaxClients = 2
    Backlog = 2
    QCap = 1
    RCap = 1
    MaxReq = 1
    EnvFailSteps = {}
SPECIFICATION Spec
INVARIANT AllAttrTagged
