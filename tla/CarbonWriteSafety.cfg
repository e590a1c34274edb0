SPECIFICATION Spec
CONSTANTS
    Requests = {r1, r2}
    Conn = {c1, c2}
    NoCon = NoCon
    NoOne = NoOne
    MaxBuffers = 2
    MaxChunks = 2
    Configs <- AllConfigs
SYMMETRY Symmetry
INVARIANT TypeOK
INVARIANT NoCircularWait
INVARIANT NoLeak
INVARIANT WireIntegrity
INVARIANT SentIsDelivered
INVARIANT FailedIsNotTaken
INVARIANT Accounted
PROPERTY ServesThenRetires
