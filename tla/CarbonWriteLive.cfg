SPECIFICATION FairSpec
CONSTANTS
    Requests = {r1, r2}
    Conn = {c1, c2}
    NoCon = NoCon
    NoOne = NoOne
    MaxBuffers = 1
    MaxChunks = 1
    Configs <- StreamOnly
PROPERTY Answered
PROPERTY ReloadCompletes
