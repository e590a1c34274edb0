SPECIFICATION SettingsSpec
CONSTANTS
    Requests = {q1}
    Posts = {p1}
    NoPost = NoPost
    MaxEdition = 3
    MaxSignals = 2
    unset = unset
    ours = ours
    theirs = theirs
    standard = standard
    Names <- MCNames
    Addresses = {"address"}
    PutBack = {"delay", "timeout"}
    Values <- MCValues
    Empty = unset
    Default <- MCDefault
    Files <- ChartFiles
    Broken = Broken
    CommandLines <- NoFlags
INVARIANT FileInForce
