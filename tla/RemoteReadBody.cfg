SPECIFICATION Spec
CONSTANTS
    Workers = {w1, w2, w3}
    Fetchers = {"utils"}
    Configs <- AllConfigs
    MaxQueries = 2
    MaxTargets = 2
    MaxSeries = 2
    Nil = Nil
INVARIANT NothingLost
