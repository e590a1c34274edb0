SPECIFICATION FairSpec
CONSTANTS
    Workers = {w1, w2, w3}
    Fetchers = {"mock"}
    Configs <- AllConfigs
    MaxQueries = 2
    MaxTargets = 2
    MaxSeries = 2
    Nil = Nil
INVARIANT TypeOK
INVARIANT PoolGoesOn
INVARIANT FetchIsOver
INVARIANT NothingLost
PROPERTY ReadAnswered
PROPERTY AllOrNothing
