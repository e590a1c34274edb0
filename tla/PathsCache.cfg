SPECIFICATION FairSpec
CONSTANTS
    m1 = m1
    m2 = m2
    m3 = m3
    p1 = p1
    p2 = p2
    t1 = t1
    t2 = t2
    NoTemplate = NoTemplate
    None = None
    Requests = {r1, r2}
    Metrics <- MCMetrics
    Keys <- MCMetrics
    FastFingerprint <- Colliding
    Prefixes <- MCPrefixes
    Templates <- MCTemplates
    Configs <- AllConfigs
    MaxReloads = 1
INVARIANT TypeOK
INVARIANT CacheIsCurrent
INVARIANT AnswersFollowTheRules
PROPERTY StaleFades
\* With no client and no reload left there is nothing to do.
CHECK_DEADLOCK FALSE
