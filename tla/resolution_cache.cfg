SPECIFICATION RCSpec
SYMMETRY Symmetry
CONSTANTS
    t1 = t1
    t2 = t2
    i1 = i1
    i2 = i2
    Workers = {t1, t2}
    Issues = {i1, i2}
    Kinds <- KindsOf
    FirstComments <- Started
    PageSize = 2
    Limit = 2
    StaleCount = 2
    TTL = 2
    Max = 1
    MaxFetch = 1
    MaxPosted = 1
    MaxTime = 3
CHECK_DEADLOCK FALSE
INVARIANT MaintainerHeard
PROPERTY AnswersRecent
