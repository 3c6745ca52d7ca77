SPECIFICATION FairSpec
CONSTANTS
    NClusters = 2
    MaxPatterns = 2
    MaxVerifies = 1
    MaxCrashes = 1
    BadFiles = {1}
CHECK_DEADLOCK FALSE
INVARIANTS OneOutcomeEach SummaryHonest OneRunAtATime LoopGuard
PROPERTY WavePosts
