SPECIFICATION FairSpec
CONSTANTS
    Threads = {t, u}
    Pins = {2}
    Latest = Latest
    Absent = Absent
    Items = {stubs, code}
    Keywords = {1, 2}
    MaxBlocks = 3
    MaxSnippets = 2
    MaxVersion = 2
    MaxGroundings = 3
    MaxCrashes = 1
CHECK_DEADLOCK FALSE
INVARIANTS PinnedDirsTrue WholeUntilTrouble NoKeywordStarved
PROPERTY GroundingEnds
