SPECIFICATION FairSpec
CONSTANTS
    src = src
    lib = lib
    doc = doc
    x = x
    y = y
    Paths = {src, lib, doc}
    Docs = {doc}
    NoFile = NoFile
    Tokens = {x, y}
    Empty = Empty
    Original <- Contents
    SeedFiles = 2
    Rounds = 2
    ContextFiles = 2
    MaxOps = 3
CHECK_DEADLOCK FALSE
INVARIANTS ActsOnSeenEvidence HunksExact ProposalConfined
PROPERTY AgentEnds
