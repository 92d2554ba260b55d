CONSTANTS
    d1 = d1
    d2 = d2
    Good = Good
    Bad = Bad
    None = None
    Docs = {d1, d2}
    Values = {Good, Bad}
    Computable = {Good}
    Seed <- SeedParts
    MaxCreated = 1
    MaxRevision <- Revisions
    MaxGeneration = 2
SPECIFICATION FairSpec
INVARIANTS
    NothingOutlivesDocument
    ViewportServesLiveTools
    OfferedIsCurrent
PROPERTIES
    
    EveryEditIsJudged
CHECK_DEADLOCK FALSE
