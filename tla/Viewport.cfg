SPECIFICATION Spec

CONSTANTS
    d1 = d1
    d2 = d2
    e1 = e1
    e2 = e2
    f1 = f1
    None = None
    Docs <- MCDocs
    Edges <- MCEdges
    Faces <- MCFaces
    Seed <- MCSeed
    Changes <- MCChanges
    MaxRevision <- MCMaxRevision
    Queries <- MCQueries
    Faults <- MCFaults
    MaxGeneration = 3

INVARIANTS
    LeasesAreOfShownBody
    SurfacesAgree
    

PROPERTIES
    ClickTakesWhatIsShown
