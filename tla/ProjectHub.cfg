CONSTANTS
    Processes = {p1, p2}
    Folders = {f1, f2}
    ProjectIds = {x1, x2, x3}
    None = None
    NoFile = NoFile
    MaxEntries = 2
    MaxRequests = 3
    MaxFaults = 1
    MaxCrashes = 1
    MaxExternal = 1
    MaxTroubles = 1
SPECIFICATION Spec
INVARIANTS
    CatalogRemembers
    OpensWhatWasAsked
PROPERTIES
    CreationTakesBackItsOwn
    NoSilentPathUpdate
SYMMETRY Symmetric
