CONSTANTS
    Outer = Outer
    Nested = Nested
    Makers = {Outer, Nested}
    Contents <- MCContents
    ValidContents <- MCContents
    Sketches = {}
    Hosted <- MCHosted
    Counted = {"feature"}
    LocalKinds = {}
    MaxId = 3
    MaxRevision = 3
    MaxDepth = 2
SPECIFICATION CallsSpec
SYMMETRY Symmetry
INVARIANTS
    HistorySurvivesCallbacks
PROPERTIES
    NestedIsKept
