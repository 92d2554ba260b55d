SPECIFICATION Spec
CONSTANTS
    k1 = k1
    k2 = k2
    SketchIds <- MCSketchIds
    Starts <- MCStarts
    MaxId = 3
    NoId = 0
    MaxEdits = 3
INVARIANT NoFeatureOnSeed
CHECK_DEADLOCK FALSE
