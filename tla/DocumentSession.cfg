CONSTANTS
    Empty = Empty
    Sketched = Sketched
    Resketched = Resketched
    Broken = Broken
    Sketch = Sketch
    Contents <- MCContents
    ValidContents <- MCValidContents
    Sketches <- MCSketches
    Hosted <- MCHosted
    Counted = {"feature"}
    LocalKinds = {"entity"}
    MaxId = 2
    MaxRevision = 4
SPECIFICATION Spec
INVARIANTS
    HistoryIsUsable
PROPERTIES
    IdsNeverReissued
    ImplementsUndoRedo
