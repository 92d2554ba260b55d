CONSTANTS
    A = A
    B = B
    None = None
    Shapes = {A, B}
    Tools <- UsedTools
    Aids = {"tracking"}
    Before <- DrawnBefore
    MaxId = 2
    MaxRevision = 4
SPECIFICATION Spec
INVARIANTS
    HoldsOnlyLive
    TypedForThisQuestion
    
PROPERTIES
    CommitsWhatItCaptured
    EscapeStepsBack
