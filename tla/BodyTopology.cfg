CONSTANTS
    NoShape <- None
    MaxFeatures = 3
    Answers <- OcctAnswers
SPECIFICATION Spec
CHECK_DEADLOCK FALSE
INVARIANTS
    MeaningsAreTrue
PROPERTIES
    LostIsLost
    RefusesOnlyTheUnclear
