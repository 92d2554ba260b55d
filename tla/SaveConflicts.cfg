CONSTANTS
    First = First
    FirstEdited = FirstEdited
    Second = Second
    Junk = Junk
    Processes = {p1, p2}
    Contents <- MCContents
    DocOf <- MCDocOf
    Unparsable = Unparsable
    Identities = {i1, i2, i3, i4}
    Torn = Torn
    NoFile = NoFile
    Irregular = Irregular
    Nobody = Nobody
    Nothing = Nothing
    MaxInterference = 1
    MaxCrashes = 1
SPECIFICATION ProtocolSpec
INVARIANTS
    TargetComplete
    ValidatedStaysValid
    CleanMeansOnDisk
SYMMETRY Symmetric
