CONSTANTS
    First = First
    FirstEdited = FirstEdited
    Second = Second
    Junk = Junk
    Processes = {p1, p2}
    Contents <- MCPlainContents
    DocOf <- MCDocOf
    Unparsable = Unparsable
    Identities = {i1, i2, i3}
    Torn = Torn
    NoFile = NoFile
    Irregular = Irregular
    Nobody = Nobody
    Nothing = Nothing
    MaxInterference = 0
    MaxCrashes = 1
SPECIFICATION FairSpec
PROPERTIES
    ImplementsSaveRegister
    OperationsEnd
