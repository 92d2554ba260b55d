CONSTANTS
    Ids = {d1, d2}
    Invalid = Invalid
    Paths = {a, b}
    Bodies = {fresh, edited}
    Fresh = fresh
    FileIdentities = {i1, i2, i3}
    None = None
    MaxExternal = 2
SPECIFICATION Spec
INVARIANTS
    OneWriterPerFile
    QuietIndexIsExact
PROPERTIES
    IdentityPreserved
    NoWorkLost
SYMMETRY Symmetric
