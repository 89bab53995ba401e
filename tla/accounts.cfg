SPECIFICATION Spec
SYMMETRY Symmetry
CONSTANTS
    None = None
    Failure = Failure
    MaxId = 3
    MaxNow = 1
    Short = 0
    Long = 1
    Names = {n1, n2}
    Passwords = {p1, p2}
    Paths = {f1, f2}
INVARIANTS
    KeysKept
    OnePassword
PROPERTIES
    DeletedIsOut
