SPECIFICATION Spec
CONSTANTS
    Requests = {r1, r2}
    Offline = {o1}
    NoCall = NoCall
    MaxWrites = 3
    MaxLosses = 1
INVARIANTS TypeOK  SomeCallGoesOn
PROPERTIES CursorIsMonotone
SYMMETRY Symmetry
