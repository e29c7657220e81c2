CONSTANTS
    Sessions = {s1, s2}
    Paths = {p, q}
    LineCount = 2
    Versions = {a, b, c}
    Missing = Missing
    NoCall = NoCall
    MaxEvents = 4
SYMMETRY Symmetry
SPECIFICATION Spec
CHECK_DEADLOCK FALSE
INVARIANT TypeOK
INVARIANT StaleTargetsAreRefused
