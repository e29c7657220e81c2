CONSTANTS
    Maps = {m1, m2}
    NoApply = NoApply
    FilesFail = TRUE
    MaxContent = 5
SYMMETRY Symmetry
SPECIFICATION Spec
INVARIANT TypeOK
INVARIANT InterruptedIsJournaled
PROPERTY StartupTakesBackOnlyUnreported
