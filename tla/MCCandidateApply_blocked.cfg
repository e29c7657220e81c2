CONSTANTS
    Maps = {m1, m2}
    NoApply = NoApply
    FilesFail = FALSE
    MaxContent = 4
SYMMETRY Symmetry
SPECIFICATION Spec
PROPERTY EveryInterruptedApplyIsRestored
