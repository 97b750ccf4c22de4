CONSTANTS
    Metrics = {m1, m2}
    Levels = {0, 1}
    NRows = 3
    MaxShown = 2
    AnyColumnOrder = FALSE
    Modes = {"normalization", "standardization"}
    NaNCells = TRUE

SPECIFICATION Spec
SYMMETRY MCSymmetry

INVARIANT ShownAreMostQosCorrelated

\* The section ends: the final states have no successor.
CHECK_DEADLOCK FALSE
