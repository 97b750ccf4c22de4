CONSTANTS
    Metrics = {m1, m2, m3}
    Levels = {0, 1}
    NRows = 3
    MaxShown = 2
    AnyColumnOrder = FALSE
    Modes = {"origin", "normalization", "standardization"}
    NaNCells = FALSE

SPECIFICATION Spec
SYMMETRY MCSymmetry

INVARIANT TypeOK
INVARIANT ShownAreMostQosCorrelated
INVARIANT FailsOnlyWithoutCorrelatedMetric

\* The section ends: the final states have no successor.
CHECK_DEADLOCK FALSE
