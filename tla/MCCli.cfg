CONSTANTS
    SampleInstants <- MCSampleInstants
    FoldAt = 12
    FoldLen = 5
    MktimeEarlier = TRUE
    Times <- MCTimes
    Values <- MCValues
    StressLevels <- MCStressLevels
    MaxRows = 2
    MaxIntervals = 2
    QosReadFixed = FALSE

SPECIFICATION Spec

INVARIANT ToolFailsOnlyOnEmptyInput

\* The command ends: the final states have no successor.
CHECK_DEADLOCK FALSE
