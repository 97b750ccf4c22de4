CONSTANTS
    SampleInstants <- MCSampleInstants
    FoldAt = 12
    FoldLen = 5
    MktimeEarlier = TRUE
    Times <- MCTimes
    Values <- MCValues
    StressLevels <- MCStressLevels
    MaxRows = 3
    MaxIntervals = 2
    QosReadFixed = FALSE

SPECIFICATION Spec

INVARIANT TypeOK
INVARIANT IdenticalInputsPairedDiagonally
INVARIANT DroppedRowsHaveNoPartner

PROPERTY ToolEnds
PROPERTY AlignmentRefined

\* The program exits at its final states: they have no successor.
CHECK_DEADLOCK FALSE
