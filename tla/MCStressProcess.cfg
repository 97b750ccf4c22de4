CONSTANTS
    Times <- MCTimes
    QosValues <- MCQosValues
    StressLevels <- MCStressLevels
    MaxRows = 3
    MaxIntervals = 3
    QosReadFixed = TRUE

SPECIFICATION Spec

INVARIANT TypeOK
INVARIANT OnlyEmptyWindowsUnreported
INVARIANT DegradationAgainstLatestBaseline

PROPERTY AggregationRefined

\* The command ends: the final states have no successor.
CHECK_DEADLOCK FALSE
