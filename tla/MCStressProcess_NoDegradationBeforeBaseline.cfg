CONSTANTS
    Times <- MCTimes
    QosValues <- MCQosValues
    StressLevels <- MCStressLevels
    MaxRows = 3
    MaxIntervals = 3
    QosReadFixed = TRUE

SPECIFICATION Spec

INVARIANT NoDegradationBeforeBaseline

CHECK_DEADLOCK FALSE
