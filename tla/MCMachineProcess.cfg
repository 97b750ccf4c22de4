CONSTANTS
    Times <- MCTimes
    CpuValues <- MCCpuValues
    StressLevels <- MCStressLevels
    MaxRows = 3
    MaxIntervals = 3
    AnyIntervalOrder = TRUE

SPECIFICATION Spec

INVARIANT TypeOK
INVARIANT OnlyEmptyWindowsUnreported
INVARIANT WindowsStayInside

PROPERTY UsageRefined
PROPERTY OutputWritten

\* The command ends: the final state has no successor.
CHECK_DEADLOCK FALSE
