CONSTANTS
    Types <- MCTypes
    Percents <- MCPercents
    CpuValues <- MCCpuValues
    MaxRows = 3
    MaxUsageRows = 2

SPECIFICATION Spec

INVARIANT TypeOK
INVARIANT ChartsHoldOnlyTheirRows
INVARIANT RankNotBelowRows

\* The script ends: the final states have no successor.
CHECK_DEADLOCK FALSE
