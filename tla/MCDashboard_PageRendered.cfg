CONSTANTS
    Types <- MCTypes
    Percents <- MCPercents
    CpuValues <- MCCpuValues
    MaxRows = 2
    MaxUsageRows = 1

SPECIFICATION Spec

PROPERTY PageRendered


\* The script ends: the final states have no successor.
CHECK_DEADLOCK FALSE
