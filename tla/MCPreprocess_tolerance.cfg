CONSTANTS
    Times <- MCTimes
    MaxRows <- MCMaxRows
    MaxDiff <- MCMaxDiff
    FoldAt = 12
    FoldLen = 5
    MktimeEarlier = TRUE

SPECIFICATION Spec

INVARIANT MatchedPairsWithinTolerance

CHECK_DEADLOCK FALSE
