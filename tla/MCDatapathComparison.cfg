CONSTANTS
    Schedules <- MCComparison
    Horizon = 1
    FarHorizon = 1
SPECIFICATION DatapathSpec
INVARIANTS
    WriterHasOperands
