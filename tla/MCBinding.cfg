CONSTANTS
    Schedules <- MCBindingSchedules
    Horizon = 1
    FarHorizon = 3
SPECIFICATION FairSpec
INVARIANTS
    TypeOK
    UnitsExclusive
    InputsCounted
    GroupsIndependent
    DisjointBlocksNeverClash
    LeastFixpoint
    LiveWhereRead
PROPERTIES
    AnalysisEnds
