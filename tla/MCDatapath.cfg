CONSTANTS
    Schedules <- MCDatapathSchedules
    Horizon = 1
    FarHorizon = 3
SPECIFICATION DatapathSpec
INVARIANTS
    DatapathTypeOK
    OperandsArrive
    AbortsAreKnown
PROPERTIES
    ResultCorrect
    ImplementsController
