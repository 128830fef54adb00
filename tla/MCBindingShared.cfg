CONSTANTS
    Schedules <- MCBindingSchedules
    Horizon = 1
    FarHorizon = 3
SPECIFICATION Spec
INVARIANTS
    SharedNeverClash
