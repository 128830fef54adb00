CONSTANTS
    Schedules <- MCExecutable
    Horizon = 2
SPECIFICATION FairSpec
INVARIANTS
    TypeOK
    StatesDistinguished
    InstructionsPlaced
    NoTransitionMissing
PROPERTIES
    FinishAfterReturn
    ImplementsExecution
    Completes
