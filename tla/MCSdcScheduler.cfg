CONSTANTS
    Functions <- MCAllFunctions
    Opcodes <- MCOpcodes
    Widths <- MCWidths
SPECIFICATION Spec
INVARIANTS
    TypeOK
    AlwaysSolvable
    BuffersFit
    LastBlockWithinLimit
PROPERTIES
    MobilityNonNegative
    ImplementsSchedule
