CONSTANTS
    Functions <- MCEarlierBlock
    Opcodes <- MCOpcodes
    Widths <- MCWidths
SPECIFICATION Spec
INVARIANTS
    SharesFit
