CONSTANTS
    Programs <- MCGapProgram
SPECIFICATION Spec
INVARIANTS
    SubRegistersExclusive
