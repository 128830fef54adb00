CONSTANTS
    Functions <- MCDagFunctions
SPECIFICATION Spec
INVARIANTS
    NoErasedOperand
