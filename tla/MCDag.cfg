CONSTANTS
    Functions <- MCDagFunctions
SPECIFICATION Spec
INVARIANTS
    TypeOK
    DependenciesOrdered
    DeliversFunction
