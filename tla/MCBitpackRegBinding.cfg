CONSTANTS
    Programs <- MCSmallPrograms
SPECIFICATION Spec
INVARIANTS
    TypeOK
    LifetimesPositive
    OpenerExclusive
    EverySubRegisterMerged
    SubRegistersDisjoint
