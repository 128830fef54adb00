CONSTANTS
    Problems <- MCProblems
    Costs = {0, 1, 3}
SPECIFICATION FairHungarianSpec
INVARIANTS
    HungarianTypeOK
    NeverExits
    ForestLeadsBack
    Optimal
    MatchingTight
PROPERTIES
    Terminates
