CONSTANTS
    n1 = n1
    n2 = n2
    n3 = n3
    n4 = n4
    Names <- MC_Names
    MaxAmount = 3
SYMMETRY MC_Symmetry
SPECIFICATION Spec
INVARIANTS
    TypeOK
    ContextMatchesAgent
    RemovalPlanStored
CHECK_DEADLOCK FALSE
