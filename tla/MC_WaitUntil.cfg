CONSTANTS
    Timeouts <- MC_Timeouts
    WaitTime = 1
    MaxCallTime = 2
    StartValue = false
    false = false
SPECIFICATION Spec
INVARIANTS
    TypeOK
    ReturnsWithinBound
CHECK_DEADLOCK FALSE
