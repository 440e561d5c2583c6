CONSTANTS
    c1 = c1  c2 = c2  c3 = c3
    f1 = f1  f2 = f2  f3 = f3
    p1 = p1  p2 = p2  pd = pd  none = none
    CtrIds <- MC_CtrIds
    Files <- MC_Files
    EphemeralPorts <- MC_EphemeralPorts
    DefaultPort <- pd
    None <- none
    MaxScenarios = 2
SPECIFICATION Spec
SYMMETRY MC_Symmetry
INVARIANTS
    PortClashesExplained
CHECK_DEADLOCK FALSE
