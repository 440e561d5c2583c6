CONSTANTS
    q1 = q1
    q2 = q2
    q3 = q3
    Ports <- MC_Ports
    MaxRetries = 10
    NoPort = NoPort
SPECIFICATION Spec
INVARIANTS
    TypeOK
    AllocationContract
PROPERTY
    ImplementsContract
SYMMETRY MC_Symmetry
