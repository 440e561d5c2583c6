-------------------------- MODULE MC_PortAllocator --------------------------
EXTENDS PortAllocator, TLC

CONSTANTS q1, q2, q3

MC_Ports == {q1, q2, q3}

MC_Symmetry == Permutations(MC_Ports)

=============================================================================
