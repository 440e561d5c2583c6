----------------------------- MODULE MC_Harness -----------------------------
(* Harness on three container ids, three config files, two ephemeral     *)
(* ports and the default port, over two scenarios.                        *)
EXTENDS Harness, TLC

CONSTANTS c1, c2, c3, f1, f2, f3, p1, p2, pd, none

MC_CtrIds == {c1, c2, c3}
MC_Files == {f1, f2, f3}
MC_EphemeralPorts == {p1, p2}

MC_Symmetry ==
    Permutations(MC_CtrIds) \cup Permutations(MC_Files)
        \cup Permutations(MC_EphemeralPorts)
=============================================================================
