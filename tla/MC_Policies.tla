---------------------------- MODULE MC_Policies ----------------------------
(* Policies on four policy names and amounts up to 3. *)
EXTENDS Policies, TLC

CONSTANTS n1, n2, n3, n4

MC_Names == {n1, n2, n3, n4}

\* policy names are interchangeable
MC_Symmetry == Permutations(MC_Names)

=============================================================================
