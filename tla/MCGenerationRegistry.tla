------------------------ MODULE MCGenerationRegistry ------------------------
(* Small instances of GenerationRegistry for TLC. *)
EXTENDS GenerationRegistry, TLC

CONSTANTS r1, l1, l2, a1, a2

GenerationsMC == 1..3
RoutesMC == {r1}
LeasesMC == {l1, l2}
OneApplier == {a1}
TwoAppliers == {a1, a2}

LeaseSymmetry == Permutations(LeasesMC)
Symmetry == LeaseSymmetry \cup Permutations(TwoAppliers)
=============================================================================
