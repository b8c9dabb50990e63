-------------------------- MODULE MCUsagePipeline --------------------------
(* Instances of UsagePipeline for TLC. *)
EXTENDS UsagePipeline, TLC

CONSTANTS r1, r2

OneRoute == {r1}
TwoRoutes == {r1, r2}
RouteSymmetry == Permutations(TwoRoutes)

NoPartitions == <<0, 0>>
TwoPartitions == <<1, 2>>
=============================================================================
