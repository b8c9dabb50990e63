--------------------------- MODULE MCRouteWorker ---------------------------
(* Small instances of RouteWorker for TLC. *)
EXTENDS RouteWorker, TLC

CONSTANTS t1, t2, l1

OneTunnel == {t1}
TwoTunnels == {t1, t2}
NoLease == {}
OneLease == {l1}
GenerationsMC == 1..3
EnoughGenerations == 1..6
TunnelSymmetry == Permutations(TwoTunnels)
=============================================================================
