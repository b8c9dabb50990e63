----------------------------- MODULE MCControl -----------------------------
(* What talks to the control plane, each component on its own instance: the    *)
(* usage pipeline, the route worker with one tunnel whose assignments supersede *)
(* each other, and the route worker with two tunnels. They share no state here: *)
(* `part` is the one whose steps a behaviour takes. The pair r1, r2 names the   *)
(* routes of the one and the tunnels of the other, so that one symmetry serves  *)
(* both. A property of RouteWorker is asked of both workers: they have the same *)
(* variables.                                                                   *)
EXTENDS MCUsagePipeline, RouteWorker

CONSTANTS t1, l1

VARIABLE part

OneTunnel == {t1}
OneLease == {l1}
ThreeGenerations == 1..3

Two == INSTANCE RouteWorker WITH
    Tunnels <- TwoRoutes, MaxAssignment <- 2, Leases <- {}, Supersedes <- FALSE, ReportsObservedState <- FALSE

ControlInit ==
    /\ part \in {"one", "two", "usage"}
    /\ IF part = "one" THEN WorkerInit ELSE Two!WorkerInit
    /\ Init
    /\ part # "usage" => \A k \in Keys : traffic[k] = 0

OnePart == part = "one" /\ WorkerNext /\ UNCHANGED <<part, vars>>
TwoPart == part = "two" /\ Two!WorkerNext /\ UNCHANGED <<part, vars>>
UsagePart == part = "usage" /\ Next /\ UNCHANGED <<part, workerVars>>

ControlNext == OnePart \/ TwoPart \/ UsagePart

ControlSpec == ControlInit /\ [][ControlNext]_<<part, workerVars, vars>>
=============================================================================
