---------------------------- MODULE MCRoutesLive ----------------------------
(* The generation registry and the route worker, each alone and under its own  *)
(* fairness. `part` is the one whose steps a behaviour takes; the registry     *)
(* that stands alone has variables of its own, with a g in front.              *)
EXTENDS Naturals

CONSTANTS r1, a1, l1, l2, t1

VARIABLES
    part,
    gActive, gPending, gClosed, gRules, gReady, gAccepting, gStreams,
    gCancelled, gDrained, gLease, gOp, gConfirmed,
    active, pending, closed, rules, ready, accepting, streams,
    cancelled, drained, lease, op, confirmed,
    desired, issued, accepted, admissions, w, run, available

Registry == INSTANCE GenerationRegistry WITH
    Generations <- 1..3, Routes <- {r1}, Appliers <- {a1}, Leases <- {l1, l2}, MaximumStreams <- 2,
    active <- gActive, pending <- gPending, closed <- gClosed, rules <- gRules, ready <- gReady,
    accepting <- gAccepting, streams <- gStreams, cancelled <- gCancelled, drained <- gDrained,
    lease <- gLease, op <- gOp, confirmed <- gConfirmed
Worker == INSTANCE RouteWorker WITH
    Tunnels <- {t1}, MaxAssignment <- 2, Generations <- 1..6, Leases <- {l1}, MaximumStreams <- 1,
    Supersedes <- FALSE, ReportsObservedState <- FALSE

registryVars == <<gActive, gPending, gClosed, gRules, gReady, gAccepting, gStreams,
                  gCancelled, gDrained, gLease, gOp, gConfirmed>>
workerVars == <<active, pending, closed, rules, ready, accepting, streams,
                cancelled, drained, lease, op, confirmed,
                desired, issued, accepted, admissions, w, run, available>>

RoutesInit == part \in {"registry", "worker"} /\ Registry!Init /\ Worker!WorkerInit

RegistryPart == part = "registry" /\ Registry!Next /\ UNCHANGED <<part, workerVars>>
WorkerPart == part = "worker" /\ Worker!WorkerNext /\ UNCHANGED <<part, registryVars>>

RoutesNext == RegistryPart \/ WorkerPart

(* RouteWorker's fairness, for the behaviours in which it runs: its loop is    *)
(* enabled from the start. A registry in its initial state has no fair step.   *)
WorkerFairness ==
    /\ SF_workerVars(part = "worker" /\ Worker!Pull)
    /\ WF_workerVars(part = "worker" /\ \E good \in SUBSET Worker!Selected(run.snap) : Worker!Probe(good))
    /\ SF_workerVars(part = "worker" /\ Worker!Probe(Worker!Selected(run.snap)))
    /\ WF_workerVars(part = "worker" /\ Worker!Stage)
    /\ SF_workerVars(part = "worker" /\ Worker!Acknowledged)
    /\ WF_workerVars(part = "worker" /\ Worker!AcknowledgementLost)
    /\ WF_workerVars(part = "worker" /\ Worker!Handover)
    /\ WF_workerVars(part = "worker" /\ Worker!Commit)
    /\ WF_workerVars(part = "worker" /\ Worker!Settle)
    /\ SF_workerVars(part = "worker" /\ Worker!FlushDetached)
    /\ WF_workerVars(part = "worker" /\ (Worker!ObserveReady \/ Worker!ObserveLost))

RoutesSpec ==
    /\ RoutesInit /\ [][RoutesNext]_<<part, registryVars, workerVars>>
    /\ Registry!Fairness /\ WorkerFairness

-----------------------------------------------------------------------------
(* The registry: once a table is retired its streams end and the generation is *)
(* drained.                                                                    *)
RetiredGenerationEmpties == Registry!RetiredGenerationEmpties

(* The route worker: an admitted candidate comes into service, whatever        *)
(* answers are lost on the way.                                                *)
AdmittedCandidateIsServed == Worker!AdmittedCandidateIsServed
=============================================================================
