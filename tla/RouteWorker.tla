---------------------------- MODULE RouteWorker ----------------------------
(* internal/runtime/workers.go, RouteWorker: the reconcile loop that pulls    *)
(* the desired assignments, admits their carriers, probes them, stages a        *)
(* route generation, reports it ready and promotes it only when the control   *)
(* plane has accepted the report. It is composed with the generation registry *)
(* (module GenerationRegistry, whose only applier the worker is), the durable *)
(* admission registry and the control plane.                                  *)
(*                                                                            *)
(* A tunnel has one route and one connector here, so an assignment is a       *)
(* tunnel and an assignment generation. The content hash of a set of          *)
(* assignments is the set of their identities: canonicalRouteHash leaves out  *)
(* the mutable state and observed state of a row.                             *)
EXTENDS Naturals, FiniteSets

CONSTANTS
    Tunnels,
    MaxAssignment,         \* bound: assignments the control plane issues per tunnel
    Generations,           \* bound: local route generations
    Leases, MaximumStreams,
    Supersedes,            \* the control plane may replace or withdraw a staged row
    ReportsObservedState   \* rows carry observed_state (the field is optional)

ASSUME WorkerAssumption == Generations \subseteq Nat \ {0}

Assignments == Tunnels \X (1..MaxAssignment)
TunnelOf(a) == a[1]
GenOf(a) == a[2]

Observed == {"pending", "ready"}
Rules == [of : Assignments, observed : Observed]
Rows == [of : Assignments, state : {"staged", "active", "draining"}, observed : Observed]

TheWorker == "worker"

VARIABLES
    \* the generation registry
    active, pending, closed, rules, ready, accepting, streams,
    cancelled, drained, lease, op, confirmed,
    \* the control plane
    desired,     \* state of every assignment's row, or "absent"
    issued,      \* assignments issued so far, by tunnel
    accepted,    \* assignments whose ready observation was accepted
    admissions,  \* carriers admitted: DurableAdmissionRegistry.byID
    \* the worker
    w,           \* the canonical* fields of RouteWorker
    run,         \* locals of the reconcile in progress
    available    \* node.State.ControlAvailable

R == INSTANCE GenerationRegistry WITH Routes <- Rules, Appliers <- {TheWorker}

registryVars == <<active, pending, closed, rules, ready, accepting, streams,
                  cancelled, drained, lease, op, confirmed>>
control == <<desired, issued, accepted>>
localVars == <<w, run, available>>
workerVars == <<registryVars, control, admissions, localVars>>

(* Keyed by route and connector: one row per tunnel. *)
Selections == {S \in SUBSET Rows : \A r, s \in S : TunnelOf(r.of) = TunnelOf(s.of) => r = s}

Ids(rows) == {r.of : r \in rows}

(* canonicalRouteRules: what the matcher compares of a row. *)
RulesOf(rows) == {[of |-> r.of, observed |-> r.observed] : r \in rows}

WorkerFields ==
    [set : BOOLEAN, hash : SUBSET Assignments, assignments : Selections, generation : Nat,
     pendingSet : BOOLEAN, pendingHash : SUBSET Assignments, pendingGeneration : Nat,
     pendingAdmissions : BOOLEAN, pendingDetached : SUBSET Assignments]

RunFields ==
    [pc : {"idle", "probe", "stage", "acknowledge", "handover", "settle", "flush", "observe", "stopped"},
     started : BOOLEAN, snap : SUBSET Rows, active : Selections, readied : Selections,
     failed : Selections, generation : Nat, failure : BOOLEAN]

(* Between reconciles only the outcome of the last one remains: whether it     *)
(* failed for a local reason (lastErr), and which tunnels it had found ready.  *)
IdleRun ==
    [pc |-> "idle", started |-> FALSE, snap |-> {}, active |-> {}, readied |-> {},
     failed |-> {}, generation |-> 0, failure |-> FALSE]

WorkerTypeOK ==
    /\ R!TypeOK
    /\ desired \in [Assignments -> {"absent", "staged", "active", "draining"}]
    /\ issued \in [Tunnels -> 0..MaxAssignment]
    /\ accepted \subseteq Assignments
    /\ admissions \subseteq Assignments
    /\ w \in WorkerFields
    /\ run \in RunFields
    /\ available \in BOOLEAN

WorkerInit ==
    /\ R!Init
    /\ desired = [a \in Assignments |-> "absent"]
    /\ issued = [t \in Tunnels |-> 0]
    /\ accepted = {}
    /\ admissions = {}
    /\ w = [set |-> FALSE, hash |-> {}, assignments |-> {}, generation |-> 0,
            pendingSet |-> FALSE, pendingHash |-> {}, pendingGeneration |-> 0,
            pendingAdmissions |-> FALSE, pendingDetached |-> {}]
    /\ run = IdleRun
    /\ available = TRUE

-----------------------------------------------------------------------------
(* The control plane (not in this repository): rows of this edge process. *)

RowsOf(t) == {a \in Assignments : TunnelOf(a) = t}
InState(t, s) == {a \in RowsOf(t) : desired[a] = s}

(* A tunnel's first assignment is active at once; a replacement is staged     *)
(* beside the active one, and takes the place of an earlier staged one.       *)
Publish(t) ==
    /\ issued[t] < MaxAssignment
    /\ InState(t, "staged") # {} => Supersedes
    /\ issued' = [issued EXCEPT ![t] = @ + 1]
    /\ desired' = [a \in Assignments |->
           CASE a = <<t, issued[t] + 1>> -> IF InState(t, "active") = {} THEN "active" ELSE "staged"
             [] a \in InState(t, "staged") -> "absent"
             [] OTHER -> desired[a]]
    /\ UNCHANGED <<registryVars, accepted, admissions, localVars>>

Withdraw(t) ==
    /\ Supersedes
    /\ InState(t, "staged") # {}
    /\ desired' = [a \in Assignments |-> IF a \in InState(t, "staged") THEN "absent" ELSE desired[a]]
    /\ UNCHANGED <<registryVars, issued, accepted, admissions, localVars>>

RemoveTunnel(t) ==
    /\ InState(t, "active") # {}
    /\ desired' = [a \in Assignments |-> IF TunnelOf(a) = t THEN "absent" ELSE desired[a]]
    /\ UNCHANGED <<registryVars, issued, accepted, admissions, localVars>>

(* The rows of a complete snapshot. *)
DesiredRouteSnapshot ==
    {[of |-> a, state |-> desired[a],
      observed |-> IF ReportsObservedState /\ a \notin accepted THEN "pending" ELSE "ready"] :
        a \in {b \in Assignments : desired[b] # "absent"}}

(* Ready observations are accepted when every row is still offered: each      *)
(* becomes the tunnel's active row and the one it replaces drains.            *)
Acceptable(S) == \A a \in S : desired[a] \in {"staged", "active"}

AcceptReady(S) ==
    /\ accepted' = accepted \cup S
    /\ desired' = [a \in Assignments |->
           CASE a \in S -> "active"
             [] a \notin S /\ desired[a] = "active" /\ \E b \in S : TunnelOf(b) = TunnelOf(a) -> "draining"
             [] OTHER -> desired[a]]
    /\ UNCHANGED issued

AcceptDetached(S) ==
    /\ desired' = [a \in Assignments |-> IF a \in S THEN "absent" ELSE desired[a]]
    /\ UNCHANGED <<issued, accepted>>

-----------------------------------------------------------------------------
(* DurableAdmissionRegistry.Replace rejects an assignment generation below    *)
(* the highest one currently installed for its route.                         *)
Fenced(S) == \A a \in S, b \in admissions : TunnelOf(a) = TunnelOf(b) => GenOf(a) >= GenOf(b)

-----------------------------------------------------------------------------
(* The worker. Finish is how a reconcile ends: recordReconcile keeps the node *)
(* available through control outages and withdraws it on any other error; a   *)
(* first reconcile (Start) that fails so stops the worker.                    *)

Finish(r, err) ==
    /\ run' = [IdleRun EXCEPT !.pc = IF err = "local" /\ ~r.started THEN "stopped" ELSE "idle",
                              !.started = TRUE,
                              !.failure = (err = "local"),
                              !.readied = IF err = "local" THEN r.readied ELSE {}]
    /\ available' = CASE err = "none" -> TRUE
                      [] err = "local" /\ r.started -> FALSE
                      [] OTHER -> available

Same(S) == w.set /\ S = w.hash /\ active # R!NoGeneration

(* selectCanonicalAssignments: the staged row of a tunnel before its active one. *)
Selected(snap) ==
    {r \in snap : \/ r.state = "staged"
                  \/ r.state = "active" /\ ~ \E s \in snap : s.state = "staged" /\ TunnelOf(s.of) = TunnelOf(r.of)}

(* Mutant: only the candidates are admitted while they are staged. *)
PendingAdmissionsWithoutServing(snap) == Ids(Selected(snap))

(* canonicalPendingAdmissionAssignments: the candidates, and every assignment *)
(* in service that the snapshot still offers.                                 *)
PendingAdmissions(snap) ==
    Ids(Selected(snap)) \cup {a \in Ids(w.assignments) :
        \E r \in snap : r.of = a /\ r.state \in {"staged", "active"}}

(* canonicalSupersededAssignments over the active and the failed selection. *)
Superseded == {r.of : r \in {s \in run.snap : /\ s.state \in {"active", "draining"}
                                              /\ s.of \notin Ids(run.active \cup run.failed)}}

(* A snapshot is pulled and, unless the last pending set is still installed,  *)
(* its carriers are admitted before any of them is probed.                    *)
Pull ==
    LET snap == DesiredRouteSnapshot
        selected == Selected(snap)
        probe == ~Same(Ids(selected))
        install == probe /\ selected # {} /\ ~w.pendingAdmissions
        r == [run EXCEPT !.snap = snap, !.active = selected, !.readied = selected, !.failure = FALSE]
    IN  /\ run.pc = "idle"
        /\ IF install /\ ~Fenced(PendingAdmissions(snap))
             THEN /\ Finish([r EXCEPT !.readied = {}], "local")
                  /\ UNCHANGED <<w, admissions>>
             ELSE /\ run' = [r EXCEPT !.pc = IF probe THEN "probe" ELSE "settle"]
                  /\ admissions' = IF install THEN PendingAdmissions(snap) ELSE admissions
                  /\ w' = IF install THEN [w EXCEPT !.pendingAdmissions = TRUE] ELSE w
                  /\ UNCHANGED available
        /\ UNCHANGED <<registryVars, control>>

PullFails ==
    /\ run.pc = "idle"
    /\ Finish(run, "control")
    /\ UNCHANGED <<registryVars, control, admissions, w>>

(* Mutant: a tunnel whose probe fails falls back to a draining row that was ready once. *)
ProbeFallsBack(good) ==
    /\ run.pc = "probe"
    /\ good \subseteq {r \in Selected(run.snap) : r.of \in admissions}
    /\ LET bad == Selected(run.snap) \ good
           lkg == {r \in run.snap : /\ r.state = "draining" /\ r.of \in accepted
                                  /\ \E b \in bad : TunnelOf(b.of) = TunnelOf(r.of)}
           r == [run EXCEPT !.active = good \cup lkg, !.readied = good, !.failed = bad]
       IN  IF bad # {} /\ good \cup lkg = {}
             THEN Finish(r, "local")
             ELSE /\ run' = [r EXCEPT !.pc = IF Same(Ids(good \cup lkg)) THEN "settle" ELSE "stage"]
                  /\ UNCHANGED available
    /\ UNCHANGED <<registryVars, control, admissions, w>>

(* resolveCanonicalGroups: a tunnel whose probe fails keeps what it has in    *)
(* service. A probe opens a stream on the exact assignment's carrier, which   *)
(* can attach only while it is admitted and may be missing or fail any time.  *)
Probe(good) ==
    /\ run.pc = "probe"
    /\ good \subseteq {r \in Selected(run.snap) : r.of \in admissions}
    /\ LET bad == Selected(run.snap) \ good
           lkg == {r \in w.assignments : \E b \in bad : TunnelOf(b.of) = TunnelOf(r.of)}
           r == [run EXCEPT !.active = good \cup lkg, !.readied = good, !.failed = bad]
       IN  IF bad # {} /\ good \cup lkg = {}
             THEN Finish(r, "local")
             ELSE /\ run' = [r EXCEPT !.pc = IF Same(Ids(good \cup lkg)) THEN "settle" ELSE "stage"]
                  /\ UNCHANGED available
    /\ UNCHANGED <<registryVars, control, admissions, w>>

(* Mutant: a pending generation is reused whatever its content. *)
LocalGenerationReused ==
    IF w.pendingSet THEN w.pendingGeneration ELSE w.generation + 1

(* The generation number of the candidate: the pending one when its content   *)
(* is the same, else a new one.                                               *)
LocalGeneration ==
    IF w.pendingSet /\ w.pendingHash = Ids(run.active)
      THEN w.pendingGeneration
      ELSE (IF w.pendingGeneration > w.generation THEN w.pendingGeneration ELSE w.generation) + 1

Stage ==
    LET g == LocalGeneration
        t == RulesOf(run.active)
    IN  /\ run.pc = "stage"
        /\ g \in Generations
        /\ IF R!AlreadyStaged(g, t) \/ R!MayStage(g)
             THEN /\ R!StageGeneration(TheWorker, g, t)
                  /\ w' = [w EXCEPT !.pendingSet = TRUE, !.pendingHash = Ids(run.active), !.pendingGeneration = g]
                  /\ run' = [run EXCEPT !.pc = "acknowledge", !.generation = g]
                  /\ UNCHANGED available
             ELSE /\ Finish(run, "local")
                  /\ UNCHANGED <<registryVars, w>>
        /\ UNCHANGED <<control, admissions>>

(* ObserveRoutes(ready) before promotion: accepted, rejected or unreachable,  *)
(* or accepted with the answer lost.                                          *)
Observation == Ids(IF run.failed # {} THEN run.readied ELSE run.active)

Acknowledged ==
    /\ run.pc = "acknowledge"
    /\ Acceptable(Observation)
    /\ AcceptReady(Observation)
    /\ R!ConfirmReady(TheWorker)
    /\ run' = [run EXCEPT !.pc = "handover"]
    /\ UNCHANGED <<admissions, w, available>>

AcknowledgementLost ==
    /\ run.pc = "acknowledge"
    /\ \/ Acceptable(Observation) /\ AcceptReady(Observation)
       \/ UNCHANGED control
    /\ R!AbandonStaged(TheWorker)
    /\ Finish(run, "control")
    /\ UNCHANGED <<admissions, w>>

(* MarkGenerationReady and ActivateGeneration, the drain included. *)
Handover ==
    /\ run.pc = "handover"
    /\ R!ApplierStep(TheWorker)
    /\ UNCHANGED <<control, admissions, localVars>>

(* Promotion is complete: the admissions and the worker's record follow it. *)
Commit ==
    /\ run.pc = "handover"
    /\ op[TheWorker].pc = "idle"
    /\ IF active = run.generation /\ Fenced(Ids(run.active))
         THEN /\ admissions' = Ids(run.active)
              /\ w' = [w EXCEPT !.pendingAdmissions = FALSE, !.generation = run.generation,
                                !.hash = Ids(run.active), !.set = TRUE,
                                !.pendingSet = FALSE,
                                !.pendingDetached = (Ids(w.assignments) \ Ids(run.active)) \cup Superseded,
                                !.assignments = run.active]
              /\ run' = [run EXCEPT !.pc = "flush"]
              /\ UNCHANGED available
         ELSE /\ Finish(run, "local")
              /\ UNCHANGED <<w, admissions>>
    /\ UNCHANGED <<registryVars, control>>

(* The table in service is the desired one: only the admissions and the       *)
(* reports are brought up to date.                                            *)
Settle ==
    /\ run.pc = "settle"
    /\ IF run.failed = {} /\ ~Fenced(Ids(run.active))
         THEN /\ Finish(run, "local")
              /\ UNCHANGED <<w, admissions>>
         ELSE /\ admissions' = IF run.failed = {} THEN Ids(run.active) ELSE admissions
              /\ w' = [w EXCEPT !.pendingDetached = @ \cup Superseded]
              /\ run' = [run EXCEPT !.pc = "flush"]
              /\ UNCHANGED available
    /\ UNCHANGED <<registryVars, control>>

(* The step after the detach report: a promotion has reported ready before it. *)
AfterFlush ==
    CASE run.generation # 0 -> Finish(run, "none")
      [] run.generation = 0 /\ run.failed # {} /\ run.readied = {} -> Finish(run, "local")
      [] OTHER -> run' = [run EXCEPT !.pc = "observe"] /\ UNCHANGED available

FlushDetached ==
    /\ run.pc = "flush"
    /\ AcceptDetached(w.pendingDetached)
    /\ w' = [w EXCEPT !.pendingDetached = {}]
    /\ AfterFlush
    /\ UNCHANGED <<registryVars, admissions>>

FlushLost ==
    /\ run.pc = "flush"
    /\ w.pendingDetached # {}
    /\ AcceptDetached(w.pendingDetached) \/ UNCHANGED control
    /\ Finish(run, "control")
    /\ UNCHANGED <<registryVars, admissions, w>>

ObserveReady ==
    /\ run.pc = "observe"
    /\ Acceptable(Observation)
    /\ AcceptReady(Observation)
    /\ Finish(run, "none")
    /\ UNCHANGED <<registryVars, admissions, w>>

ObserveLost ==
    /\ run.pc = "observe"
    /\ \/ Acceptable(Observation) /\ AcceptReady(Observation)
       \/ UNCHANGED control
    /\ Finish(run, "control")
    /\ UNCHANGED <<registryVars, admissions, w>>

Streams ==
    /\ \/ \E l \in Leases, r \in Rules : R!Acquire(l, r)
       \/ \E l \in Leases : R!RequestEnds(l) \/ R!WatcherCloses(l) \/ R!ReleaseMarks(l)
    /\ UNCHANGED <<control, admissions, localVars>>

Reconcile ==
    \/ Pull
    \/ \E good \in SUBSET Selected(run.snap) : Probe(good)
    \/ Stage \/ Acknowledged \/ Handover \/ Commit \/ Settle \/ FlushDetached \/ ObserveReady

Outage == PullFails \/ AcknowledgementLost \/ FlushLost \/ ObserveLost

WorkerNext ==
    \/ \E t \in Tunnels : Publish(t) \/ Withdraw(t) \/ RemoveTunnel(t)
    \/ Reconcile
    \/ Outage
    \/ Streams

WorkerSpec == WorkerInit /\ [][WorkerNext]_workerVars

(* The ticker keeps the worker running and the drain timer ends a handover;   *)
(* outages and carrier failures may recur for ever but do not last for ever.  *)
WorkerFairness ==
    /\ SF_workerVars(Pull)
    /\ WF_workerVars(\E good \in SUBSET Selected(run.snap) : Probe(good))
    /\ SF_workerVars(Probe(Selected(run.snap)))
    /\ WF_workerVars(Stage)
    /\ SF_workerVars(Acknowledged)
    /\ WF_workerVars(AcknowledgementLost)
    /\ WF_workerVars(Handover)
    /\ WF_workerVars(Commit)
    /\ WF_workerVars(Settle)
    /\ SF_workerVars(FlushDetached)
    /\ WF_workerVars(ObserveReady \/ ObserveLost)

FairWorkerSpec == WorkerSpec /\ WorkerFairness

-----------------------------------------------------------------------------

Served == IF active = R!NoGeneration THEN {} ELSE Ids(rules[active])

(* A candidate is probed only after its carrier was admitted: the durable     *)
(* admission registry holds every assignment the probe is about to open.      *)
ProbedCandidateIsAdmitted ==
    run.pc = "probe" => Ids(Selected(run.snap)) \subseteq admissions

(* An assignment in service that the control plane still offers has its       *)
(* carrier admitted: a replacement that is staged, probed, refused or half    *)
(* promoted never takes the authorization of what is still serving.           *)
ServedIsAdmitted ==
    \A a \in Served : desired[a] \in {"staged", "active"} => a \in admissions

(* "The server must durably accept the exact ready tuple before local         *)
(* promotion": nothing serves that was not accepted.                          *)
ServedWasAccepted == Served \subseteq accepted

(* The worker never reports as detached what the registry still serves.       *)
ServedIsNotDetached == run.pc = "flush" => w.pendingDetached \cap Served = {}

(* Of a worker with one tunnel: what a promotion puts into service is never an *)
(* older assignment than the one it replaces.                                  *)
ServiceMovesForward ==
    [][\A a \in Served, b \in Served' :
        Tunnels = {TunnelOf(a)} /\ TunnelOf(b) = TunnelOf(a) => GenOf(a) <= GenOf(b)]_workerVars

(* A reconcile in which some tunnel was ready does not withdraw the node. *)
FailureIsScoped == run.failure => run.readied = {}

(* A retry finds its own candidate where it left it. *)
RetryIsAccepted ==
    run.pc = "stage" => R!AlreadyStaged(LocalGeneration, RulesOf(run.active)) \/ R!MayStage(LocalGeneration)

(* A candidate whose carrier is admitted is served in the end, through lost   *)
(* and uncertain acknowledgements and failed probes, unless the control plane *)
(* stops offering it or the worker never came up.                             *)
AdmittedCandidateIsServed ==
    \A a \in Assignments :
        (a \in admissions /\ desired[a] = "staged")
            ~> (a \in Served \/ desired[a] \in {"absent", "draining"} \/ run.pc = "stopped")

(* What drains at the control plane is reported detached in the end. *)
DrainingIsReported ==
    \A a \in Assignments :
        (desired[a] = "draining") ~> (desired[a] = "absent" \/ run.pc = "stopped")

-----------------------------------------------------------------------------
(* The inductive invariant behind ServedIsAdmitted and ServiceMovesForward.    *)

Offered == {a \in Assignments : desired[a] \in {"staged", "active"}}
Issued == {a \in Assignments : GenOf(a) <= issued[TunnelOf(a)]}

(* No assignment of T is older than one of S in the same tunnel.              *)
Forward(S, T) == \A a \in S, b \in T : TunnelOf(a) = TunnelOf(b) => GenOf(a) <= GenOf(b)

(* The control plane: every row was issued, an accepted one is not staged, a  *)
(* staged one is the last of its tunnel, and the active one is not older than *)
(* any that was accepted.                                                     *)
RowsInv ==
    /\ \A a \in Assignments : desired[a] # "absent" => a \in Issued
    /\ accepted \subseteq Issued
    /\ \A a \in accepted : desired[a] # "staged"
    /\ \A a \in Assignments : desired[a] = "staged" => GenOf(a) = issued[TunnelOf(a)]
    /\ \A a \in Assignments, b \in Assignments :
        desired[a] = "active" /\ desired[b] = "active" /\ TunnelOf(a) = TunnelOf(b) => a = b
    /\ \A a \in accepted, b \in Assignments :
        desired[b] = "active" /\ TunnelOf(a) = TunnelOf(b) => GenOf(a) <= GenOf(b)

(* The worker's record v beside what is served. They differ only after a      *)
(* promotion whose admissions were refused, and then pendingAdmissions stays. *)
ServiceRecord(offered, acknowledged, served, admitted, v) ==
    /\ v.hash = Ids(v.assignments) /\ (v.set \/ v.assignments = {})
    /\ Ids(v.assignments) \cup served \subseteq acknowledged
    /\ (Ids(v.assignments) \cup served) \cap offered \subseteq admitted
    /\ v.pendingAdmissions \/ served \subseteq Ids(v.assignments)
    /\ Forward(served, served)

(* The reconcile r in progress: what it has selected, probed and staged.      *)
CandidateRecord(offered, known, acknowledged, served, admitted, v, r) ==
    /\ r.pc = "probe" =>
        /\ Selected(r.snap) \in Selections /\ Ids(r.snap) \subseteq known
        /\ Selected(r.snap) = {} \/ v.pendingAdmissions
        /\ Ids(Selected(r.snap)) = v.hash => served \cap offered \subseteq v.hash
        /\ Forward(served, Ids(Selected(r.snap)))
    /\ r.pc \in {"stage", "acknowledge", "handover"} =>
        /\ r.active = {} \/ v.pendingAdmissions
        /\ Ids(r.active) \subseteq known
        /\ Ids(r.active) \cap offered \subseteq admitted
        /\ (\E t \in Tunnels : Tunnels = {t}) => Forward(served, Ids(r.active))
    /\ r.pc \in {"stage", "acknowledge"} => Ids(r.active) \subseteq Ids(r.readied) \cup Ids(v.assignments)
    /\ r.pc = "handover" => Ids(r.active) \subseteq acknowledged
    /\ r.pc = "settle" /\ r.failed = {} => Ids(r.active) = v.hash /\ served \cap offered \subseteq v.hash

(* The registry holds the table of the candidate under its number.            *)
StagedInv(tables, o, r) ==
    /\ r.pc \in {"acknowledge", "handover"} =>
        r.generation \in Generations /\ tables[r.generation] = RulesOf(r.active)
    /\ r.pc = "acknowledge" \/ (r.pc = "handover" /\ o.pc # "idle") => o.gen = r.generation

RegistryTypes ==
    /\ active \in Generations \cup {R!NoGeneration}
    /\ rules \in [Generations -> SUBSET Rules]
    /\ op \in [{TheWorker} -> R!OpState]

RowTypes ==
    /\ desired \in [Assignments -> {"absent", "staged", "active", "draining"}]
    /\ issued \in [Tunnels -> Nat]
    /\ accepted \subseteq Assignments

WorkerInv ==
    /\ RegistryTypes /\ RowTypes /\ w \in WorkerFields /\ run \in RunFields
    /\ RowsInv
    /\ ServiceRecord(Offered, accepted, Served, admissions, w)
    /\ CandidateRecord(Offered, Issued, accepted, Served, admissions, w, run)
    /\ StagedInv(rules, op[TheWorker], run)
=============================================================================
