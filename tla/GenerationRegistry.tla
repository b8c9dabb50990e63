------------------------- MODULE GenerationRegistry -------------------------
(* internal/route/matcher.go, GenerationRegistry: route tables are staged,   *)
(* marked ready and promoted; the promoted table admits streams, the retired *)
(* one drains. One action is one critical section of the registry's mutex,   *)
(* or one step taken outside it (closing the drained channel, cancelling a   *)
(* generation). Appliers are the goroutines that hand a table over, either   *)
(* ApplyGeneration or the route worker's Stage / MarkReady / Activate calls. *)
(*                                                                           *)
(* A generationState is named by its generation: StageGeneration allocates   *)
(* one only for a number above the active one, so a promoted state is never  *)
(* overwritten, and a state discarded before promotion has no stream.        *)
EXTENDS Naturals, FiniteSets

CONSTANTS
    Generations,    \* generation numbers; zero is rejected by StageGeneration
    Routes,         \* what a request can match; a table is a set of them
    Appliers,       \* goroutines handing tables over
    Leases,         \* stream leases
    MaximumStreams  \* maximumStreams: streams per generation

ASSUME GenerationsAssumption == Generations \subseteq Nat \ {0}
ASSUME LeasesAssumption == IsFiniteSet(Leases)
ASSUME StreamsAssumption == MaximumStreams \in Nat

NoGeneration == 0

Tables == SUBSET Routes

VARIABLES
    active,     \* the promoted generation, or NoGeneration
    pending,    \* the staged generation, or NoGeneration
    closed,
    rules,      \* generationState.rules, by generation
    ready,      \* generations with generationState.ready
    accepting,  \* generations with generationState.accepting
    streams,    \* generationState.streams, by generation
    cancelled,  \* generations whose context is cancelled
    drained,    \* generations whose drained channel is closed
    lease,      \* each lease: unused, held, or past release and marking
    op,         \* what each applier is doing
    confirmed   \* history: tables whose own readiness callback succeeded

registry == <<active, pending, closed, rules, ready, accepting, streams>>
vars == <<registry, cancelled, drained, lease, op, confirmed>>

LeaseState == [st : {"free", "held", "marking"}, gen : Generations \cup {NoGeneration}]
FreeLease == [st |-> "free", gen |-> NoGeneration]

OpState == [pc : {"idle", "probing", "marking", "activating", "retiring", "draining"},
            gen : Generations \cup {NoGeneration},
            tab : Tables,
            old : Generations \cup {NoGeneration}]
IdleOp == [pc |-> "idle", gen |-> NoGeneration, tab |-> {}, old |-> NoGeneration]

TypeOK ==
    /\ active \in Generations \cup {NoGeneration}
    /\ pending \in Generations \cup {NoGeneration}
    /\ closed \in BOOLEAN
    /\ rules \in [Generations -> Tables]
    /\ ready \subseteq Generations
    /\ accepting \subseteq Generations
    /\ streams \in [Generations -> Nat]
    /\ cancelled \subseteq Generations
    /\ drained \subseteq Generations
    /\ lease \in [Leases -> LeaseState]
    /\ op \in [Appliers -> OpState]
    /\ confirmed \subseteq Generations \X Tables

Init ==
    /\ active = NoGeneration
    /\ pending = NoGeneration
    /\ closed = FALSE
    /\ rules = [g \in Generations |-> {}]
    /\ ready = {}
    /\ accepting = {}
    /\ streams = [g \in Generations |-> 0]
    /\ cancelled = {}
    /\ drained = {}
    /\ lease = [l \in Leases |-> FreeLease]
    /\ op = [a \in Appliers |-> IdleOp]
    /\ confirmed = {}

-----------------------------------------------------------------------------
(* Staging *)

(* The table already holds this place: the call is idempotent. *)
AlreadyStaged(g, t) ==
    /\ ~closed
    /\ \/ active = g /\ rules[g] = t
       \/ active < g /\ pending = g /\ rules[g] = t

(* Nothing newer is staged or active: a fresh state takes the pending slot. *)
MayStage(g) == ~closed /\ active < g /\ pending < g

NewGenerationState(g, t) ==
    /\ rules' = [rules EXCEPT ![g] = t]
    /\ ready' = ready \ {g}
    /\ accepting' = accepting \ {g}
    /\ streams' = [streams EXCEPT ![g] = 0]
    /\ drained' = drained \ {g}
    \* The state it replaces in the pending slot is cancelled.
    /\ cancelled' = (cancelled \cup ({pending} \ {NoGeneration})) \ {g}

(* StageGeneration by an applier whose call is accepted. *)
StageGeneration(a, g, t) ==
    /\ op[a].pc = "idle"
    /\ \/ /\ MayStage(g)
          /\ pending' = g
          /\ NewGenerationState(g, t)
       \/ /\ AlreadyStaged(g, t)
          /\ UNCHANGED <<pending, rules, ready, accepting, streams, drained, cancelled>>
    /\ op' = [op EXCEPT ![a] = [IdleOp EXCEPT !.pc = "probing", !.gen = g, !.tab = t]]
    /\ UNCHANGED <<active, closed, lease, confirmed>>

(* The readiness callback confirms the table this applier staged. *)
ConfirmReady(a) ==
    /\ op[a].pc = "probing"
    /\ confirmed' = confirmed \cup {<<op[a].gen, op[a].tab>>}
    /\ op' = [op EXCEPT ![a].pc = "marking"]
    /\ UNCHANGED <<registry, cancelled, drained, lease>>

(* The route worker's readiness check fails: the table stays staged. *)
AbandonStaged(a) ==
    /\ op[a].pc = "probing"
    /\ op' = [op EXCEPT ![a] = IdleOp]
    /\ UNCHANGED <<registry, cancelled, drained, lease, confirmed>>

(* ApplyGeneration's callback fails: discardPending drops the staged state. *)
DiscardPending(a) ==
    /\ op[a].pc = "probing"
    /\ op' = [op EXCEPT ![a] = IdleOp]
    /\ IF pending = op[a].gen
         THEN /\ pending' = NoGeneration
              /\ cancelled' = cancelled \cup {pending}
         ELSE UNCHANGED <<pending, cancelled>>
    /\ UNCHANGED <<active, closed, rules, ready, accepting, streams, drained, lease, confirmed>>

-----------------------------------------------------------------------------
(* Promotion *)

MarkGenerationReady(a) ==
    /\ op[a].pc = "marking"
    /\ LET g == op[a].gen
           current == ~closed /\ g \in {active, pending}
       IN  /\ ready' = IF current /\ g # active THEN ready \cup {g} ELSE ready
           /\ op' = [op EXCEPT ![a] = IF current THEN [@ EXCEPT !.pc = "activating"] ELSE IdleOp]
    /\ UNCHANGED <<active, pending, closed, rules, accepting, streams, cancelled, drained, lease, confirmed>>

MayPromote(g) == ~closed /\ pending = g /\ g \in ready

(* Mutant: the retired state goes on accepting. *)
PromoteBesideOld(a) ==
    /\ op[a].pc = "activating"
    /\ MayPromote(op[a].gen)
    /\ active' = op[a].gen
    /\ pending' = NoGeneration
    /\ accepting' = accepting \cup {op[a].gen}
    /\ op' = [op EXCEPT ![a] = IdleOp]
    /\ UNCHANGED <<closed, rules, ready, streams, cancelled, drained, lease, confirmed>>

(* The critical section of ActivateGeneration for a ready pending state: it  *)
(* becomes the sole admission source; the state it retires is drained at     *)
(* once when it has no stream, or awaited.                                   *)
Promote(a) ==
    /\ op[a].pc = "activating"
    /\ MayPromote(op[a].gen)
    /\ active' = op[a].gen
    /\ pending' = NoGeneration
    /\ accepting' = (accepting \ {active}) \cup {op[a].gen}
    /\ op' = [op EXCEPT ![a] =
                IF active = NoGeneration THEN IdleOp
                ELSE [@ EXCEPT !.old = active,
                               !.pc = IF streams[active] = 0 THEN "retiring" ELSE "draining"]]
    /\ UNCHANGED <<closed, rules, ready, streams, cancelled, drained, lease, confirmed>>

(* ActivateGeneration returns without promoting: closed, already active,     *)
(* stale or not ready.                                                       *)
ActivateReturns(a) ==
    /\ op[a].pc = "activating"
    /\ ~MayPromote(op[a].gen)
    /\ op' = [op EXCEPT ![a] = IdleOp]
    /\ UNCHANGED <<registry, cancelled, drained, lease, confirmed>>

(* generationState.markDrained: close the channel, then cancel the context. *)
MarkDrained(g) ==
    /\ drained' = drained \cup {g}
    /\ cancelled' = cancelled \cup {g}

(* The retired state had no stream: marked drained outside the lock. *)
RetireImmediately(a) ==
    /\ op[a].pc = "retiring"
    /\ MarkDrained(op[a].old)
    /\ op' = [op EXCEPT ![a] = IdleOp]
    /\ UNCHANGED <<registry, lease, confirmed>>

DrainCompleted(a) ==
    /\ op[a].pc = "draining"
    /\ op[a].old \in drained
    /\ op' = [op EXCEPT ![a] = IdleOp]
    /\ UNCHANGED <<registry, cancelled, drained, lease, confirmed>>

(* Mutant: the drain ends without cancelling the retired generation. *)
DrainAbandoned(a) ==
    /\ op[a].pc = "draining"
    /\ op' = [op EXCEPT ![a] = IdleOp]
    /\ UNCHANGED <<registry, cancelled, drained, lease, confirmed>>

(* The drain timer fires or the caller's context ends. *)
DrainForced(a) ==
    /\ op[a].pc = "draining"
    /\ cancelled' = cancelled \cup {op[a].old}
    /\ op' = [op EXCEPT ![a] = IdleOp]
    /\ UNCHANGED <<registry, drained, lease, confirmed>>

(* Close cancels the pending and the active state. The active state stays    *)
(* accepting; a lease it still admits is closed by its own watcher.          *)
Close ==
    /\ ~closed
    /\ closed' = TRUE
    /\ cancelled' = cancelled \cup ({active, pending} \ {NoGeneration})
    /\ drained' = drained \cup ({active} \ {NoGeneration})
    /\ UNCHANGED <<active, pending, rules, ready, accepting, streams, lease, op, confirmed>>

-----------------------------------------------------------------------------
(* Streams *)

(* Mutant: whatever the table, the active generation answers. *)
MatchesAny(r) == active # NoGeneration /\ active \in accepting

(* Match under Acquire's lock: the active table decides while it accepts. *)
Matches(r) == active # NoGeneration /\ active \in accepting /\ r \in rules[active]

Acquire(l, r) ==
    /\ lease[l].st = "free"
    /\ Matches(r)
    /\ streams[active] < MaximumStreams
    /\ streams' = [streams EXCEPT ![active] = @ + 1]
    /\ lease' = [lease EXCEPT ![l] = [st |-> "held", gen |-> active]]
    /\ UNCHANGED <<active, pending, closed, rules, ready, accepting, cancelled, drained, op, confirmed>>

(* Mutant: the stream is not counted out. *)
ReleaseUncounted(l) ==
    /\ lease[l].st = "held"
    /\ lease' = [lease EXCEPT ![l] = FreeLease]
    /\ UNCHANGED <<registry, cancelled, drained, op, confirmed>>

(* StreamLease.Close up to the end of release's critical section. *)
Release(l) ==
    /\ lease[l].st = "held"
    /\ LET g == lease[l].gen
           left == IF streams[g] > 0 THEN streams[g] - 1 ELSE 0
       IN  /\ streams' = [streams EXCEPT ![g] = left]
           /\ lease' = [lease EXCEPT ![l] = IF g \notin accepting /\ left = 0
                                              THEN [@ EXCEPT !.st = "marking"]
                                              ELSE FreeLease]
    /\ UNCHANGED <<active, pending, closed, rules, ready, accepting, cancelled, drained, op, confirmed>>

(* The request ends or its holder closes the lease. *)
RequestEnds(l) == Release(l)

(* The lease's goroutine sees its generation cancelled and closes it. *)
WatcherCloses(l) == lease[l].gen \in cancelled /\ Release(l)

(* release found the retired state empty and marks it drained. *)
ReleaseMarks(l) ==
    /\ lease[l].st = "marking"
    /\ MarkDrained(lease[l].gen)
    /\ lease' = [lease EXCEPT ![l] = FreeLease]
    /\ UNCHANGED <<registry, op, confirmed>>

-----------------------------------------------------------------------------

ApplierStep(a) ==
    \/ MarkGenerationReady(a)
    \/ Promote(a)
    \/ ActivateReturns(a)
    \/ RetireImmediately(a)
    \/ DrainCompleted(a)
    \/ DrainForced(a)

Next ==
    \/ \E a \in Appliers, g \in Generations, t \in Tables : StageGeneration(a, g, t)
    \/ \E a \in Appliers : ConfirmReady(a) \/ AbandonStaged(a) \/ DiscardPending(a)
    \/ \E a \in Appliers : ApplierStep(a)
    \/ Close
    \/ \E l \in Leases, r \in Routes : Acquire(l, r)
    \/ \E l \in Leases : RequestEnds(l) \/ WatcherCloses(l) \/ ReleaseMarks(l)

Spec == Init /\ [][Next]_vars

(* Goroutines run: an applier inside the registry goes on (its drain timer    *)
(* fires), a lease's watcher sees a cancelled generation, and a release that  *)
(* found the generation empty marks it. Nothing obliges a request to end.     *)
Fairness ==
    /\ \A a \in Appliers : WF_vars(ApplierStep(a))
    /\ \A l \in Leases : WF_vars(WatcherCloses(l)) /\ WF_vars(ReleaseMarks(l))

FairSpec == Spec /\ Fairness

-----------------------------------------------------------------------------

Retired(g) == g # NoGeneration /\ g < active

Holding(g) == {l \in Leases : lease[l].st = "held" /\ lease[l].gen = g}

(* The stream counter of every generation is the number of leases that hold  *)
(* it, within the limit: Acquire, StreamLease.Close and the watcher goroutine *)
(* never count a lease twice or lose one across a handover.                   *)
StreamAccounting ==
    \A g \in Generations :
        /\ streams[g] = Cardinality(Holding(g))
        /\ streams[g] <= MaximumStreams

LeaseFenced(l) ==
    /\ lease[l].st = "held" => lease[l].gen # NoGeneration /\ lease[l].gen <= active
    /\ lease[l].st = "marking" => Retired(lease[l].gen) /\ Holding(lease[l].gen) = {}

ApplierFenced(a) ==
    /\ op[a].pc \in {"probing", "marking", "activating"} => op[a].gen # NoGeneration
    /\ op[a].pc \in {"retiring", "draining"} => Retired(op[a].old)
    /\ op[a].pc = "retiring" => Holding(op[a].old) = {}

DrainedFenced(g) ==
    \/ Retired(g) /\ Holding(g) = {}
    \/ closed /\ g = active

(* The handover in one invariant: only the active generation admits; what is  *)
(* staged is newer; a lease never belongs to a generation that was not        *)
(* promoted; and a state about to be marked drained, or already marked, is    *)
(* retired and empty (only Close marks the active one).                       *)
HandoverInvariant ==
    /\ accepting = {active} \ {NoGeneration}
    /\ pending # NoGeneration => active < pending
    /\ \A l \in Leases : LeaseFenced(l)
    /\ \A a \in Appliers : ApplierFenced(a)
    /\ \A g \in drained : DrainedFenced(g)

(* A table that serves requests is one whose own readiness callback           *)
(* succeeded ("The callback must confirm actual edge/origin readiness").      *)
ServesConfirmedTable ==
    active # NoGeneration => <<active, rules[active]>> \in confirmed

(* The abstract promise: generations serve one at a time and only forward, a  *)
(* lease stays with the generation that admitted it, and a retired            *)
(* generation reported drained is empty for ever. Close marks the active      *)
(* state drained without retiring it, so it is not counted as sealed.         *)
Serving == INSTANCE RouteServing WITH
    serving <- active,
    table <- IF active = NoGeneration THEN {} ELSE rules[active],
    held <- [l \in Leases |-> IF lease[l].st = "held" THEN lease[l].gen ELSE NoGeneration],
    sealed <- drained \ {active}

ImplementsServing == Serving!Spec

(* Every generation that is retired while streams hold it loses them in the   *)
(* end: they finish, or the drain is forced and the watchers close them.      *)
RetiredGenerationEmpties ==
    \A g \in Generations : (g < active) ~> (Holding(g) = {})

(* After Close every stream still held belongs to a cancelled generation in   *)
(* the end, also the ones of a generation Close itself never touches because  *)
(* it was draining at the time.                                               *)
CloseReachesEveryStream ==
    closed ~> (\A l \in Leases : lease[l].st = "held" => lease[l].gen \in cancelled)
=============================================================================
