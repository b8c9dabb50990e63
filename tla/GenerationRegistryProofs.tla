---------------------- MODULE GenerationRegistryProofs ----------------------
(* Proofs about GenerationRegistry for any sets of generations, routes,      *)
(* appliers and leases: its types, its stream accounting, the handover       *)
(* invariant, and that it implements RouteServing; and about RouteMatcher    *)
(* for any rules, hosts and paths: the table it stages has no conflict, and  *)
(* the rule it answers with is the best that matches.                        *)
EXTENDS GenerationRegistry, RouteMatcher, FiniteSetTheorems, TLAPS

(* The applier actions one by one: every lemma below has one case for each. *)
LEMMA NextCases ==
    ASSUME Next
    PROVE  \/ \E a \in Appliers, g \in Generations, t \in Tables : StageGeneration(a, g, t)
           \/ \E a \in Appliers : ConfirmReady(a)
           \/ \E a \in Appliers : AbandonStaged(a)
           \/ \E a \in Appliers : DiscardPending(a)
           \/ \E a \in Appliers : MarkGenerationReady(a)
           \/ \E a \in Appliers : Promote(a)
           \/ \E a \in Appliers : ActivateReturns(a)
           \/ \E a \in Appliers : RetireImmediately(a)
           \/ \E a \in Appliers : DrainCompleted(a)
           \/ \E a \in Appliers : DrainForced(a)
           \/ Close
           \/ \E l \in Leases, r \in Routes : Acquire(l, r)
           \/ \E l \in Leases : Release(l)
           \/ \E l \in Leases : ReleaseMarks(l)
  BY Zenon DEF Next, ApplierStep, RequestEnds, WatcherCloses

-----------------------------------------------------------------------------

LEMMA GenerationsNat == \A g \in Generations : g \in Nat /\ g # 0
  BY GenerationsAssumption, Zenon

(* The inductive invariant. *)
Inv == TypeOK /\ StreamAccounting /\ HandoverInvariant

LEMMA Constants ==
    /\ \A t : t \in Tables => [pc |-> "idle", gen |-> 0, tab |-> t, old |-> 0] \in OpState
    /\ IdleOp \in OpState
    /\ FreeLease \in LeaseState
  BY Zenon DEF OpState, IdleOp, LeaseState, FreeLease, Tables, NoGeneration

(* Every action of the registry keeps the variables in their types. *)
LEMMA TypeInductive ==
    ASSUME Inv, [Next]_vars
    PROVE  TypeOK'
<1> USE GenerationsAssumption, Constants DEF NoGeneration, Inv
<1>1. CASE UNCHANGED vars
  BY <1>1, Zenon DEF TypeOK, vars, registry
<1>2. ASSUME NEW a \in Appliers, NEW g \in Generations, NEW t \in Tables, StageGeneration(a, g, t)
      PROVE  TypeOK'
  <2>1. op' \in [Appliers -> OpState]
    BY <1>2, Zenon DEF TypeOK, StageGeneration, OpState, IdleOp
  <2>2. /\ pending' \in Generations \cup {NoGeneration}
        /\ rules' \in [Generations -> Tables]
        /\ ready' \subseteq Generations
        /\ accepting' \subseteq Generations
        /\ streams' \in [Generations -> Nat]
        /\ cancelled' \subseteq Generations
        /\ drained' \subseteq Generations
    BY <1>2 DEF TypeOK, StageGeneration, NewGenerationState
  <2> QED  BY <1>2, <2>1, <2>2, Zenon DEF TypeOK, StageGeneration
<1>3. ASSUME NEW a \in Appliers, ConfirmReady(a)
      PROVE  TypeOK'
  <2>1. op[a].gen \in Generations /\ op[a].tab \in Tables
    BY <1>3, Zenon DEF TypeOK, OpState, HandoverInvariant, ApplierFenced, ConfirmReady
  <2> QED  BY <1>3, <2>1 DEF TypeOK, ConfirmReady, registry, OpState
<1>4. ASSUME NEW a \in Appliers, AbandonStaged(a) \/ ActivateReturns(a)
      PROVE  TypeOK'
  BY <1>4, Zenon DEF TypeOK, AbandonStaged, ActivateReturns, registry
<1>5. ASSUME NEW a \in Appliers, DiscardPending(a)
      PROVE  TypeOK'
  <2>1. op' \in [Appliers -> OpState]
    BY <1>5, Zenon DEF TypeOK, DiscardPending
  <2> QED  BY <1>5, <2>1, Zenon DEF TypeOK, DiscardPending, HandoverInvariant, ApplierFenced
<1>6. ASSUME NEW a \in Appliers, MarkGenerationReady(a)
      PROVE  TypeOK'
  <2>1. op[a].gen \in Generations
    BY <1>6, Zenon DEF TypeOK, OpState, HandoverInvariant, ApplierFenced, MarkGenerationReady
  <2>2. [op[a] EXCEPT !.pc = "activating"] \in OpState
    BY DEF TypeOK, OpState
  <2>3. op' \in [Appliers -> OpState]
    BY <1>6, <2>2, Zenon DEF TypeOK, MarkGenerationReady
  <2> QED  BY <1>6, <2>1, <2>3, Zenon DEF TypeOK, MarkGenerationReady
<1>7. ASSUME NEW a \in Appliers, Promote(a)
      PROVE  TypeOK'
  <2>1. op[a].gen \in Generations
    BY <1>7, Zenon DEF TypeOK, OpState, HandoverInvariant, ApplierFenced, Promote
  <2>2. ASSUME NEW p \in {"retiring", "draining"}
        PROVE  [op[a] EXCEPT !.old = active, !.pc = p] \in OpState
    <3>1. op[a] \in OpState /\ active \in Generations \cup {NoGeneration}
      BY Zenon DEF TypeOK
    <3> QED  BY <3>1, Zenon DEF OpState
  <2>3. op' \in [Appliers -> OpState]
    BY <1>7, <2>2, Zenon DEF TypeOK, Promote
  <2> QED  BY <1>7, <2>1, <2>3, Zenon DEF TypeOK, Promote
<1>8. ASSUME NEW a \in Appliers, RetireImmediately(a) \/ DrainCompleted(a) \/ DrainForced(a)
      PROVE  TypeOK'
  <2>1. op[a].old \in Generations
    BY <1>8, Zenon DEF TypeOK, OpState, HandoverInvariant, ApplierFenced, Retired, RetireImmediately, DrainCompleted, DrainForced
  <2>2. op' \in [Appliers -> OpState]
    BY <1>8, Zenon DEF TypeOK, RetireImmediately, DrainCompleted, DrainForced
  <2> QED
    BY <1>8, <2>1, <2>2, Zenon DEF TypeOK, RetireImmediately, DrainCompleted, DrainForced, MarkDrained, registry
<1>9. CASE Close
  BY <1>9, Zenon DEF TypeOK, Close
<1>10. ASSUME NEW l \in Leases, NEW r \in Routes, Acquire(l, r)
       PROVE  TypeOK'
  <2>1. active \in Generations /\ streams[active] \in Nat
    BY <1>10, Zenon DEF TypeOK, Acquire, Matches
  <2>2. [st |-> "held", gen |-> active] \in LeaseState
    BY <2>1, Zenon DEF LeaseState
  <2> QED  BY <1>10, <2>1, <2>2 DEF TypeOK, Acquire
<1>11. ASSUME NEW l \in Leases, Release(l)
       PROVE  TypeOK'
  <2>1. lease[l].gen \in Generations
    BY <1>11, Zenon DEF TypeOK, LeaseState, HandoverInvariant, LeaseFenced, Release
  <2>2. [lease[l] EXCEPT !.st = "marking"] \in LeaseState
    BY Zenon DEF TypeOK, LeaseState
  <2>3. lease' \in [Leases -> LeaseState]
    BY <1>11, <2>2, Zenon DEF TypeOK, Release
  <2>4. streams' \in [Generations -> Nat]
    BY <1>11, <2>1 DEF TypeOK, Release
  <2> QED  BY <1>11, <2>3, <2>4, Zenon DEF TypeOK, Release
<1>12. ASSUME NEW l \in Leases, ReleaseMarks(l)
       PROVE  TypeOK'
  <2>1. lease[l].gen \in Generations
    BY <1>12, Zenon DEF TypeOK, LeaseState, HandoverInvariant, LeaseFenced, Retired, ReleaseMarks
  <2> QED  BY <1>12, <2>1, Zenon DEF TypeOK, ReleaseMarks, MarkDrained, registry
<1> QED  BY <1>1, <1>2, <1>3, <1>4, <1>5, <1>6, <1>7, <1>8, <1>9, <1>10, <1>11, <1>12, NextCases, Zenon

-----------------------------------------------------------------------------
(* Leases and counters *)

(* A generation's stream counter is zero exactly when no lease holds it. *)
LEMMA HoldingFinite ==
    ASSUME NEW g
    PROVE  /\ IsFiniteSet(Holding(g))
           /\ Cardinality(Holding(g)) = 0 <=> Holding(g) = {}
<1>1. Holding(g) \in SUBSET Leases
  BY Zenon DEF Holding
<1> QED  BY <1>1, FS_Subset, FS_EmptySet, LeasesAssumption, Zenon

(* A generation that was never promoted is held by no lease. *)
LEMMA UnpromotedUnheld ==
    ASSUME Inv, NEW g \in Generations, active < g
    PROVE  Holding(g) = {}
<1> SUFFICES ASSUME NEW l \in Leases, lease[l].st = "held", lease[l].gen = g
             PROVE  FALSE
  BY Zenon DEF Holding
<1>1. g <= active /\ active \in Nat /\ g \in Nat
  BY GenerationsAssumption DEF Inv, TypeOK, HandoverInvariant, LeaseFenced, NoGeneration
<1> QED  BY <1>1

(* What Acquire does to the holders of each generation. *)
LEMMA AcquireHolding ==
    ASSUME Inv, NEW l \in Leases, NEW r \in Routes, Acquire(l, r)
    PROVE  /\ active \in Generations
           /\ \A g \in Generations : l \notin Holding(g)
           /\ \A g \in Generations :
                 Holding(g)' = IF g = active THEN Holding(g) \cup {l} ELSE Holding(g)
<1>1. /\ active \in Generations
      /\ active' = active
      /\ lease[l].st = "free"
      /\ lease' = [lease EXCEPT ![l] = [st |-> "held", gen |-> active]]
      /\ lease \in [Leases -> LeaseState]
  BY Zenon DEF Inv, TypeOK, Acquire, Matches
<1> QED  BY <1>1, Zenon DEF Holding

(* What Release does to the holders of each generation. *)
LEMMA ReleaseHolding ==
    ASSUME Inv, NEW l \in Leases, Release(l)
    PROVE  /\ lease[l].gen \in Generations
           /\ \A g \in Generations : g = lease[l].gen => l \in Holding(g)
           /\ \A g \in Generations :
                 Holding(g)' = IF g = lease[l].gen THEN Holding(g) \ {l} ELSE Holding(g)
<1>1. /\ lease[l].gen \in Generations
      /\ lease[l].st = "held"
      /\ lease \in [Leases -> LeaseState]
  BY Zenon DEF Inv, TypeOK, LeaseState, HandoverInvariant, LeaseFenced, Release
<1>2. /\ lease'[l].st # "held"
      /\ \A k \in Leases : k # l => lease'[k] = lease[k]
  BY <1>1 DEF Release, FreeLease
<1> QED  BY <1>1, <1>2, Zenon DEF Holding

(* The other actions change no holder. *)
LEMMA OtherHolding ==
    ASSUME Inv, NEW g, UNCHANGED lease \/ \E l \in Leases : ReleaseMarks(l)
    PROVE  Holding(g)' = Holding(g)
<1>1. CASE UNCHANGED lease
  BY <1>1, Zenon DEF Holding
<1>2. ASSUME NEW l \in Leases, ReleaseMarks(l)
      PROVE  Holding(g)' = Holding(g)
  <2>1. /\ lease \in [Leases -> LeaseState]
        /\ lease[l].st = "marking"
        /\ lease' = [lease EXCEPT ![l] = FreeLease]
    BY <1>2, Zenon DEF Inv, TypeOK, ReleaseMarks
  <2>2. /\ lease'[l].st # "held"
        /\ \A k \in Leases : k # l => lease'[k] = lease[k]
    BY <2>1, Zenon DEF FreeLease
  <2> QED  BY <2>1, <2>2, Zenon DEF Holding
<1> QED  BY <1>1, <1>2, Zenon

(* Every step keeps the stream counters equal to the leases that hold them. *)
LEMMA AccountingInductive ==
    ASSUME Inv, [Next]_vars
    PROVE  StreamAccounting'
<1> USE GenerationsAssumption, StreamsAssumption
<1>1. SUFFICES ASSUME NEW h \in Generations
               PROVE  streams'[h] = Cardinality(Holding(h)') /\ streams'[h] <= MaximumStreams
  BY Zenon DEF StreamAccounting
<1>2. /\ streams[h] = Cardinality(Holding(h))
      /\ streams[h] <= MaximumStreams
      /\ streams \in [Generations -> Nat]
      /\ streams[h] \in Nat
  BY Zenon DEF Inv, StreamAccounting, TypeOK
<1>f. IsFiniteSet(Holding(h)) /\ (Cardinality(Holding(h)) = 0 <=> Holding(h) = {})
  BY HoldingFinite, Zenon
<1>3. CASE UNCHANGED streams /\ (UNCHANGED lease \/ \E l \in Leases : ReleaseMarks(l))
  BY <1>2, <1>3, OtherHolding, Zenon
<1>4. ASSUME NEW a \in Appliers, NEW g \in Generations, NEW t \in Tables, StageGeneration(a, g, t)
      PROVE  streams'[h] = Cardinality(Holding(h)') /\ streams'[h] <= MaximumStreams
  <2>1. UNCHANGED lease
    BY <1>4, Zenon DEF StageGeneration
  <2>2. CASE UNCHANGED streams
    BY <1>3, <2>1, <2>2, Zenon
  <2>3. CASE MayStage(g) /\ NewGenerationState(g, t)
    <3>1. Cardinality(Holding(g)) = 0
      BY <2>3, UnpromotedUnheld, HoldingFinite, Zenon DEF MayStage
    <3>2. streams'[h] = IF h = g THEN 0 ELSE streams[h]
      BY <1>2, <2>3, Zenon DEF NewGenerationState
    <3> QED  BY <1>2, <2>1, <3>1, <3>2, OtherHolding, Zenon
  <2> QED  BY <1>4, <2>2, <2>3, Zenon DEF StageGeneration
<1>5. ASSUME NEW l \in Leases, NEW r \in Routes, Acquire(l, r)
      PROVE  streams'[h] = Cardinality(Holding(h)') /\ streams'[h] <= MaximumStreams
  <2>1. CASE h = active
    <3>1. /\ Holding(h)' = Holding(h) \cup {l}
          /\ l \notin Holding(h)
      BY <1>5, <2>1, AcquireHolding, Zenon
    <3>2. Cardinality(Holding(h)') = Cardinality(Holding(h)) + 1
      BY <1>f, <3>1, FS_AddElement, Zenon
    <3>3. streams'[h] = streams[h] + 1 /\ streams[h] < MaximumStreams
      BY <1>2, <1>5, <2>1, Zenon DEF Acquire
    <3> QED  BY <1>2, <3>2, <3>3
  <2>2. CASE h # active
    BY <1>2, <1>5, <2>2, AcquireHolding, Zenon DEF Acquire
  <2> QED  BY <2>1, <2>2, Zenon
<1>6. ASSUME NEW l \in Leases, Release(l)
      PROVE  streams'[h] = Cardinality(Holding(h)') /\ streams'[h] <= MaximumStreams
  <2>1. CASE h = lease[l].gen
    <3>1. /\ Holding(h)' = Holding(h) \ {l}
          /\ l \in Holding(h)
      BY <1>6, <2>1, ReleaseHolding, Zenon
    <3>2. Cardinality(Holding(h)') = Cardinality(Holding(h)) - 1
      <4>1. Cardinality(Holding(h) \ {l}) = Cardinality(Holding(h)) - 1
        BY <1>f, <3>1, FS_RemoveElement, Zenon
      <4> QED  BY <3>1, <4>1, Zenon
    <3>3. Cardinality(Holding(h)) # 0
      BY <1>f, <3>1, Zenon
    <3>4. streams'[h] = IF streams[h] > 0 THEN streams[h] - 1 ELSE 0
      BY <1>2, <1>6, <2>1, Zenon DEF Release
    <3> QED  BY <1>2, <3>2, <3>3, <3>4
  <2>2. CASE h # lease[l].gen
    BY <1>2, <1>6, <2>2, ReleaseHolding, Zenon DEF Release
  <2> QED  BY <2>1, <2>2, Zenon
<1>7. ASSUME NEW a \in Appliers,
             \/ ConfirmReady(a) \/ AbandonStaged(a) \/ DiscardPending(a)
             \/ MarkGenerationReady(a) \/ Promote(a) \/ ActivateReturns(a)
             \/ RetireImmediately(a) \/ DrainCompleted(a) \/ DrainForced(a)
      PROVE  UNCHANGED <<streams, lease>>
  BY <1>7, Zenon DEF ConfirmReady, AbandonStaged, DiscardPending, MarkGenerationReady, Promote,
              ActivateReturns, RetireImmediately, DrainCompleted, DrainForced, registry
<1>8. CASE Close
  BY <1>3, <1>8, Zenon DEF Close
<1>9. ASSUME NEW l \in Leases, ReleaseMarks(l)
      PROVE  UNCHANGED streams
  BY <1>9, Zenon DEF ReleaseMarks, registry
<1>10. CASE UNCHANGED vars
  BY <1>3, <1>10, Zenon DEF vars, registry
<1> QED  BY <1>3, <1>4, <1>5, <1>6, <1>7, <1>8, <1>9, <1>10, NextCases, Zenon

-----------------------------------------------------------------------------
(* The handover *)

(* Every action but Promote leaves the active generation alone. *)
LEMMA ActiveUnchanged ==
    ASSUME [Next]_vars, ~\E a \in Appliers : Promote(a)
    PROVE  active' = active
  BY NextCases, Zenon DEF vars, registry, StageGeneration, ConfirmReady, AbandonStaged, DiscardPending,
       MarkGenerationReady, ActivateReturns, RetireImmediately, DrainCompleted, DrainForced,
       Close, Acquire, Release, ReleaseMarks

(* Promotion moves to the pending generation, which is newer. *)
LEMMA PromoteForward ==
    ASSUME Inv, NEW a \in Appliers, Promote(a)
    PROVE  /\ active' = op[a].gen
           /\ active' \in Generations
           /\ active < active'
           /\ ~closed
           /\ UNCHANGED <<lease, closed, drained>>
  BY GenerationsAssumption, Zenon
  DEF Inv, TypeOK, OpState, HandoverInvariant, ApplierFenced, Promote, MayPromote, NoGeneration

(* The active generation only moves forward. *)
LEMMA ActiveForward ==
    ASSUME Inv, [Next]_vars
    PROVE  active \in Nat /\ active' \in Nat /\ active <= active'
<1>1. active \in Nat
  BY GenerationsAssumption DEF Inv, TypeOK, NoGeneration
<1>2. CASE \E a \in Appliers : Promote(a)
  <2>1. PICK a \in Appliers : Promote(a)
    BY <1>2, Zenon
  <2>2. active' \in Generations /\ active < active'
    BY <2>1, PromoteForward, Zenon
  <2> QED  BY <1>1, <2>2, GenerationsAssumption
<1>3. CASE ~\E a \in Appliers : Promote(a)
  BY <1>1, <1>3, ActiveUnchanged
<1> QED  BY <1>2, <1>3, Zenon

(* A lease is taken only from the active generation: the holders of another   *)
(* one never grow.                                                            *)
LEMMA HoldingShrinks ==
    ASSUME Inv, [Next]_vars, NEW g \in Generations, g # active
    PROVE  Holding(g)' \subseteq Holding(g)
<1>1. ASSUME NEW l \in Leases, NEW r \in Routes, Acquire(l, r)
      PROVE  Holding(g)' = Holding(g)
  BY <1>1, AcquireHolding, Zenon
<1>2. ASSUME NEW l \in Leases, Release(l)
      PROVE  Holding(g)' \subseteq Holding(g)
  BY <1>2, ReleaseHolding, Zenon
<1>3. CASE UNCHANGED lease \/ \E l \in Leases : ReleaseMarks(l)
  BY <1>3, OtherHolding, Zenon
<1>4. \/ UNCHANGED lease
      \/ \E l \in Leases, r \in Routes : Acquire(l, r)
      \/ \E l \in Leases : Release(l)
      \/ \E l \in Leases : ReleaseMarks(l)
  BY NextCases, Zenon DEF vars, registry, StageGeneration, ConfirmReady, AbandonStaged, DiscardPending,
       MarkGenerationReady, Promote, ActivateReturns, RetireImmediately, DrainCompleted,
       DrainForced, Close
<1> QED  BY <1>1, <1>2, <1>3, <1>4, Zenon

(* A retired generation stays retired, and stays empty once it is. *)
LEMMA RetiredStays ==
    ASSUME Inv, [Next]_vars, NEW g \in Generations, Retired(g)
    PROVE  /\ Retired(g)'
           /\ Holding(g) = {} => Holding(g)' = {}
<1>1. g # active /\ g \in Nat
  BY GenerationsAssumption DEF Retired, Inv, TypeOK, NoGeneration
<1>2. Retired(g)'
  BY <1>1, ActiveForward DEF Retired
<1>3. Holding(g)' \subseteq Holding(g)
  BY <1>1, HoldingShrinks, Zenon
<1> QED  BY <1>2, <1>3, Zenon

(* What justified a closed drained channel goes on justifying it. *)
LEMMA DrainedStays ==
    ASSUME Inv, [Next]_vars, NEW g \in Generations, DrainedFenced(g)
    PROVE  DrainedFenced(g)'
<1>1. CASE Retired(g) /\ Holding(g) = {}
  BY <1>1, RetiredStays, Zenon DEF DrainedFenced
<1>2. CASE closed /\ g = active
  <2>1. ~\E a \in Appliers : Promote(a)
    BY <1>2, Zenon DEF Promote, MayPromote
  <2>2. closed'
    BY <1>2, NextCases, Zenon
    DEF vars, registry, StageGeneration, ConfirmReady, AbandonStaged, DiscardPending,
        MarkGenerationReady, Promote, ActivateReturns, RetireImmediately, DrainCompleted,
        DrainForced, Close, Acquire, Release, ReleaseMarks
  <2> QED  BY <1>2, <2>1, <2>2, ActiveUnchanged, Zenon DEF DrainedFenced
<1> QED  BY <1>1, <1>2, Zenon DEF DrainedFenced

(* A lease's release that finds the retired state empty. *)
LEMMA ReleaseEmpties ==
    ASSUME Inv, [Next]_vars, NEW l \in Leases, Release(l), lease'[l].st = "marking"
    PROVE  /\ lease'[l].gen = lease[l].gen
           /\ Retired(lease[l].gen)
           /\ \A g \in Generations : g = lease[l].gen => Holding(g)' = {}
<1>0. /\ lease \in [Leases -> LeaseState]
      /\ streams \in [Generations -> Nat]
      /\ active \in Generations \cup {0}
      /\ accepting = {active} \ {0}
  BY Zenon DEF Inv, TypeOK, HandoverInvariant, NoGeneration
<1>1. lease[l].gen \in Generations /\ lease[l].gen <= active
  BY ReleaseHolding, Zenon DEF Inv, HandoverInvariant, LeaseFenced, Release
<1>2. /\ lease'[l].gen = lease[l].gen
      /\ lease[l].gen \notin accepting
      /\ streams'[lease[l].gen] = 0
  BY <1>0, <1>1 DEF Release, FreeLease
<1>3. Retired(lease[l].gen)
  <2>1. lease[l].gen \in Nat \ {0} /\ active \in Nat
    BY <1>0, <1>1, GenerationsNat
  <2>2. lease[l].gen # active
    BY <1>0, <1>2, <2>1, Zenon
  <2> QED  BY <1>1, <2>1, <2>2 DEF Retired, NoGeneration
<1>4. ASSUME NEW g \in Generations, g = lease[l].gen
      PROVE  Holding(g)' = {}
  <2>1. Cardinality(Holding(g)') = 0
    BY <1>2, <1>4, AccountingInductive, Zenon DEF StreamAccounting
  <2>2. IsFiniteSet(Holding(g))
    BY HoldingFinite, Zenon
  <2>3. Holding(g)' = Holding(g) \ {l}
    BY <1>4, ReleaseHolding, Zenon
  <2> QED  BY <2>1, <2>2, <2>3, FS_RemoveElement, FS_EmptySet, Zenon
<1> QED  BY <1>2, <1>3, <1>4, Zenon

(* Leases stay fenced to promoted generations. *)
LEMMA LeaseFencedInductive ==
    ASSUME Inv, [Next]_vars, NEW k \in Leases
    PROVE  LeaseFenced(k)'
<1>a. /\ lease \in [Leases -> LeaseState]
      /\ LeaseFenced(k)
  BY Zenon DEF Inv, TypeOK, HandoverInvariant
<1>b. lease[k].gen \in Nat
  <2>1. lease[k].gen \in Generations \cup {NoGeneration}
    BY <1>a, Zenon DEF LeaseState
  <2> QED  BY <2>1, GenerationsNat DEF NoGeneration
<1>0. /\ lease \in [Leases -> LeaseState]
      /\ LeaseFenced(k)
      /\ active \in Nat /\ active' \in Nat /\ active <= active'
      /\ lease[k].gen \in Nat
  BY <1>a, <1>b, ActiveForward, Zenon
<1>1. CASE lease'[k] = lease[k]
  <2>1. CASE lease[k].st = "marking"
    <3>1. lease[k].gen \in Generations /\ Retired(lease[k].gen) /\ Holding(lease[k].gen) = {}
      BY <1>0, <2>1, Zenon DEF LeaseFenced, Retired, Inv, TypeOK, LeaseState
    <3>2. PICK g \in Generations : g = lease[k].gen
      BY <3>1, Zenon
    <3>3. Retired(g) /\ Holding(g) = {}
      BY <3>1, <3>2, Zenon DEF Retired, Holding
    <3>4. Retired(g)' /\ Holding(g)' = {}
      BY <3>3, RetiredStays, Zenon
    <3> QED  BY <1>1, <2>1, <3>2, <3>4, Zenon DEF LeaseFenced, Retired, Holding
  <2>2. CASE lease[k].st # "marking"
    BY <1>0, <1>1, <2>2 DEF LeaseFenced
  <2> QED  BY <2>1, <2>2, Zenon
<1>2. ASSUME NEW l \in Leases, NEW r \in Routes, Acquire(l, r)
      PROVE  LeaseFenced(k)'
  <2>1. lease' = [lease EXCEPT ![l] = [st |-> "held", gen |-> active]] /\ active # NoGeneration
    BY <1>2, Zenon DEF Acquire, Matches
  <2>2. CASE k = l
    BY <1>0, <2>1, <2>2, Zenon DEF LeaseFenced
  <2>3. CASE k # l
    BY <1>0, <1>1, <2>1, <2>3, Zenon
  <2> QED  BY <2>2, <2>3, Zenon
<1>3. ASSUME NEW l \in Leases, Release(l)
      PROVE  LeaseFenced(k)'
  <2>1. k # l => lease'[k] = lease[k]
    BY <1>0, <1>3, Zenon DEF Release
  <2>2. lease'[l].st \in {"free", "marking"}
    BY <1>0, <1>3 DEF Release, FreeLease
  <2>3. CASE k = l /\ lease'[l].st = "free"
    BY <2>3, Zenon DEF LeaseFenced
  <2>4. CASE k = l /\ lease'[l].st = "marking"
    <3>1. PICK g \in Generations : g = lease[l].gen
      BY <1>3, ReleaseHolding, Zenon
    <3>2. Retired(g) /\ Holding(g)' = {} /\ lease'[l].gen = g
      BY <1>3, <2>4, <3>1, ReleaseEmpties, Zenon DEF Retired
    <3>3. Retired(g)'
      BY <3>2, RetiredStays, Zenon
    <3> QED  BY <2>4, <3>2, <3>3, Zenon DEF LeaseFenced, Retired, Holding
  <2> QED  BY <1>1, <2>1, <2>2, <2>3, <2>4, Zenon
<1>4. ASSUME NEW l \in Leases, ReleaseMarks(l)
      PROVE  LeaseFenced(k)'
  <2>1. lease' = [lease EXCEPT ![l] = FreeLease]
    BY <1>4, Zenon DEF ReleaseMarks
  <2>2. CASE k = l
    BY <1>0, <2>1, <2>2, Zenon DEF LeaseFenced, FreeLease
  <2>3. CASE k # l
    BY <1>0, <1>1, <2>1, <2>3, Zenon
  <2> QED  BY <2>2, <2>3, Zenon
<1>5. \/ UNCHANGED lease
      \/ \E l \in Leases, r \in Routes : Acquire(l, r)
      \/ \E l \in Leases : Release(l)
      \/ \E l \in Leases : ReleaseMarks(l)
  BY NextCases, Zenon DEF vars, registry, StageGeneration, ConfirmReady, AbandonStaged, DiscardPending,
       MarkGenerationReady, Promote, ActivateReturns, RetireImmediately, DrainCompleted,
       DrainForced, Close
<1> QED  BY <1>1, <1>2, <1>3, <1>4, <1>5, Zenon

(* Appliers drain only retired generations, and retire at once only empty ones. *)
LEMMA ApplierFencedInductive ==
    ASSUME Inv, [Next]_vars, NEW b \in Appliers
    PROVE  ApplierFenced(b)'
<1>0. /\ op \in [Appliers -> OpState]
      /\ op[b] \in OpState
      /\ ApplierFenced(b)
  BY Zenon DEF Inv, TypeOK, HandoverInvariant
<1>1. CASE op'[b] = op[b]
  <2>1. CASE op[b].pc \in {"retiring", "draining"}
    <3>1. Retired(op[b].old) /\ (op[b].pc = "retiring" => Holding(op[b].old) = {})
      BY <1>0, <2>1, Zenon DEF ApplierFenced
    <3>2. PICK g \in Generations : g = op[b].old
      BY <1>0, <3>1, Zenon DEF Retired, OpState
    <3>3. Retired(g) /\ (op[b].pc = "retiring" => Holding(g) = {})
      BY <3>1, <3>2, Zenon DEF Retired, Holding
    <3>4. Retired(g)' /\ (op[b].pc = "retiring" => Holding(g)' = {})
      BY <3>3, RetiredStays, Zenon
    <3> QED  BY <1>1, <2>1, <3>2, <3>4, Zenon DEF ApplierFenced, Retired, Holding
  <2>2. CASE op[b].pc \notin {"retiring", "draining"}
    BY <1>0, <1>1, <2>2, Zenon DEF ApplierFenced
  <2> QED  BY <2>1, <2>2, Zenon
<1>2. CASE op'[b] = IdleOp
  BY <1>2 DEF ApplierFenced, IdleOp
<1>3. ASSUME NEW g \in Generations, NEW t \in Tables, StageGeneration(b, g, t)
      PROVE  ApplierFenced(b)'
  <2>1. op'[b] = [IdleOp EXCEPT !.pc = "probing", !.gen = g, !.tab = t]
    BY <1>0, <1>3, Zenon DEF StageGeneration
  <2>2. op'[b].pc = "probing" /\ op'[b].gen = g
    BY <2>1, Zenon DEF IdleOp
  <2> QED  BY <2>2, GenerationsNat, Zenon DEF ApplierFenced, NoGeneration
<1>4. CASE ConfirmReady(b) \/ MarkGenerationReady(b)
  <2>1. /\ op'[b].pc \in {"marking", "activating"} => op'[b].gen # NoGeneration
        /\ op'[b].pc \in {"marking", "activating", "idle"}
    BY <1>0, <1>4 DEF ApplierFenced, ConfirmReady, MarkGenerationReady, OpState, IdleOp
  <2> QED  BY <2>1, Zenon DEF ApplierFenced
<1>5. CASE Promote(b)
  <2>1. active' \in Generations /\ active < active' /\ UNCHANGED lease
    BY <1>5, PromoteForward, Zenon
  <2>2. CASE active = NoGeneration
    BY <1>0, <1>2, <1>5, <2>2, Zenon DEF Promote
  <2>3. CASE active # NoGeneration
    <3>1. /\ op'[b].old = active
          /\ op'[b].pc = IF streams[active] = 0 THEN "retiring" ELSE "draining"
      BY <1>0, <1>5, <2>3, Zenon DEF Promote, OpState
    <3>2. PICK g \in Generations : g = active
      BY <2>3, Zenon DEF Inv, TypeOK
    <3>3. streams[g] = Cardinality(Holding(g))
      BY Zenon DEF Inv, StreamAccounting
    <3>4. streams[g] = 0 => Holding(g)' = {}
      BY <2>1, <3>3, HoldingFinite, OtherHolding, Zenon
    <3>5. Retired(g)'
      BY <2>1, <2>3, <3>2, Zenon DEF Retired
    <3> QED  BY <3>1, <3>2, <3>4, <3>5, Zenon DEF ApplierFenced, Retired, Holding
  <2> QED  BY <2>2, <2>3, Zenon
<1>6. CASE \/ AbandonStaged(b) \/ DiscardPending(b) \/ ActivateReturns(b)
           \/ RetireImmediately(b) \/ DrainCompleted(b) \/ DrainForced(b)
  BY <1>0, <1>2, <1>6, Zenon
  DEF AbandonStaged, DiscardPending, ActivateReturns, RetireImmediately, DrainCompleted, DrainForced
<1>7. ASSUME NEW a \in Appliers, a # b,
             \/ \E g \in Generations, t \in Tables : StageGeneration(a, g, t)
             \/ ConfirmReady(a) \/ AbandonStaged(a) \/ DiscardPending(a)
             \/ MarkGenerationReady(a) \/ Promote(a) \/ ActivateReturns(a)
             \/ RetireImmediately(a) \/ DrainCompleted(a) \/ DrainForced(a)
      PROVE  op'[b] = op[b]
  BY <1>0, <1>7, Zenon
  DEF StageGeneration, ConfirmReady, AbandonStaged, DiscardPending, MarkGenerationReady, Promote,
      ActivateReturns, RetireImmediately, DrainCompleted, DrainForced
<1>8. ASSUME \/ UNCHANGED vars
             \/ Close
             \/ \E l \in Leases, r \in Routes : Acquire(l, r)
             \/ \E l \in Leases : Release(l)
             \/ \E l \in Leases : ReleaseMarks(l)
      PROVE  op' = op
  BY <1>8, Zenon DEF vars, Close, Acquire, Release, ReleaseMarks
<1> QED  BY <1>1, <1>3, <1>4, <1>5, <1>6, <1>7, <1>8, NextCases, Zenon

(* The drained channel is closed only for a retired, empty state, or by Close. *)
LEMMA DrainedFencedInductive ==
    ASSUME Inv, [Next]_vars, NEW h \in Generations, h \in drained'
    PROVE  DrainedFenced(h)'
<1>1. CASE h \in drained
  BY <1>1, DrainedStays, Zenon DEF Inv, HandoverInvariant
<1>2. ASSUME NEW a \in Appliers, RetireImmediately(a), h = op[a].old
      PROVE  DrainedFenced(h)'
  <2>1. Retired(h) /\ Holding(h) = {}
    BY <1>2, Zenon DEF Inv, HandoverInvariant, ApplierFenced, RetireImmediately, Retired, Holding
  <2> QED  BY <2>1, RetiredStays, Zenon DEF DrainedFenced
<1>3. ASSUME NEW l \in Leases, ReleaseMarks(l), h = lease[l].gen
      PROVE  DrainedFenced(h)'
  <2>1. Retired(h) /\ Holding(h) = {}
    BY <1>3, Zenon DEF Inv, HandoverInvariant, LeaseFenced, ReleaseMarks, Retired, Holding
  <2> QED  BY <2>1, RetiredStays, Zenon DEF DrainedFenced
<1>4. CASE Close /\ h = active
  BY <1>4, Zenon DEF Close, DrainedFenced
<1>5. \/ h \in drained
      \/ \E a \in Appliers : RetireImmediately(a) /\ h = op[a].old
      \/ \E l \in Leases : ReleaseMarks(l) /\ h = lease[l].gen
      \/ Close /\ h = active
  <2>1. ASSUME NEW a \in Appliers, NEW g \in Generations, NEW t \in Tables, StageGeneration(a, g, t)
        PROVE  h \in drained
    BY <2>1, Zenon DEF StageGeneration, NewGenerationState
  <2>2. ASSUME NEW a \in Appliers,
               \/ ConfirmReady(a) \/ AbandonStaged(a) \/ DiscardPending(a) \/ MarkGenerationReady(a)
               \/ Promote(a) \/ ActivateReturns(a) \/ DrainCompleted(a) \/ DrainForced(a)
        PROVE  h \in drained
    BY <2>2, Zenon DEF ConfirmReady, AbandonStaged, DiscardPending, MarkGenerationReady, Promote,
                ActivateReturns, DrainCompleted, DrainForced
  <2>3. ASSUME NEW a \in Appliers, RetireImmediately(a)
        PROVE  h \in drained \/ h = op[a].old
    BY <2>3, Zenon DEF RetireImmediately, MarkDrained
  <2>4. ASSUME NEW l \in Leases, ReleaseMarks(l)
        PROVE  h \in drained \/ h = lease[l].gen
    BY <2>4, Zenon DEF ReleaseMarks, MarkDrained
  <2>5. ASSUME Close
        PROVE  h \in drained \/ h = active
    BY <2>5, Zenon DEF Close
  <2>6. ASSUME \/ UNCHANGED vars
               \/ \E l \in Leases, r \in Routes : Acquire(l, r)
               \/ \E l \in Leases : Release(l)
        PROVE  h \in drained
    BY <2>6, Zenon DEF vars, Acquire, Release
  <2> QED  BY <2>1, <2>2, <2>3, <2>4, <2>5, <2>6, NextCases, Zenon
<1> QED  BY <1>1, <1>2, <1>3, <1>4, <1>5, Zenon

(* One admission source, and only newer generations staged. *)
LEMMA AdmissionInductive ==
    ASSUME Inv, [Next]_vars
    PROVE  /\ accepting' = {active'} \ {NoGeneration}
           /\ pending' # NoGeneration => active' < pending'
<1>0. /\ accepting = {active} \ {NoGeneration}
      /\ pending # NoGeneration => active < pending
  BY Zenon DEF Inv, HandoverInvariant
<1>1. ASSUME NEW a \in Appliers, NEW g \in Generations, NEW t \in Tables, StageGeneration(a, g, t)
      PROVE  /\ accepting' = {active'} \ {NoGeneration}
             /\ pending' # NoGeneration => active' < pending'
  <2>1. CASE MayStage(g) /\ NewGenerationState(g, t) /\ pending' = g
    <3>1. active' = active /\ active < g /\ g \in Nat /\ active \in Nat
      BY <1>1, <2>1, GenerationsNat DEF StageGeneration, MayStage, Inv, TypeOK, NoGeneration
    <3> QED  BY <1>0, <2>1, <3>1 DEF NewGenerationState
  <2>2. CASE UNCHANGED <<pending, accepting>>
    BY <1>0, <1>1, <2>2, Zenon DEF StageGeneration
  <2> QED  BY <1>1, <2>1, <2>2, Zenon DEF StageGeneration
<1>2. ASSUME NEW a \in Appliers, Promote(a)
      PROVE  /\ accepting' = {active'} \ {NoGeneration}
             /\ pending' # NoGeneration => active' < pending'
  <2>1. active' \in Generations /\ active' # NoGeneration
    BY <1>2, PromoteForward, GenerationsNat, Zenon DEF NoGeneration
  <2> QED  BY <1>0, <1>2, <2>1, Zenon DEF Promote
<1>3. ASSUME NEW a \in Appliers, DiscardPending(a)
      PROVE  /\ accepting' = {active'} \ {NoGeneration}
             /\ pending' # NoGeneration => active' < pending'
  BY <1>0, <1>3, Zenon DEF DiscardPending
<1>4. CASE UNCHANGED <<active, pending, accepting>>
  BY <1>0, <1>4, Zenon
<1>5. \/ \E a \in Appliers, g \in Generations, t \in Tables : StageGeneration(a, g, t)
      \/ \E a \in Appliers : Promote(a)
      \/ \E a \in Appliers : DiscardPending(a)
      \/ UNCHANGED <<active, pending, accepting>>
  BY NextCases, Zenon
  DEF vars, registry, ConfirmReady, AbandonStaged, MarkGenerationReady, ActivateReturns,
      RetireImmediately, DrainCompleted, DrainForced, Close, Acquire, Release, ReleaseMarks
<1> QED  BY <1>1, <1>2, <1>3, <1>4, <1>5, Zenon

-----------------------------------------------------------------------------

LEMMA InitInv == Init => Inv
<1> SUFFICES ASSUME Init PROVE Inv
  BY Zenon
<1>1. TypeOK
  BY Constants, Zenon DEF Init, TypeOK, Tables, NoGeneration
<1>2. \A l \in Leases : lease[l].st = "free"
  BY Zenon DEF Init, FreeLease
<1>3. ASSUME NEW g \in Generations
      PROVE  streams[g] = Cardinality(Holding(g)) /\ streams[g] <= MaximumStreams
  <2>1. Holding(g) = {}
    BY <1>2, Zenon DEF Holding
  <2> QED  BY <2>1, FS_EmptySet, StreamsAssumption DEF Init
<1>4. HandoverInvariant
  BY <1>2, Zenon DEF Init, HandoverInvariant, LeaseFenced, ApplierFenced, IdleOp
<1> QED  BY <1>1, <1>3, <1>4, Zenon DEF Inv, StreamAccounting

LEMMA InvInductive == Inv /\ [Next]_vars => Inv'
<1> SUFFICES ASSUME Inv, [Next]_vars PROVE Inv'
  BY Zenon
<1>1. TypeOK'
  BY TypeInductive, Zenon
<1>2. (\A g \in drained : DrainedFenced(g))'
  BY <1>1, DrainedFencedInductive, Zenon DEF TypeOK
<1>3. (\A l \in Leases : LeaseFenced(l))'
  BY LeaseFencedInductive, Zenon
<1>4. (\A a \in Appliers : ApplierFenced(a))'
  BY ApplierFencedInductive, Zenon
<1>5. HandoverInvariant'
  BY <1>2, <1>3, <1>4, AdmissionInductive, Zenon DEF HandoverInvariant
<1> QED  BY <1>1, <1>5, AccountingInductive, Zenon DEF Inv

(* In every behaviour of the registry the types hold, stream counters equal   *)
(* the leases that hold the generation and stay within maximumStreams, and    *)
(* the handover invariant holds: generationState.drained is closed only for   *)
(* a retired generation without streams.                                      *)
THEOREM InvCorrect == Spec => []Inv
  BY InitInv, InvInductive, PTL DEF Spec

(* The stream accounting of Acquire and release, for any number of leases and *)
(* appliers.                                                                  *)
THEOREM StreamAccountingCorrect == Spec => [](TypeOK /\ StreamAccounting)
<1>1. Inv => TypeOK /\ StreamAccounting
  BY Zenon DEF Inv
<1> QED  BY <1>1, InvCorrect, PTL

(* The handover of ActivateGeneration and release, for any number of leases   *)
(* and appliers.                                                              *)
THEOREM HandoverCorrect == Spec => []HandoverInvariant
<1>1. Inv => HandoverInvariant
  BY Zenon DEF Inv
<1> QED  BY <1>1, InvCorrect, PTL

-----------------------------------------------------------------------------
(* Refinement *)

(* The leases as RouteServing sees them. *)
heldBy == [l \in Leases |-> IF lease[l].st = "held" THEN lease[l].gen ELSE NoGeneration]

(* A drained channel of the active state was closed by Close. *)
LEMMA ActiveNotDrained ==
    ASSUME Inv, active # NoGeneration, active \in drained
    PROVE  closed
<1>1. active \in Nat
  BY GenerationsNat, Zenon DEF Inv, TypeOK, NoGeneration
<1> QED  BY <1>1 DEF Inv, HandoverInvariant, DrainedFenced, Retired

(* Each step of the registry is a step of RouteServing or leaves its state. *)
LEMMA StepImplements ==
    ASSUME Inv, [Next]_vars
    PROVE  [Serving!Next]_(Serving!vars)
<1> USE DEF Serving!vars, Serving!NoGeneration
<1>1. CASE UNCHANGED <<active, rules, lease, drained>>
  BY <1>1, Zenon
<1>2. ASSUME NEW a \in Appliers, NEW g \in Generations, NEW t \in Tables, StageGeneration(a, g, t)
      PROVE  UNCHANGED Serving!vars
  <2>1. active' = active /\ lease' = lease
    BY <1>2, Zenon DEF StageGeneration
  <2>2. CASE UNCHANGED <<rules, drained>>
    BY <2>1, <2>2, Zenon
  <2>3. CASE MayStage(g) /\ NewGenerationState(g, t)
    <3>1. g \in Nat /\ active \in Nat /\ active < g
      BY <2>3, GenerationsNat DEF MayStage, Inv, TypeOK, NoGeneration
    <3>2. g \notin drained
      BY <3>1 DEF Inv, HandoverInvariant, DrainedFenced, Retired
    <3>3. drained' = drained /\ (active # NoGeneration => rules'[active] = rules[active])
      BY <2>3, <3>1, <3>2 DEF NewGenerationState, Inv, TypeOK
    <3> QED  BY <2>1, <3>3, Zenon
  <2> QED  BY <1>2, <2>2, <2>3, Zenon DEF StageGeneration
<1>3. ASSUME NEW a \in Appliers, Promote(a)
      PROVE  Serving!Next
  <2>1. /\ active' \in Generations
        /\ active < active'
        /\ ~closed
        /\ UNCHANGED <<lease, drained, rules>>
    BY <1>3, PromoteForward, Zenon DEF Promote
  <2>2. active' # NoGeneration /\ active' \in Nat /\ active \in Nat
    BY <2>1, GenerationsNat DEF NoGeneration, Inv, TypeOK
  <2>3. active' \notin drained
    BY <2>1, <2>2 DEF Inv, HandoverInvariant, DrainedFenced, Retired
  <2>4. active \notin drained
    BY <2>1, ActiveNotDrained, GenerationsNat, Zenon DEF Inv, TypeOK, NoGeneration
  <2>5. rules[active'] \in SUBSET Routes
    BY <2>1, Zenon DEF Inv, TypeOK, Tables
  <2>6. Serving!Promote(active', rules[active'])
    BY <2>1, <2>2, <2>3, <2>4, Zenon DEF Serving!Promote
  <2> QED  BY <2>1, <2>5, <2>6, Zenon DEF Serving!Next
<1>4. ASSUME NEW a \in Appliers, RetireImmediately(a)
      PROVE  Serving!Next
  <2>1. /\ op[a].old \in Generations
        /\ Retired(op[a].old)
        /\ Holding(op[a].old) = {}
        /\ UNCHANGED <<active, rules, lease>>
        /\ drained' = drained \cup {op[a].old}
    BY <1>4, Zenon DEF Inv, TypeOK, OpState, HandoverInvariant, ApplierFenced, Retired,
                RetireImmediately, MarkDrained, registry
  <2>2. Serving!Seal(op[a].old)
    <3>1. active \in Nat /\ op[a].old \in Nat /\ op[a].old # NoGeneration /\ op[a].old < active
      BY <2>1, GenerationsNat DEF Retired, Inv, TypeOK, NoGeneration
    <3>2. \A m \in Leases : heldBy[m] # op[a].old
      BY <2>1, <3>1, Zenon DEF heldBy, Holding
    <3>3. heldBy' = heldBy
      BY <2>1, Zenon DEF heldBy
    <3>4. drained' \ {active} = (drained \ {active}) \cup {op[a].old}
      <4>1. op[a].old # active
        BY <3>1
      <4>2. drained' = drained \cup {op[a].old}
        BY <2>1, Zenon
      <4> QED  BY <4>1, <4>2, Zenon
    <3> QED  BY <2>1, <3>1, <3>2, <3>3, <3>4, Zenon DEF Serving!Seal, heldBy
  <2> QED  BY <2>1, <2>2, Zenon DEF Serving!Next
<1>5. ASSUME NEW l \in Leases, ReleaseMarks(l)
      PROVE  Serving!Next
  <2>1. /\ lease[l].gen \in Generations
        /\ Retired(lease[l].gen)
        /\ Holding(lease[l].gen) = {}
        /\ UNCHANGED <<active, rules>>
        /\ drained' = drained \cup {lease[l].gen}
    BY <1>5, Zenon DEF Inv, TypeOK, LeaseState, HandoverInvariant, LeaseFenced, Retired,
                ReleaseMarks, MarkDrained, registry
  <2>2. heldBy' = heldBy
    BY <1>5, Zenon DEF heldBy, ReleaseMarks, FreeLease, Inv, TypeOK, LeaseState
  <2>3. Serving!Seal(lease[l].gen)
    <3>1. active \in Nat /\ lease[l].gen \in Nat /\ lease[l].gen # NoGeneration /\ lease[l].gen < active
      BY <2>1, GenerationsNat, SMTT(30) DEF Retired, Inv, TypeOK, NoGeneration
    <3>2. \A m \in Leases : heldBy[m] # lease[l].gen
      BY <2>1, <3>1, Zenon DEF heldBy, Holding
    <3>4. drained' \ {active} = (drained \ {active}) \cup {lease[l].gen}
      <4>1. lease[l].gen # active
        BY <3>1
      <4>2. drained' = drained \cup {lease[l].gen}
        BY <2>1, Zenon
      <4> QED  BY <4>1, <4>2, Zenon
    <3> QED  BY <2>1, <3>1, <3>2, <2>2, <3>4, Zenon DEF Serving!Seal, heldBy
  <2> QED  BY <2>1, <2>3, Zenon DEF Serving!Next
<1>6. CASE Close
  BY <1>6, Zenon DEF Close
<1>7. ASSUME NEW l \in Leases, NEW r \in Routes, Acquire(l, r)
      PROVE  Serving!Next
  <2>1. heldBy[l] = NoGeneration /\ heldBy' = [heldBy EXCEPT ![l] = active]
    BY <1>7, Zenon DEF heldBy, Acquire, Inv, TypeOK, LeaseState
  <2>2. UNCHANGED <<active, rules, drained>> /\ active # NoGeneration /\ r \in rules[active]
    BY <1>7, Zenon DEF Acquire, Matches
  <2>3. Serving!Admit(l, r)
    BY <2>1, <2>2, Zenon DEF Serving!Admit, heldBy, NoGeneration
  <2> QED  BY <2>3, Zenon DEF Serving!Next
<1>8. ASSUME NEW l \in Leases, Release(l)
      PROVE  Serving!Next
  <2>1. heldBy[l] # NoGeneration /\ heldBy' = [heldBy EXCEPT ![l] = NoGeneration]
    BY <1>8, Zenon DEF heldBy, Release, FreeLease, Inv, TypeOK, LeaseState, HandoverInvariant, LeaseFenced
  <2>2. UNCHANGED <<active, rules, drained>>
    BY <1>8, Zenon DEF Release
  <2>3. Serving!End(l)
    BY <2>1, <2>2, Zenon DEF Serving!End, heldBy, NoGeneration
  <2> QED  BY <2>3, Zenon DEF Serving!Next
<1>9. ASSUME NEW a \in Appliers,
             \/ ConfirmReady(a) \/ AbandonStaged(a) \/ DiscardPending(a)
             \/ MarkGenerationReady(a) \/ ActivateReturns(a)
             \/ DrainCompleted(a) \/ DrainForced(a)
      PROVE  UNCHANGED <<active, rules, lease, drained>>
  BY <1>9, Zenon DEF ConfirmReady, AbandonStaged, DiscardPending, MarkGenerationReady,
              ActivateReturns, DrainCompleted, DrainForced, registry
<1>10. CASE UNCHANGED vars
  BY <1>1, <1>10, Zenon DEF vars, registry
<1> HIDE DEF Serving!vars, Serving!NoGeneration
<1> QED  BY <1>1, <1>2, <1>3, <1>4, <1>5, <1>6, <1>7, <1>8, <1>9, <1>10, NextCases, ZenonT(30)

(* The registry implements RouteServing: requests are only ever admitted by   *)
(* one generation, the newest promoted, by a route of its table; a lease      *)
(* keeps its generation; a drain is reported only for a generation that is    *)
(* retired and empty.                                                         *)
THEOREM Implementation == Spec => ImplementsServing
<1>1. Init => Serving!Init
  BY DEF Init, Serving!Init, Serving!NoGeneration, NoGeneration, FreeLease
<1>2. Inv /\ [Next]_vars => [Serving!Next]_(Serving!vars)
  BY StepImplements, Zenon
<1> QED  BY <1>1, <1>2, InvCorrect, PTL DEF Spec, ImplementsServing, Serving!Spec

-----------------------------------------------------------------------------
(* The route matcher                                                           *)

HostTypes == {"exact", "wildcard", "catch_all"}

(* What a rule is compared by.                                                 *)
LEMMA RuleFacts ==
    ASSUME NEW r \in Rules
    PROVE  /\ r.type \in HostTypes /\ r.host \in Seq(Nat) /\ r.path \in Seq(Nat)
           /\ r.priority \in Int /\ r.enabled \in BOOLEAN
           /\ r.type = "catch_all" => r.host = <<>>
           /\ hostClass(r) \in 1..3 /\ suffixLabels(r) \in Nat /\ Len(r.path) \in Nat /\ Len(r.host) \in Nat
           /\ r # NoRule
<1>1. /\ r.type \in HostTypes /\ r.host \in Seq(Nat) /\ r.path \in Seq(Nat)
      /\ r.priority \in Int /\ r.enabled \in BOOLEAN
      /\ r.type = "catch_all" => r.host = <<>>
      /\ r # NoRule
  BY MatcherAssumption, Zenon DEF HostTypes
<1>2. Len(r.path) \in Nat /\ Len(r.host) \in Nat
  BY <1>1
<1>3. hostClass(r) \in 1..3
  BY <1>1 DEF hostClass, HostTypes
<1>4. suffixLabels(r) \in Nat
  BY <1>2, Zenon DEF suffixLabels
<1> QED  BY <1>1, <1>2, <1>3, <1>4, Zenon

(* The first criterion in which two ranks differ.                              *)
First(l, r) == CHOOSE i \in 1..4 : l[i] # r[i] /\ \A j \in 1..(i - 1) : l[j] = r[j]
Lower(l, r) ==
    \/ l[1] < r[1]
    \/ l[1] = r[1] /\ l[2] < r[2]
    \/ l[1] = r[1] /\ l[2] = r[2] /\ l[3] < r[3]
    \/ l[1] = r[1] /\ l[2] = r[2] /\ l[3] = r[3] /\ l[4] < r[4]

LEMMA FirstDifference ==
    ASSUME NEW l \in [1..4 -> Int], NEW r \in [1..4 -> Int], l # r
    PROVE  l[First(l, r)] < r[First(l, r)] <=> Lower(l, r)
<1> DEFINE Differs(i) == l[i] # r[i] /\ \A j \in 1..(i - 1) : l[j] = r[j]
<1>1. PICK k \in 1..4 : l[k] # r[k]
  OBVIOUS
<1>2. \E i \in 1..4 : Differs(i)
  <2>1. CASE l[1] # r[1]
    <3>1. Differs(1)  BY <2>1
    <3> QED  BY <3>1
  <2>2. CASE l[1] = r[1] /\ l[2] # r[2]
    <3>1. Differs(2)  BY <2>2
    <3> QED  BY <3>1
  <2>3. CASE l[1] = r[1] /\ l[2] = r[2] /\ l[3] # r[3]
    <3>1. Differs(3)  BY <2>3
    <3> QED  BY <3>1
  <2>4. CASE l[1] = r[1] /\ l[2] = r[2] /\ l[3] = r[3] /\ l[4] # r[4]
    <3>1. Differs(4)  BY <2>4
    <3> QED  BY <3>1
  <2> QED  BY <1>1, <2>1, <2>2, <2>3, <2>4
<1>3. PICK i \in 1..4 : i = First(l, r) /\ Differs(i)
  <2>1. First(l, r) \in 1..4 /\ Differs(First(l, r))
    BY <1>2, Zenon DEF First
  <2> QED  BY <2>1, Zenon
<1>4. l[1] \in Int /\ l[2] \in Int /\ l[3] \in Int /\ l[4] \in Int
      /\ r[1] \in Int /\ r[2] \in Int /\ r[3] \in Int /\ r[4] \in Int
  OBVIOUS
<1>5. l[i] < r[i] <=> Lower(l, r)
  <2>1. CASE i = 1
    BY <1>3, <1>4, <2>1, Zenon DEF Lower
  <2>2. CASE i = 2
    BY <1>3, <1>4, <2>2 DEF Lower
  <2>3. CASE i = 3
    BY <1>3, <1>4, <2>3 DEF Lower
  <2>4. CASE i = 4
    BY <1>3, <1>4, <2>4 DEF Lower
  <2> QED  BY <2>1, <2>2, <2>3, <2>4
<1> QED  BY <1>3, <1>5, Zenon

Components(t, x1, x2, x3, x4) ==
    t = <<x1, x2, x3, x4>> /\ t[1] = x1 /\ t[2] = x2 /\ t[3] = x3 /\ t[4] = x4

LEMMA RankIsTuple ==
    ASSUME NEW x1 \in Int, NEW x2 \in Int, NEW x3 \in Int, NEW x4 \in Int
    PROVE  \E t \in [1..4 -> Int] : Components(t, x1, x2, x3, x4)
<1> DEFINE l == <<x1, x2, x3, x4>>
<1>1. l \in Seq(Int) /\ Len(l) = 4 /\ l[1] = x1 /\ l[2] = x2 /\ l[3] = x3 /\ l[4] = x4
  OBVIOUS
<1> HIDE DEF l
<1>2. l \in [1..4 -> Int]
  BY <1>1
<1>3. l = <<x1, x2, x3, x4>>
  BY Zenon DEF l
<1>4. Components(l, x1, x2, x3, x4)
  BY <1>1, <1>3, Zenon DEF Components
<1> QED  BY <1>2, <1>4, Zenon

Outranks(a, b) ==
    \/ hostClass(a) > hostClass(b)
    \/ hostClass(a) = hostClass(b) /\ suffixLabels(a) > suffixLabels(b)
    \/ hostClass(a) = hostClass(b) /\ suffixLabels(a) = suffixLabels(b) /\ Len(a.path) > Len(b.path)
    \/ /\ hostClass(a) = hostClass(b) /\ suffixLabels(a) = suffixLabels(b) /\ Len(a.path) = Len(b.path)
       /\ a.priority < b.priority

(* compareCandidates orders the rules by their rank.                           *)
LEMMA ComparesRanks ==
    ASSUME NEW a \in Rules, NEW b \in Rules
    PROVE  /\ compareCandidates(a, b) \in {-1, 0, 1}
           /\ compareCandidates(a, b) = 1 <=> Outranks(a, b)
           /\ compareCandidates(a, b) = -1 <=> Outranks(b, a)
<1>1. /\ hostClass(a) \in Int /\ suffixLabels(a) \in Int /\ Len(a.path) \in Int /\ a.priority \in Int
      /\ hostClass(b) \in Int /\ suffixLabels(b) \in Int /\ Len(b.path) \in Int /\ b.priority \in Int
  BY RuleFacts
<1>2. PICK l \in [1..4 -> Int] :
        /\ l = Rank(a)
        /\ l[1] = hostClass(a) /\ l[2] = suffixLabels(a) /\ l[3] = Len(a.path) /\ l[4] = -a.priority
  <2>1. PICK n \in Int : n = -a.priority
    BY <1>1
  <2>2. PICK m1 \in Int, m2 \in Int, m3 \in Int : m1 = hostClass(a) /\ m2 = suffixLabels(a) /\ m3 = Len(a.path)
    BY <1>1, Zenon
  <2>3. PICK t \in [1..4 -> Int] : Components(t, m1, m2, m3, n)
    BY <2>1, <2>2, RankIsTuple, Zenon
  <2>4. t = Rank(a)
    BY <2>1, <2>2, <2>3, Zenon DEF Rank, Components
  <2>5. t[1] = m1 /\ t[2] = m2 /\ t[3] = m3 /\ t[4] = n
    BY <2>3, Zenon DEF Components
  <2> QED  BY <2>1, <2>2, <2>3, <2>4, <2>5, Zenon
<1>3. PICK r \in [1..4 -> Int] :
        /\ r = Rank(b)
        /\ r[1] = hostClass(b) /\ r[2] = suffixLabels(b) /\ r[3] = Len(b.path) /\ r[4] = -b.priority
  <2>1. PICK n \in Int : n = -b.priority
    BY <1>1
  <2>2. PICK m1 \in Int, m2 \in Int, m3 \in Int : m1 = hostClass(b) /\ m2 = suffixLabels(b) /\ m3 = Len(b.path)
    BY <1>1, Zenon
  <2>3. PICK t \in [1..4 -> Int] : Components(t, m1, m2, m3, n)
    BY <2>1, <2>2, RankIsTuple, Zenon
  <2>4. t = Rank(b)
    BY <2>1, <2>2, <2>3, Zenon DEF Rank, Components
  <2>5. t[1] = m1 /\ t[2] = m2 /\ t[3] = m3 /\ t[4] = n
    BY <2>3, Zenon DEF Components
  <2> QED  BY <2>1, <2>2, <2>3, <2>4, <2>5, Zenon
<1>4. (Lower(l, r) <=> Outranks(b, a)) /\ (Lower(r, l) <=> Outranks(a, b))
  <2>1. (l[4] < r[4] <=> b.priority < a.priority) /\ (r[4] < l[4] <=> a.priority < b.priority)
    <3>1. PICK p \in Int, q \in Int : p = a.priority /\ q = b.priority
      BY <1>1, Zenon
    <3>2. PICK x \in Int, y \in Int : x = l[4] /\ y = r[4]
      <4>1. 4 \in 1..4
        OBVIOUS
      <4> QED  BY <4>1, Zenon
    <3>3. x = -p /\ y = -q
      BY <1>2, <1>3, <3>1, <3>2, Zenon
    <3>4. (x < y <=> q < p) /\ (y < x <=> p < q)
      BY <3>3
    <3> QED  BY <3>1, <3>2, <3>4, Zenon
  <2>2. /\ l[1] < r[1] <=> hostClass(b) > hostClass(a)
        /\ l[2] < r[2] <=> suffixLabels(b) > suffixLabels(a)
        /\ l[3] < r[3] <=> Len(b.path) > Len(a.path)
        /\ r[1] < l[1] <=> hostClass(a) > hostClass(b)
        /\ r[2] < l[2] <=> suffixLabels(a) > suffixLabels(b)
        /\ r[3] < l[3] <=> Len(a.path) > Len(b.path)
    BY <1>1, <1>2, <1>3, Zenon
  <2> QED  BY <1>2, <1>3, <2>1, <2>2, Zenon DEF Lower, Outranks
<1>5. CASE l = r
  <2>1. compareCandidates(a, b) = 0
    BY <1>2, <1>3, <1>5, Zenon DEF compareCandidates
  <2>2. ~Lower(l, r) /\ ~Lower(r, l)
    BY <1>5 DEF Lower
  <2> QED  BY <1>4, <2>1, <2>2
<1>6. CASE l # r
  <2>1. compareCandidates(a, b) = IF l[First(l, r)] < r[First(l, r)] THEN -1 ELSE 1
    BY <1>2, <1>3, <1>6, Zenon DEF compareCandidates, First
  <2>2. l[First(l, r)] < r[First(l, r)] <=> Lower(l, r)
    BY <1>6, FirstDifference, Zenon
  <2>3. Lower(l, r) <=> ~Lower(r, l)
    <3>1. PICK k \in 1..4 : l[k] # r[k]
      BY <1>6
    <3> QED  BY <3>1 DEF Lower
  <2> QED  BY <1>4, <2>1, <2>2, <2>3
<1> QED  BY <1>5, <1>6, Zenon

LEMMA OutranksIsAnOrder ==
    ASSUME NEW a \in Rules, NEW b \in Rules, NEW c \in Rules, Outranks(a, b), Outranks(b, c)
    PROVE  Outranks(a, c)
<1>1. \A r \in Rules : hostClass(r) \in Int /\ suffixLabels(r) \in Int /\ Len(r.path) \in Int /\ r.priority \in Int
  BY RuleFacts
<1> QED  BY <1>1, SMTT(30) DEF Outranks

LEMMA PrefixOfSequence ==
    ASSUME NEW s \in Seq(Nat), NEW n \in Nat, n <= Len(s)
    PROVE  /\ SubSeq(s, 1, n) \in Seq(Nat) /\ Len(SubSeq(s, 1, n)) = n
           /\ \A i \in 1..n : SubSeq(s, 1, n)[i] = s[i]
<1>1. Len(SubSeq(s, 1, n)) = n
  OBVIOUS
<1>2. \A i \in 1..n : SubSeq(s, 1, n)[i] = s[i]
  OBVIOUS
<1>3. SubSeq(s, 1, n) \in Seq(Nat)
  OBVIOUS
<1> QED  BY <1>1, <1>2, <1>3, Zenon

(* Of two prefixes of one path the shorter is a prefix of the longer.          *)
LEMMA PrefixesAreComparable ==
    ASSUME NEW p \in Seq(Nat), NEW q \in Seq(Nat), NEW path \in Seq(Nat),
           pathMatches(p, path), pathMatches(q, path), Len(p) <= Len(q)
    PROVE  pathMatches(p, q)
<1>1. PICK m \in Nat, n \in Nat : m = Len(p) /\ n = Len(q) /\ m <= n /\ n <= Len(path) /\ m <= Len(path)
  <2>1. Len(p) \in Nat /\ Len(q) \in Nat
    OBVIOUS
  <2>2. Len(p) <= Len(path) /\ Len(q) <= Len(path)
    BY Zenon DEF pathMatches
  <2> QED  BY <2>1, <2>2, Zenon
<1>2. SubSeq(path, 1, m) = p /\ SubSeq(path, 1, n) = q
  BY <1>1, Zenon DEF pathMatches
<1>3. \A i \in 1..m : p[i] = path[i]
  <2>1. \A i \in 1..m : SubSeq(path, 1, m)[i] = path[i]
    BY <1>1, PrefixOfSequence, Zenon
  <2> QED  BY <1>2, <2>1, Zenon
<1>4. \A i \in 1..n : q[i] = path[i]
  <2>1. \A i \in 1..n : SubSeq(path, 1, n)[i] = path[i]
    BY <1>1, PrefixOfSequence, Zenon
  <2> QED  BY <1>2, <2>1, Zenon
<1>5. PICK s \in Seq(Nat) : s = SubSeq(q, 1, m) /\ Len(s) = m /\ \A i \in 1..m : s[i] = q[i]
  BY <1>1, PrefixOfSequence, Zenon
<1>6. \A i \in 1..m : s[i] = p[i]
  BY <1>1, <1>3, <1>4, <1>5
<1>7. s = p
  BY <1>1, <1>5, <1>6
<1> QED  BY <1>1, <1>5, <1>7, Zenon DEF pathMatches

(* Two rules that match one request overlap, and normalizeRules has compared   *)
(* them.                                                                       *)
LEMMA MatchingRulesOverlap ==
    ASSUME NEW a \in Rules, NEW b \in Rules, NEW host \in Seq(Nat), NEW path \in Seq(Nat),
           MatchesRequest(a, host, path), MatchesRequest(b, host, path)
    PROVE  /\ rulesOverlap(a, b)
           /\ a.type = b.type => a.host = b.host
<1>1. /\ a.type \in HostTypes /\ b.type \in HostTypes /\ a.path \in Seq(Nat) /\ b.path \in Seq(Nat)
      /\ a.type = "catch_all" => a.host = <<>>
      /\ b.type = "catch_all" => b.host = <<>>
      /\ Len(a.path) \in Nat /\ Len(b.path) \in Nat
  BY RuleFacts, Zenon
<1>2. hostMatch(a, host) /\ hostMatch(b, host) /\ pathMatches(a.path, path) /\ pathMatches(b.path, path)
  BY Zenon DEF MatchesRequest
<1>3. /\ a.type = "exact" => host = a.host
      /\ b.type = "exact" => host = b.host
      /\ a.type = "wildcard" => exactFallsUnderWildcard(host, a.host) /\ a.host = Tail(host)
      /\ b.type = "wildcard" => exactFallsUnderWildcard(host, b.host) /\ b.host = Tail(host)
  BY <1>2, Zenon DEF hostMatch, exactFallsUnderWildcard
<1>4. a.type = b.type => a.host = b.host
  BY <1>1, <1>3, Zenon DEF HostTypes
<1>5. hostsOverlap(a, b)
  BY <1>1, <1>3, <1>4, Zenon DEF hostsOverlap, HostTypes
<1>6. pathMatches(a.path, b.path) \/ pathMatches(b.path, a.path)
  <2>1. CASE Len(a.path) <= Len(b.path)
    BY <1>1, <1>2, <2>1, PrefixesAreComparable, Zenon
  <2>2. CASE Len(b.path) <= Len(a.path)
    BY <1>1, <1>2, <2>2, PrefixesAreComparable, Zenon
  <2>3. Len(a.path) <= Len(b.path) \/ Len(b.path) <= Len(a.path)
    BY <1>1
  <2> QED  BY <2>1, <2>2, <2>3, Zenon
<1> QED  BY <1>4, <1>5, <1>6, Zenon DEF rulesOverlap

(* Among the rules that match a request the rank is the documented order.      *)
LEMMA OutranksIsBetter ==
    ASSUME NEW a \in Rules, NEW b \in Rules, NEW host \in Seq(Nat), NEW path \in Seq(Nat),
           MatchesRequest(a, host, path), MatchesRequest(b, host, path), Outranks(a, b)
    PROVE  Better(a, b)
<1>1. a.type = b.type => a.host = b.host
  BY MatchingRulesOverlap, Zenon
<1>2. /\ a.type \in HostTypes /\ b.type \in HostTypes
      /\ Len(a.host) \in Nat /\ Len(b.host) \in Nat /\ Len(a.path) \in Nat /\ Len(b.path) \in Nat
      /\ a.priority \in Int /\ b.priority \in Int
  BY RuleFacts, Zenon
<1>3. CASE a.type = b.type
  <2>1. hostClass(a) = hostClass(b) /\ hostClass(a) \in 1..3 /\ suffixLabels(a) = suffixLabels(b)
        /\ suffixLabels(a) \in Nat /\ Len(a.host) = Len(b.host)
    BY <1>1, <1>3, RuleFacts, Zenon DEF hostClass, suffixLabels
  <2> QED  BY <1>2, <1>3, <2>1 DEF Outranks, Better
<1>4. CASE a.type # b.type
  <2>1. hostClass(a) >= hostClass(b)
    <3>1. hostClass(a) \in 1..3 /\ hostClass(b) \in 1..3
      BY RuleFacts, Zenon
    <3>2. hostClass(a) > hostClass(b) \/ hostClass(a) = hostClass(b)
      BY Zenon DEF Outranks
    <3> QED  BY <3>1, <3>2
  <2> QED  BY <1>2, <1>4, <2>1 DEF hostClass, Better, HostTypes
<1> QED  BY <1>3, <1>4, Zenon


VisitingType(t) ==
    [host : Seq(Nat), path : Seq(Nat), remaining : SUBSET t,
     best : Rules \cup {NoRule}, verdict : {"none", "visiting", "match", "no match"}]
SeenOf(t, v) == {r \in t \ v.remaining : MatchesRequest(r, v.host, v.path)}
Beats(S, b) ==
    IF b = NoRule THEN S = {}
    ELSE b \in S /\ \A r \in S \ {b} : compareCandidates(b, r) = 1
Visited(t, v) ==
    /\ t \subseteq Rules /\ normalizeRules(t)
    /\ v \in VisitingType(t)
    /\ v.verdict # "none" => Beats(SeenOf(t, v), v.best)
    /\ v.verdict = "match" => v.remaining = {} /\ v.best # NoRule
    /\ v.verdict = "no match" => v.remaining = {} /\ v.best = NoRule

LEMMA MatcherInvariantOfValues == MatcherInv <=> Visited(staged, visiting)
  BY Zenon DEF MatcherInv, Visited, VisitingType, SeenOf, Seen, Beats

(* A turn of the loop keeps the best of what was seen: this is where the       *)
(* ranks must be an order.                                                     *)
LEMMA BestIsKept ==
    ASSUME NEW S \in SUBSET Rules, NEW rule \in Rules, NEW b, Beats(S, b), rule \notin S,
           \A x \in S : compareCandidates(rule, x) # 0
    PROVE  /\ b = NoRule => Beats(S \cup {rule}, rule)
           /\ b # NoRule => /\ compareCandidates(rule, b) \in {-1, 1}
                            /\ compareCandidates(rule, b) = 1 => Beats(S \cup {rule}, rule)
                            /\ compareCandidates(rule, b) = -1 => Beats(S \cup {rule}, b)
<1>1. rule # NoRule
  BY RuleFacts, Zenon
<1>2. CASE b = NoRule
  <2>1. S = {}
    BY <1>2, Zenon DEF Beats
  <2> QED  BY <1>1, <1>2, <2>1, Zenon DEF Beats
<1>3. CASE b # NoRule
  <2>1. b \in S /\ b \in Rules /\ \A r \in S \ {b} : compareCandidates(b, r) = 1
    BY <1>3, Zenon DEF Beats
  <2>2. compareCandidates(rule, b) \in {-1, 0, 1}
    BY <2>1, ComparesRanks, Zenon
  <2>3. compareCandidates(rule, b) \in {-1, 1}
    BY <2>1, <2>2, Zenon
  <2>4. ASSUME compareCandidates(rule, b) = 1
        PROVE  Beats(S \cup {rule}, rule)
    <3>1. Outranks(rule, b)
      BY <2>1, <2>4, ComparesRanks, Zenon
    <3>2. ASSUME NEW r \in S
          PROVE  compareCandidates(rule, r) = 1
      <4>1. CASE r = b
        BY <2>4, <4>1, Zenon
      <4>2. CASE r # b
        <5>1. r \in Rules /\ Outranks(b, r)
          BY <2>1, <4>2, ComparesRanks, Zenon
        <5>2. Outranks(rule, r)
          BY <2>1, <3>1, <5>1, OutranksIsAnOrder, Zenon
        <5> QED  BY <5>1, <5>2, ComparesRanks, Zenon
      <4> QED  BY <4>1, <4>2, Zenon
    <3> QED  BY <1>1, <3>2, Zenon DEF Beats
  <2>5. ASSUME compareCandidates(rule, b) = -1
        PROVE  Beats(S \cup {rule}, b)
    <3>1. compareCandidates(b, rule) = 1
      BY <2>1, <2>5, ComparesRanks, Zenon
    <3>2. b \in S \cup {rule} /\ \A r \in (S \cup {rule}) \ {b} : compareCandidates(b, r) = 1
      BY <2>1, <3>1, Zenon
    <3> QED  BY <1>3, <3>2, Zenon DEF Beats
  <2> QED  BY <1>3, <2>3, <2>4, <2>5, Zenon
<1> QED  BY <1>2, <1>3, Zenon

LEMMA VisitingFields ==
    ASSUME NEW t, NEW v \in VisitingType(t)
    PROVE  /\ v.host \in Seq(Nat) /\ v.path \in Seq(Nat) /\ v.remaining \in SUBSET t
           /\ v.best \in Rules \cup {NoRule} /\ v.verdict \in {"none", "visiting", "match", "no match"}
  BY Zenon DEF VisitingType

(* The record after a turn, by the rule it looked at.                          *)
LEMMA VisitPreserves ==
    ASSUME NEW t, NEW v, Visited(t, v), v.verdict = "visiting", NEW rule \in v.remaining,
           NEW w, w \in VisitingType(t), w.host = v.host, w.path = v.path,
           w.remaining = v.remaining \ {rule}, w.verdict = "visiting",
           ~MatchesRequest(rule, v.host, v.path) => w.best = v.best,
           MatchesRequest(rule, v.host, v.path) =>
               w.best = IF v.best = NoRule \/ compareCandidates(rule, v.best) = 1 THEN rule ELSE v.best
    PROVE  /\ Visited(t, w)
           /\ MatchesRequest(rule, v.host, v.path) /\ v.best # NoRule => compareCandidates(rule, v.best) \in {-1, 1}
<1>1. /\ t \subseteq Rules /\ normalizeRules(t) /\ v \in VisitingType(t)
      /\ Beats(SeenOf(t, v), v.best)
  BY Zenon DEF Visited
<1>2. /\ v.host \in Seq(Nat) /\ v.path \in Seq(Nat) /\ v.remaining \in SUBSET t
      /\ v.best \in Rules \cup {NoRule}
  BY <1>1, VisitingFields, Zenon
<1>3. rule \in t /\ rule \in Rules /\ rule \notin SeenOf(t, v) /\ SeenOf(t, v) \in SUBSET Rules
  BY <1>1, <1>2, Zenon DEF SeenOf
<1>4. CASE ~MatchesRequest(rule, v.host, v.path)
  <2>1. SeenOf(t, w) = SeenOf(t, v)
    BY <1>4, Zenon DEF SeenOf
  <2> QED  BY <1>1, <1>4, <2>1, Zenon DEF Visited
<1>5. CASE MatchesRequest(rule, v.host, v.path)
  <2>1. SeenOf(t, w) = SeenOf(t, v) \cup {rule}
    BY <1>3, <1>5, Zenon DEF SeenOf
  <2>2. \A x \in SeenOf(t, v) : compareCandidates(rule, x) # 0
    <3>1. SUFFICES ASSUME NEW x \in SeenOf(t, v)
                   PROVE  compareCandidates(rule, x) # 0
      BY Zenon
    <3>2. x \in t /\ x \in Rules /\ x # rule /\ MatchesRequest(x, v.host, v.path)
      BY <1>1, <1>3, Zenon DEF SeenOf
    <3>3. rulesOverlap(rule, x)
      BY <1>2, <1>3, <1>5, <3>2, MatchingRulesOverlap, Zenon
    <3> QED  BY <1>1, <1>3, <3>2, <3>3, Zenon DEF normalizeRules
  <2>3. /\ v.best = NoRule => Beats(SeenOf(t, v) \cup {rule}, rule)
        /\ v.best # NoRule =>
             /\ compareCandidates(rule, v.best) \in {-1, 1}
             /\ compareCandidates(rule, v.best) = 1 => Beats(SeenOf(t, v) \cup {rule}, rule)
             /\ compareCandidates(rule, v.best) = -1 => Beats(SeenOf(t, v) \cup {rule}, v.best)
    <3>1. PICK S \in SUBSET Rules : S = SeenOf(t, v)
      BY <1>3, Zenon
    <3>2. PICK b : b = v.best
      BY Zenon
    <3>3. Beats(S, b) /\ rule \notin S /\ \A x \in S : compareCandidates(rule, x) # 0
      BY <1>1, <1>3, <2>2, <3>1, <3>2, Zenon
    <3>4. /\ b = NoRule => Beats(S \cup {rule}, rule)
          /\ b # NoRule => /\ compareCandidates(rule, b) \in {-1, 1}
                           /\ compareCandidates(rule, b) = 1 => Beats(S \cup {rule}, rule)
                           /\ compareCandidates(rule, b) = -1 => Beats(S \cup {rule}, b)
      BY <1>3, <3>3, BestIsKept, Zenon
    <3> QED  BY <3>1, <3>2, <3>4, Zenon
  <2>4. Beats(SeenOf(t, w), w.best)
    BY <1>5, <2>1, <2>3, Zenon
  <2> QED  BY <1>1, <1>5, <2>3, <2>4, Zenon DEF Visited
<1> QED  BY <1>4, <1>5, Zenon


LEMMA VisitStep ==
    ASSUME NEW rule, MatcherInv, Visit(rule)
    PROVE  MatcherInv'
<1>1. PICK t, v : t = staged /\ v = visiting
  BY Zenon
<1>2. Visited(t, v) /\ v \in VisitingType(t) /\ v.verdict = "visiting" /\ rule \in v.remaining
  BY <1>1, MatcherInvariantOfValues, Zenon DEF Visit, Visited
<1>3. t \subseteq Rules /\ v.remaining \in SUBSET t /\ v.best \in Rules \cup {NoRule}
  BY <1>2, VisitingFields, Zenon DEF Visited
<1>4. PICK best \in Rules \cup {NoRule} :
        /\ ~MatchesRequest(rule, v.host, v.path) => best = v.best
        /\ MatchesRequest(rule, v.host, v.path) =>
             best = IF v.best = NoRule \/ compareCandidates(rule, v.best) = 1 THEN rule ELSE v.best
  <2>1. rule \in Rules \cup {NoRule}
    BY <1>2, <1>3, Zenon
  <2> QED  BY <1>3, <2>1, Zenon
<1>5. PICK w : w = [v EXCEPT !.remaining = @ \ {rule}, !.best = best]
  BY Zenon
<1>6. /\ w \in VisitingType(t) /\ w.host = v.host /\ w.path = v.path
      /\ w.remaining = v.remaining \ {rule} /\ w.best = best /\ w.verdict = "visiting"
  BY <1>2, <1>4, <1>5, Zenon DEF VisitingType
<1>7. /\ Visited(t, w)
      /\ MatchesRequest(rule, v.host, v.path) /\ v.best # NoRule => compareCandidates(rule, v.best) \in {-1, 1}
  BY <1>2, <1>4, <1>6, VisitPreserves, Zenon
<1>8. visiting' = w /\ staged' = t
  <2> DEFINE u == [v EXCEPT !.remaining = @ \ {rule}]
  <2>1. u.host = v.host /\ u.path = v.path /\ u.best = v.best
    BY <1>2, Zenon DEF VisitingType
  <2>2. u = [v EXCEPT !.remaining = @ \ {rule}, !.best = v.best]
        /\ [u EXCEPT !.best = rule] = [v EXCEPT !.remaining = @ \ {rule}, !.best = rule]
    BY <1>2, Zenon DEF VisitingType
  <2>3. /\ staged' = t
        /\ visiting' =
             IF ~MatchesRequest(rule, v.host, v.path) THEN u
             ELSE IF v.best = NoRule THEN [u EXCEPT !.best = rule]
             ELSE IF compareCandidates(rule, v.best) > 0 THEN [u EXCEPT !.best = rule]
             ELSE IF compareCandidates(rule, v.best) = 0 THEN [u EXCEPT !.verdict = "conflict", !.remaining = {}]
             ELSE u
    <3>1. /\ UNCHANGED staged
          /\ visiting' =
               IF ~MatchesRequest(rule, u.host, u.path) THEN u
               ELSE IF u.best = NoRule THEN [u EXCEPT !.best = rule]
               ELSE IF compareCandidates(rule, u.best) > 0 THEN [u EXCEPT !.best = rule]
               ELSE IF compareCandidates(rule, u.best) = 0 THEN [u EXCEPT !.verdict = "conflict", !.remaining = {}]
               ELSE u
      BY <1>1, Zenon DEF Visit
    <3> HIDE DEF u
    <3> QED  BY <1>1, <2>1, <3>1, Zenon
  <2> HIDE DEF u
  <2>4. CASE ~MatchesRequest(rule, v.host, v.path)
    BY <1>4, <1>5, <2>2, <2>3, <2>4, Zenon
  <2>5. CASE MatchesRequest(rule, v.host, v.path) /\ v.best = NoRule
    BY <1>4, <1>5, <2>2, <2>3, <2>5, Zenon
  <2>6. CASE MatchesRequest(rule, v.host, v.path) /\ v.best # NoRule
    <3>1. \/ compareCandidates(rule, v.best) = 1 /\ compareCandidates(rule, v.best) > 0
          \/ /\ ~(compareCandidates(rule, v.best) > 0) /\ compareCandidates(rule, v.best) # 0
             /\ compareCandidates(rule, v.best) # 1
      BY <1>7, <2>6
    <3> QED  BY <1>4, <1>5, <2>2, <2>3, <2>6, <3>1, Zenon
  <2> QED  BY <2>4, <2>5, <2>6, Zenon
<1> QED  BY <1>7, <1>8, MatcherInvariantOfValues, Zenon DEF MatcherInv, Visited, VisitingType, SeenOf, Seen, Beats

LEMMA RequestStep ==
    ASSUME NEW host \in RequestHosts, NEW path \in RequestPaths, MatcherInv, Request(host, path)
    PROVE  MatcherInv'
<1>1. PICK t : t = staged
  BY Zenon
<1>2. PICK w : w = [host |-> host, path |-> path, remaining |-> t, best |-> NoRule, verdict |-> "visiting"]
  BY Zenon
<1>3. host \in Seq(Nat) /\ path \in Seq(Nat) /\ t \subseteq Rules /\ normalizeRules(t)
  BY <1>1, MatcherAssumption, Zenon DEF MatcherInv
<1>4. w \in VisitingType(t) /\ w.remaining = t /\ w.best = NoRule /\ w.verdict = "visiting"
  BY <1>2, <1>3, Zenon DEF VisitingType
<1>5. Beats(SeenOf(t, w), w.best)
  BY <1>4, Zenon DEF SeenOf, Beats
<1>6. Visited(t, w)
  BY <1>3, <1>4, <1>5, Zenon DEF Visited
<1>7. visiting' = w /\ staged' = t
  BY <1>1, <1>2, Zenon DEF Request
<1> QED  BY <1>6, <1>7, Zenon DEF MatcherInv, Visited, VisitingType, SeenOf, Seen, Beats

LEMMA NoRequestIsVisited ==
    ASSUME NEW t \in SUBSET Rules, normalizeRules(t)
    PROVE  Visited(t, NoRequest)
<1>1. NoRequest \in VisitingType(t) /\ NoRequest.verdict = "none"
  BY DEF NoRequest, VisitingType
<1> QED  BY <1>1, Zenon DEF Visited

LEMMA StageStep ==
    ASSUME NEW table \in SUBSET Rules, MatcherInv, Stage(table)
    PROVE  MatcherInv'
<1>1. staged' = table /\ visiting' = NoRequest /\ normalizeRules(table)
  BY Zenon DEF Stage
<1>2. Visited(table, NoRequest)
  BY <1>1, NoRequestIsVisited, Zenon
<1> QED  BY <1>1, <1>2, Zenon DEF MatcherInv, Visited, VisitingType, SeenOf, Seen, Beats

LEMMA ChosenStep ==
    ASSUME MatcherInv, Chosen
    PROVE  MatcherInv'
<1>1. PICK t, v : t = staged /\ v = visiting
  BY Zenon
<1>2. /\ Visited(t, v) /\ v \in VisitingType(t) /\ v.verdict = "visiting" /\ v.remaining = {}
      /\ Beats(SeenOf(t, v), v.best)
  BY <1>1, MatcherInvariantOfValues, Zenon DEF Chosen, Visited
<1>3. PICK w : w = [v EXCEPT !.verdict = IF v.best = NoRule THEN "no match" ELSE "match"]
  BY Zenon
<1>4. /\ w \in VisitingType(t) /\ w.host = v.host /\ w.path = v.path /\ w.remaining = {} /\ w.best = v.best
      /\ w.verdict = IF v.best = NoRule THEN "no match" ELSE "match"
  BY <1>2, <1>3, Zenon DEF VisitingType
<1>5. SeenOf(t, w) = SeenOf(t, v)
  BY <1>2, <1>4, Zenon DEF SeenOf
<1>6. Visited(t, w)
  BY <1>2, <1>4, <1>5, Zenon DEF Visited
<1>7. visiting' = w /\ staged' = t
  BY <1>1, <1>3, Zenon DEF Chosen
<1> QED  BY <1>6, <1>7, Zenon DEF MatcherInv, Visited, VisitingType, SeenOf, Seen, Beats

(* normalizeRules, chooseRule: while the rules of a staged table are visited,  *)
(* the best so far is the one rule that outranks everything else seen, and no  *)
(* two rules tie.                                                              *)
THEOREM MatcherInvariant == MatcherSpec => []MatcherInv
<1>1. MatcherInit => MatcherInv
  <2>1. SUFFICES ASSUME MatcherInit PROVE MatcherInv
    BY Zenon
  <2>2. normalizeRules({})
    BY Zenon DEF normalizeRules
  <2>3. Visited({}, NoRequest)
    BY <2>2, NoRequestIsVisited, Zenon
  <2> QED  BY <2>1, <2>3, MatcherInvariantOfValues, Zenon DEF MatcherInit
<1>2. MatcherInv /\ [MatcherNext]_matcherVars => MatcherInv'
  <2> SUFFICES ASSUME MatcherInv, [MatcherNext]_matcherVars
               PROVE  MatcherInv'
    BY Zenon
  <2>1. CASE Chosen
    BY <2>1, ChosenStep, Zenon
  <2>2. ASSUME NEW table \in SUBSET Rules, Stage(table)
        PROVE  MatcherInv'
    BY <2>2, StageStep, Zenon
  <2>3. ASSUME NEW host \in RequestHosts, NEW path \in RequestPaths, Request(host, path)
        PROVE  MatcherInv'
    BY <2>3, RequestStep, Zenon
  <2>4. ASSUME NEW rule \in Rules, Visit(rule)
        PROVE  MatcherInv'
    BY <2>4, VisitStep, Zenon
  <2>5. CASE UNCHANGED matcherVars
    BY <2>5, Zenon DEF matcherVars, MatcherInv, Seen
  <2> QED  BY <2>1, <2>2, <2>3, <2>4, <2>5, Zenon DEF MatcherNext
<1> QED  BY <1>1, <1>2, PTL DEF MatcherSpec

(* chooseRule: for every table normalizeRules accepts and every order of its   *)
(* rules, the request is served by the rule that is better than every other    *)
(* rule that matches it, and by none only if none matches.                     *)
THEOREM BestRuleWins == MatcherSpec => []BestRuleIsChosen
<1>1. MatcherInv => BestRuleIsChosen
  <2> SUFFICES ASSUME MatcherInv
               PROVE  BestRuleIsChosen
    BY Zenon
  <2>1. PICK t, v : t = staged /\ v = visiting
    BY Zenon
  <2>2. Visited(t, v)
    BY <2>1, MatcherInvariantOfValues, Zenon
  <2>3. v.host \in Seq(Nat) /\ v.path \in Seq(Nat) /\ t \subseteq Rules
    BY <2>2, VisitingFields, Zenon DEF Visited
  <2> DEFINE matching == {r \in t : MatchesRequest(r, v.host, v.path)}
  <2>4. ASSUME v.verdict = "match"
        PROVE  v.best \in matching /\ \A r \in matching \ {v.best} : Better(v.best, r)
    <3>1. v.remaining = {} /\ v.best # NoRule /\ Beats(SeenOf(t, v), v.best)
      BY <2>2, <2>4, Zenon DEF Visited
    <3>2. SeenOf(t, v) = matching
      BY <3>1, Zenon DEF SeenOf
    <3>3. v.best \in matching /\ \A r \in matching \ {v.best} : compareCandidates(v.best, r) = 1
      BY <3>1, <3>2, Zenon DEF Beats
    <3>4. ASSUME NEW r \in matching \ {v.best}
          PROVE  Better(v.best, r)
      <4>1. /\ v.best \in Rules /\ MatchesRequest(v.best, v.host, v.path) /\ r \in Rules /\ MatchesRequest(r, v.host, v.path)
            /\ compareCandidates(v.best, r) = 1
        BY <2>3, <3>3, <3>4, Zenon
      <4>2. Outranks(v.best, r)
        BY <4>1, ComparesRanks, Zenon
      <4> QED  BY <2>3, <4>1, <4>2, OutranksIsBetter, Zenon
    <3> QED  BY <3>3, <3>4, Zenon
  <2>5. ASSUME v.verdict = "no match"
        PROVE  matching = {}
    <3>1. v.remaining = {} /\ v.best = NoRule /\ Beats(SeenOf(t, v), v.best)
      BY <2>2, <2>5, Zenon DEF Visited
    <3>2. SeenOf(t, v) = matching
      BY <3>1, Zenon DEF SeenOf
    <3> QED  BY <3>1, <3>2, Zenon DEF Beats
  <2> QED  BY <2>1, <2>4, <2>5, Zenon DEF BestRuleIsChosen
<1> QED  BY <1>1, MatcherInvariant, PTL

(* No request of a staged table ends in ErrMatchConflict.                      *)
THEOREM NoStagedConflict == MatcherSpec => []StagedTableHasNoConflict
<1>1. MatcherInv => StagedTableHasNoConflict
  <2>1. MatcherInv => visiting.verdict \in {"none", "visiting", "match", "no match"}
    BY MatcherInvariantOfValues, VisitingFields, Zenon DEF Visited
  <2> QED  BY <2>1, Zenon DEF StagedTableHasNoConflict
<1> QED  BY <1>1, MatcherInvariant, PTL
=============================================================================
