------------------------- MODULE RouteWorkerProofs -------------------------
(* Proofs about RouteWorker for any tunnels, assignments, local generations     *)
(* and leases: what serves was accepted, what serves and is still offered is    *)
(* admitted, and a promotion never goes back to an older assignment.           *)
EXTENDS RouteWorker, TLAPS

LEMMA AssignmentFacts == \A a \in Assignments : TunnelOf(a) \in Tunnels /\ GenOf(a) \in Nat \ {0}
<1>1. ASSUME NEW t, NEW n \in 1..MaxAssignment
      PROVE  n \in Nat \ {0}
  OBVIOUS
<1> QED  BY <1>1, Zenon DEF Assignments, TunnelOf, GenOf

LEMMA SameAssignment ==
    \A a \in Assignments, b \in Assignments :
        TunnelOf(a) = TunnelOf(b) /\ GenOf(a) = GenOf(b) => a = b
  BY DEF Assignments, TunnelOf, GenOf

LEMMA IdsOfRules == \A S : Ids(RulesOf(S)) = Ids(S)
<1> TAKE S
<1>1. ASSUME NEW r \in S
      PROVE  [of |-> r.of, observed |-> r.observed].of = r.of
  BY Zenon
<1>2. ASSUME NEW a \in Ids(S)
      PROVE  a \in Ids(RulesOf(S))
  <2>1. PICK r \in S : a = r.of
    BY <1>2, Zenon DEF Ids
  <2>2. [of |-> r.of, observed |-> r.observed] \in RulesOf(S)
    BY Zenon DEF RulesOf
  <2> QED  BY <2>1, <2>2, <1>1, Zenon DEF Ids
<1>3. ASSUME NEW a \in Ids(RulesOf(S))
      PROVE  a \in Ids(S)
  <2>1. PICK q \in RulesOf(S) : a = q.of
    BY <1>3, Zenon DEF Ids
  <2>2. PICK r \in S : q = [of |-> r.of, observed |-> r.observed]
    BY <2>1, Zenon DEF RulesOf
  <2> QED  BY <2>1, <2>2, <1>1, Zenon DEF Ids
<1> QED  BY <1>2, <1>3, Zenon

LEMMA IdsOfRows == \A S \in SUBSET Rows : Ids(S) \subseteq Assignments
  BY Zenon DEF Ids, Rows

-----------------------------------------------------------------------------
(* What the worker has found out stays true when the control plane moves on:   *)
(* rows that were issued are only withdrawn, and acceptances only added.       *)

Moves(offered, known, acknowledged, offered2, known2, acknowledged2) ==
    /\ known \subseteq known2 /\ acknowledged \subseteq acknowledged2
    /\ acknowledged \subseteq known /\ offered2 \cap known \subseteq offered

LEMMA MoveKeepsRecord ==
    ASSUME NEW off, NEW known, NEW acc, NEW off2, NEW known2, NEW acc2,
           Moves(off, known, acc, off2, known2, acc2), NEW srv, NEW adm, NEW v,
           ServiceRecord(off, acc, srv, adm, v)
    PROVE  ServiceRecord(off2, acc2, srv, adm, v)
  BY Zenon DEF Moves, ServiceRecord

LEMMA MoveKeepsCandidate ==
    ASSUME NEW off, NEW known, NEW acc, NEW off2, NEW known2, NEW acc2,
           Moves(off, known, acc, off2, known2, acc2), NEW srv, NEW adm, NEW v, NEW r,
           ServiceRecord(off, acc, srv, adm, v), CandidateRecord(off, known, acc, srv, adm, v, r)
    PROVE  CandidateRecord(off2, known2, acc2, srv, adm, v, r)
<1>1. srv \cap off2 \subseteq srv \cap off
  BY Zenon DEF Moves, ServiceRecord
<1>2. Ids(r.active) \subseteq known => Ids(r.active) \cap off2 \subseteq Ids(r.active) \cap off
  BY Zenon DEF Moves
<1> QED  BY <1>1, <1>2, Zenon DEF Moves, CandidateRecord

RowsMove ==
    /\ RowTypes' /\ RowsInv'
    /\ Moves(Offered, Issued, accepted, Offered', Issued', accepted')

LEMMA PublishMoves ==
    ASSUME RowTypes, RowsInv, NEW t \in Tunnels, Publish(t)
    PROVE  RowsMove
<1> DEFINE n == <<t, issued[t] + 1>>
<1> USE AssignmentFacts
<1>1. RowTypes' /\ accepted' = accepted
  BY DEF Publish, RowTypes
<1>2. \A a \in Assignments : issued'[TunnelOf(a)] = IF TunnelOf(a) = t THEN issued[t] + 1 ELSE issued[TunnelOf(a)]
  BY Zenon DEF Publish, RowTypes
<1>3. Issued \subseteq Issued' /\ \A a \in Issued : a # n
  BY <1>2 DEF Issued, RowTypes, TunnelOf, GenOf
<1>4. n \in Assignments => n \in Issued' /\ TunnelOf(n) = t /\ GenOf(n) = issued[t] + 1
  BY <1>2 DEF Issued, TunnelOf, GenOf, RowTypes
<1>5. \A a \in Assignments : \/ a = n /\ desired'[a] \in {"active", "staged"}
                             \/ a # n /\ desired'[a] \in {"absent", desired[a]}
  <2>1. n \in Assignments => n \notin InState(t, "staged")
    BY <1>3, Zenon DEF RowsInv, InState, RowsOf
  <2> QED  BY <2>1, Zenon DEF Publish
<1>6. \A a \in Assignments : a # n /\ TunnelOf(a) = t => desired'[a] # "staged"
  BY Zenon DEF Publish, InState, RowsOf
<1>7. desired'[n] = "active" /\ n \in Assignments => \A a \in Assignments : TunnelOf(a) = t => desired[a] # "active"
  BY Zenon DEF Publish, InState, RowsOf
<1>8. RowsInv'
  <2>1. \A a \in Assignments : desired'[a] # "absent" => a \in Issued'
    BY <1>3, <1>4, <1>5, Zenon DEF RowsInv
  <2>2. accepted' \subseteq Issued' /\ \A a \in accepted' : desired'[a] # "staged"
    BY <1>1, <1>3, <1>5, Zenon DEF RowsInv, RowTypes
  <2>3. \A a \in Assignments : desired'[a] = "staged" => GenOf(a) = issued'[TunnelOf(a)]
    BY <1>2, <1>4, <1>5, <1>6, Zenon DEF RowsInv
  <2>4. ASSUME NEW a \in Assignments, NEW b \in Assignments,
               desired'[a] = "active", desired'[b] = "active", TunnelOf(a) = TunnelOf(b)
        PROVE  a = b
    BY <2>4, <1>4, <1>5, <1>7, Zenon DEF RowsInv
  <2>5. ASSUME NEW a \in accepted, NEW b \in Assignments, desired'[b] = "active", TunnelOf(a) = TunnelOf(b)
        PROVE  GenOf(a) <= GenOf(b)
    <3>1. CASE b = n
      <4>1. a \in Assignments /\ GenOf(a) <= issued[t]
        BY <2>5, <3>1, <1>4, Zenon DEF RowsInv, Issued, RowTypes
      <4> QED  BY <4>1, <3>1, <1>4 DEF RowTypes
    <3>2. CASE b # n
      BY <2>5, <3>2, <1>5, Zenon DEF RowsInv
    <3> QED  BY <3>1, <3>2, Zenon
  <2> QED  BY <1>1, <2>1, <2>2, <2>3, <2>4, <2>5, Zenon DEF RowsInv
<1>9. Offered' \cap Issued \subseteq Offered
  BY <1>3, <1>5, Zenon DEF Offered
<1> QED  BY <1>1, <1>3, <1>8, <1>9, Zenon DEF RowsMove, Moves, RowsInv

(* Rows that only disappear. *)
LEMMA WithdrawalMoves ==
    ASSUME RowTypes, RowsInv, NEW gone, UNCHANGED <<issued, accepted>>,
           desired' = [a \in Assignments |-> IF a \in gone THEN "absent" ELSE desired[a]]
    PROVE  RowsMove
<1>1. RowTypes'
  BY Zenon DEF RowTypes
<1>2. \A a \in Assignments : desired'[a] \in {"absent", desired[a]}
  BY Zenon
<1>3. Issued' = Issued
  BY Zenon DEF Issued
<1>4. RowsInv'
  BY <1>2, <1>3, Zenon DEF RowsInv, RowTypes
<1>5. Offered' \subseteq Offered
  BY <1>2, Zenon DEF Offered
<1> QED  BY <1>1, <1>3, <1>4, <1>5, Zenon DEF RowsMove, Moves, RowsInv

LEMMA ControlPlaneMoves ==
    ASSUME RowTypes, RowsInv, NEW t \in Tunnels, Publish(t) \/ Withdraw(t) \/ RemoveTunnel(t)
    PROVE  RowsMove
<1>1. CASE Withdraw(t)
  BY <1>1, WithdrawalMoves, Zenon DEF Withdraw
<1>2. CASE RemoveTunnel(t)
  <2>1. desired' = [a \in Assignments |-> IF a \in RowsOf(t) THEN "absent" ELSE desired[a]]
    BY <1>2, Zenon DEF RemoveTunnel, RowsOf
  <2> QED  BY <1>2, <2>1, WithdrawalMoves, Zenon DEF RemoveTunnel
<1> QED  BY <1>1, <1>2, PublishMoves, Zenon

LEMMA DetachedMoves ==
    ASSUME RowTypes, RowsInv, NEW S, AcceptDetached(S)
    PROVE  RowsMove
  BY WithdrawalMoves, Zenon DEF AcceptDetached

LEMMA SameRows ==
    ASSUME RowTypes, RowsInv, UNCHANGED control
    PROVE  RowsMove
<1>1. Issued' = Issued /\ Offered' = Offered /\ accepted' = accepted
  BY Zenon DEF control, Issued, Offered
<1>2. RowTypes' /\ RowsInv'
  BY <1>1, Zenon DEF control, RowTypes, RowsInv
<1> QED  BY <1>1, <1>2, Zenon DEF RowsMove, Moves, RowsInv

(* A set of rows with one of a tunnel at most names one assignment of it.      *)
LEMMA OneOfATunnel ==
    \A S \in Selections : \A a \in Ids(S), b \in Ids(S) : TunnelOf(a) = TunnelOf(b) => a = b
  BY Zenon DEF Selections, Ids

LEMMA ReadyMoves ==
    ASSUME RowTypes, RowsInv, NEW S \in Selections, Acceptable(Ids(S)), AcceptReady(Ids(S))
    PROVE  RowsMove /\ Ids(S) \subseteq accepted'
<1> DEFINE N == Ids(S)
<1>1. N \subseteq Assignments /\ \A a \in N, b \in N : TunnelOf(a) = TunnelOf(b) => a = b
  BY IdsOfRows, OneOfATunnel, Zenon DEF Selections
<1>2. \A a \in N : desired[a] \in {"staged", "active"}
  BY Zenon DEF Acceptable
<1> HIDE DEF N
<1>3. accepted' = accepted \cup N /\ issued' = issued
  BY Zenon DEF AcceptReady, N
<1>4. ASSUME NEW a \in Assignments
      PROVE  /\ a \in N => desired'[a] = "active"
             /\ a \notin N => desired'[a] \in {desired[a], "draining"}
             /\ a \notin N /\ desired'[a] = "draining" => desired[a] \in {"active", "draining"}
             /\ a \notin N /\ desired'[a] = "active" => \A b \in N : TunnelOf(b) # TunnelOf(a)
  <2> DEFINE replaced == a \notin N /\ desired[a] = "active" /\ \E c \in N : TunnelOf(c) = TunnelOf(a)
  <2>1. desired'[a] = CASE a \in N -> "active" [] replaced -> "draining" [] OTHER -> desired[a]
    BY Zenon DEF AcceptReady, N
  <2>2. CASE a \in N
    <3>1. ~replaced
      BY <2>2, Zenon
    <3>2. desired'[a] = "active"
      BY <2>1, <2>2, <3>1, Zenon
    <3> QED  BY <3>2, <2>2, Zenon
  <2>3. CASE a \notin N /\ replaced
    BY <2>1, <2>3, Zenon
  <2>4. CASE a \notin N /\ ~replaced
    <3>1. desired'[a] = desired[a]
      BY <2>1, <2>4, Zenon
    <3> QED  BY <3>1, <2>4, Zenon DEF RowTypes
  <2> QED  BY <2>2, <2>3, <2>4, Zenon
<1>5. Issued' = Issued /\ RowTypes'
  <2>1. desired' \in [Assignments -> {"absent", "staged", "active", "draining"}]
    <3>1. \A a \in Assignments : desired'[a] \in {"absent", "staged", "active", "draining"}
      BY <1>4, Zenon DEF RowTypes
    <3> QED  BY <3>1, Zenon DEF AcceptReady
  <2> QED  BY <1>1, <1>3, <2>1, Zenon DEF Issued, RowTypes
<1>6. N \subseteq Issued
  BY <1>1, <1>2, Zenon DEF RowsInv
<1>7. \A a \in Assignments : desired'[a] # "absent" => a \in Issued'
  BY <1>4, <1>5, <1>6, Zenon DEF RowsInv
<1>8. accepted' \subseteq Issued' /\ \A a \in accepted' : desired'[a] # "staged"
  BY <1>3, <1>4, <1>5, <1>6, Zenon DEF RowsInv, RowTypes
<1>9. \A a \in Assignments : desired'[a] = "staged" => GenOf(a) = issued'[TunnelOf(a)]
  BY <1>3, <1>4, Zenon DEF RowsInv
<1>10. ASSUME NEW a \in Assignments, NEW b \in Assignments,
              desired'[a] = "active", desired'[b] = "active", TunnelOf(a) = TunnelOf(b)
       PROVE  a = b
  BY <1>1, <1>4, <1>10, Zenon DEF RowsInv
<1>11. ASSUME NEW a \in accepted', NEW b \in Assignments, desired'[b] = "active", TunnelOf(a) = TunnelOf(b)
       PROVE  GenOf(a) <= GenOf(b)
  <2>1. CASE b \notin N
    <3>1. a \in accepted /\ desired[b] = "active"
      BY <1>3, <1>4, <1>11, <2>1, Zenon
    <3> QED  BY <3>1, <1>11, Zenon DEF RowsInv
  <2>2. CASE b \in N /\ a \in N
    BY <1>1, <1>11, <2>2, AssignmentFacts
  <2>3. CASE b \in N /\ a \in accepted /\ desired[b] = "active"
    BY <1>11, <2>3, Zenon DEF RowsInv
  <2>4. CASE b \in N /\ a \in accepted /\ desired[b] = "staged"
    BY <1>11, <2>4, Zenon DEF RowsInv, Issued
  <2> QED  BY <1>2, <1>3, <2>1, <2>2, <2>3, <2>4, Zenon
<1>12. RowsInv'
  BY <1>7, <1>8, <1>9, <1>10, <1>11, Zenon DEF RowsInv
<1>13. Offered' \subseteq Offered
  BY <1>2, <1>4, Zenon DEF Offered
<1> QED  BY <1>3, <1>5, <1>12, <1>13, Zenon DEF RowsMove, Moves, RowsInv, N

-----------------------------------------------------------------------------
(* Steps that leave the record and the registry alone.                         *)

Quiet == {"idle", "stopped", "flush", "observe"}

SameRecord(v, v2) ==
    /\ v2 \in WorkerFields /\ v2.hash = v.hash /\ v2.set = v.set
    /\ v2.assignments = v.assignments /\ v2.pendingAdmissions = v.pendingAdmissions

LEMMA EmptySelection == {} \in Selections /\ {} \in SUBSET Rows
  BY Zenon DEF Selections

LEMMA FinishEnds ==
    ASSUME NEW r \in RunFields, NEW err, Finish(r, err)
    PROVE  run' \in RunFields /\ run'.pc \in Quiet
  BY EmptySelection, Zenon DEF Finish, IdleRun, RunFields, Quiet

LEMMA SameRecordKept ==
    ASSUME NEW off, NEW acc, NEW srv, NEW adm, NEW v, NEW v2, SameRecord(v, v2),
           ServiceRecord(off, acc, srv, adm, v)
    PROVE  ServiceRecord(off, acc, srv, adm, v2)
  BY Zenon DEF SameRecord, ServiceRecord

LEMMA SameCandidateKept ==
    ASSUME NEW off, NEW known, NEW acc, NEW srv, NEW adm, NEW v, NEW v2, NEW r, SameRecord(v, v2),
           CandidateRecord(off, known, acc, srv, adm, v, r)
    PROVE  CandidateRecord(off, known, acc, srv, adm, v2, r)
  BY Zenon DEF SameRecord, CandidateRecord

LEMMA NothingUnderWay ==
    ASSUME NEW off, NEW known, NEW acc, NEW srv, NEW adm, NEW v, NEW r, NEW tables, NEW o, r.pc \in Quiet
    PROVE  CandidateRecord(off, known, acc, srv, adm, v, r) /\ StagedInv(tables, o, r)
  BY Zenon DEF Quiet, CandidateRecord, StagedInv

LEMMA RecordFollows ==
    ASSUME WorkerInv, RowsMove, UNCHANGED <<active, rules, admissions>>, SameRecord(w, w')
    PROVE  /\ Served' = Served
           /\ ServiceRecord(Offered', accepted', Served', admissions', w')
           /\ CandidateRecord(Offered', Issued', accepted', Served', admissions', w', run)
<1>1. Served' = Served /\ admissions' = admissions
  BY Zenon DEF Served
<1>2. ServiceRecord(Offered', accepted', Served, admissions, w)
  BY MoveKeepsRecord, Zenon DEF WorkerInv, RowsMove
<1>3. CandidateRecord(Offered', Issued', accepted', Served, admissions, w, run)
  BY MoveKeepsCandidate, Zenon DEF WorkerInv, RowsMove
<1> QED  BY <1>1, <1>2, <1>3, SameRecordKept, SameCandidateKept, Zenon

LEMMA QuietStep ==
    ASSUME WorkerInv, RowsMove, RegistryTypes', UNCHANGED <<active, rules, admissions>>, SameRecord(w, w'),
           run' \in RunFields, run'.pc \in Quiet
    PROVE  WorkerInv'
<1>1. ServiceRecord(Offered', accepted', Served', admissions', w') /\ w' \in WorkerFields
  BY RecordFollows, Zenon DEF SameRecord
<1> QED  BY <1>1, NothingUnderWay, Zenon DEF WorkerInv, RowsMove

(* The registry's steps in between: a stream comes or goes, nothing happens.   *)
LEMMA IdleStep ==
    ASSUME WorkerInv, RowsMove, UNCHANGED <<active, rules, op, admissions, w, run>>
    PROVE  WorkerInv'
<1>1. RegistryTypes' /\ StagedInv(rules', op'[TheWorker], run')
  BY Zenon DEF WorkerInv, RegistryTypes
<1>2. SameRecord(w, w')
  BY Zenon DEF SameRecord, WorkerInv
<1> QED  BY <1>1, <1>2, RecordFollows, Zenon DEF WorkerInv, RowsMove

LEMMA ControlPlaneStep ==
    ASSUME WorkerInv, NEW t \in Tunnels, Publish(t) \/ Withdraw(t) \/ RemoveTunnel(t)
    PROVE  WorkerInv'
<1>1. RowsMove
  BY ControlPlaneMoves, Zenon DEF WorkerInv
<1>2. UNCHANGED <<active, rules, op, admissions, w, run>>
  BY Zenon DEF Publish, Withdraw, RemoveTunnel, registryVars, localVars
<1> QED  BY <1>1, <1>2, IdleStep, Zenon

LEMMA StreamsStep ==
    ASSUME WorkerInv, Streams
    PROVE  WorkerInv'
<1>1. RowsMove
  BY SameRows, Zenon DEF WorkerInv, Streams
<1>2. UNCHANGED <<active, rules, op>>
  BY Zenon DEF Streams, R!Acquire, R!RequestEnds, R!WatcherCloses, R!Release, R!ReleaseMarks, R!registry
<1>3. UNCHANGED <<admissions, w, run>>
  BY Zenon DEF Streams, localVars
<1> QED  BY <1>1, <1>2, <1>3, IdleStep, Zenon

-----------------------------------------------------------------------------
(* The reports. *)

LEMMA ObservationMoves ==
    ASSUME WorkerInv, Acceptable(Observation), AcceptReady(Observation)
    PROVE  RowsMove /\ Observation \subseteq accepted'
<1>1. PICK S \in Selections : Observation = Ids(S)
  <2>1. run.readied \in Selections /\ run.active \in Selections
    BY Zenon DEF WorkerInv, RunFields
  <2> QED  BY <2>1, Zenon DEF Observation
<1> QED  BY <1>1, ReadyMoves, Zenon DEF WorkerInv

LEMMA UncertainMoves ==
    ASSUME WorkerInv, (Acceptable(Observation) /\ AcceptReady(Observation)) \/ UNCHANGED control
    PROVE  RowsMove
  BY ObservationMoves, SameRows, Zenon DEF WorkerInv

LEMMA WorkerRecord == WorkerInv => SameRecord(w, w)
  BY Zenon DEF WorkerInv, SameRecord

LEMMA PullFailsStep ==
    ASSUME WorkerInv, PullFails
    PROVE  WorkerInv'
<1>1. RowsMove
  BY SameRows, Zenon DEF WorkerInv, PullFails
<1>2. RegistryTypes' /\ UNCHANGED <<active, rules, admissions, w>>
  BY Zenon DEF PullFails, registryVars, WorkerInv, RegistryTypes
<1>3. run' \in RunFields /\ run'.pc \in Quiet
  BY FinishEnds, Zenon DEF PullFails, WorkerInv
<1> QED  BY <1>1, <1>2, <1>3, WorkerRecord, QuietStep, Zenon

LEMMA AcknowledgementLostStep ==
    ASSUME WorkerInv, AcknowledgementLost
    PROVE  WorkerInv'
<1>1. RowsMove
  BY UncertainMoves, Zenon DEF AcknowledgementLost
<1>2. UNCHANGED <<active, rules, admissions, w>>
  BY Zenon DEF AcknowledgementLost, R!AbandonStaged, R!registry
<1>3. RegistryTypes'
  <2>1. R!IdleOp \in R!OpState
    BY Zenon DEF R!IdleOp, R!OpState, R!Tables, R!NoGeneration
  <2>2. op' \in [{TheWorker} -> R!OpState]
    BY <2>1, Zenon DEF AcknowledgementLost, R!AbandonStaged, WorkerInv, RegistryTypes
  <2> QED  BY <1>2, <2>2, Zenon DEF WorkerInv, RegistryTypes
<1>4. run' \in RunFields /\ run'.pc \in Quiet
  BY FinishEnds, Zenon DEF AcknowledgementLost, WorkerInv
<1> QED  BY <1>1, <1>2, <1>3, <1>4, WorkerRecord, QuietStep, Zenon

LEMMA FlushStep ==
    ASSUME WorkerInv, FlushDetached \/ FlushLost
    PROVE  WorkerInv'
<1>1. RowsMove
  BY DetachedMoves, SameRows, Zenon DEF FlushDetached, FlushLost, WorkerInv
<1>2. RegistryTypes' /\ UNCHANGED <<active, rules, admissions>>
  BY Zenon DEF FlushDetached, FlushLost, registryVars, WorkerInv, RegistryTypes
<1>3. SameRecord(w, w')
  <2>1. CASE w' = [w EXCEPT !.pendingDetached = {}]
    BY <2>1, Zenon DEF SameRecord, WorkerInv, WorkerFields
  <2>2. CASE w' = w
    BY <2>2, WorkerRecord, Zenon
  <2> QED  BY <2>1, <2>2, Zenon DEF FlushDetached, FlushLost
<1>4. run' \in RunFields /\ run'.pc \in Quiet
  <2>1. CASE \E err : Finish(run, err)
    BY <2>1, FinishEnds, Zenon DEF WorkerInv
  <2>2. CASE run' = [run EXCEPT !.pc = "observe"]
    BY <2>2, Zenon DEF WorkerInv, RunFields, Quiet
  <2> QED  BY <2>1, <2>2, Zenon DEF FlushDetached, FlushLost, AfterFlush
<1> QED  BY <1>1, <1>2, <1>3, <1>4, QuietStep, Zenon

LEMMA ObserveStep ==
    ASSUME WorkerInv, ObserveReady \/ ObserveLost
    PROVE  WorkerInv'
<1>1. RowsMove
  BY UncertainMoves, Zenon DEF ObserveReady, ObserveLost
<1>2. RegistryTypes' /\ UNCHANGED <<active, rules, admissions, w>>
  BY Zenon DEF ObserveReady, ObserveLost, registryVars, WorkerInv, RegistryTypes
<1>3. run' \in RunFields /\ run'.pc \in Quiet
  BY FinishEnds, Zenon DEF ObserveReady, ObserveLost, WorkerInv
<1> QED  BY <1>1, <1>2, <1>3, WorkerRecord, QuietStep, Zenon

(* The acknowledgement: what is about to be promoted has been accepted.        *)
LEMMA AcknowledgedStep ==
    ASSUME WorkerInv, Acknowledged
    PROVE  WorkerInv'
<1>1. RowsMove /\ Observation \subseteq accepted'
  BY ObservationMoves, Zenon DEF Acknowledged
<1>2. UNCHANGED <<active, rules, admissions, w>>
  BY Zenon DEF Acknowledged, R!ConfirmReady, R!registry
<1>3. /\ run.pc = "acknowledge" /\ run' \in RunFields /\ run'.pc = "handover"
      /\ run'.active = run.active /\ run'.generation = run.generation
  BY Zenon DEF Acknowledged, WorkerInv, RunFields
<1>4. op' \in [{TheWorker} -> R!OpState] /\ op'[TheWorker].gen = op[TheWorker].gen
  BY Zenon DEF Acknowledged, R!ConfirmReady, WorkerInv, RegistryTypes, R!OpState
<1>5. RegistryTypes' /\ StagedInv(rules', op'[TheWorker], run')
  BY <1>2, <1>3, <1>4, Zenon DEF WorkerInv, RegistryTypes, StagedInv
<1>6. /\ ServiceRecord(Offered', accepted', Served', admissions', w')
      /\ CandidateRecord(Offered', Issued', accepted', Served', admissions', w', run)
  BY <1>1, <1>2, RecordFollows, WorkerRecord, Zenon
<1>7. Ids(run.active) \subseteq accepted'
  <2>1. Ids(w.assignments) \subseteq accepted'
    BY <1>2, <1>6, Zenon DEF ServiceRecord
  <2>2. Ids(run.active) \subseteq Ids(run.readied) \cup Ids(w.assignments)
    BY <1>3, Zenon DEF WorkerInv, CandidateRecord
  <2> QED  BY <1>1, <2>1, <2>2, Zenon DEF Observation
<1>8. CandidateRecord(Offered', Issued', accepted', Served', admissions', w', run')
  BY <1>3, <1>6, <1>7, Zenon DEF CandidateRecord
<1> QED  BY <1>1, <1>2, <1>3, <1>5, <1>6, <1>8, Zenon DEF WorkerInv, RowsMove

-----------------------------------------------------------------------------
(* The record and the admissions follow the registry.                          *)

LEMMA ServedTable ==
    ASSUME NEW S, active \in Generations, rules[active] = RulesOf(S)
    PROVE  Served = Ids(S)
<1>1. active # R!NoGeneration
  BY WorkerAssumption, Zenon DEF R!NoGeneration
<1> QED  BY <1>1, IdsOfRules, Zenon DEF Served

LEMMA SettleStep ==
    ASSUME WorkerInv, Settle
    PROVE  WorkerInv'
<1>1. RowsMove
  BY SameRows, Zenon DEF Settle, WorkerInv
<1>2. RegistryTypes' /\ UNCHANGED <<active, rules>>
  BY Zenon DEF Settle, registryVars, WorkerInv, RegistryTypes
<1>3. CASE run.failed = {} /\ ~Fenced(Ids(run.active))
  <2>1. run' \in RunFields /\ run'.pc \in Quiet /\ UNCHANGED <<w, admissions>>
    BY <1>3, FinishEnds, Zenon DEF Settle, WorkerInv
  <2> QED  BY <1>1, <1>2, <2>1, WorkerRecord, QuietStep, Zenon
<1>4. CASE ~(run.failed = {} /\ ~Fenced(Ids(run.active)))
  <2>1. run' \in RunFields /\ run'.pc \in Quiet
    <3>1. run' = [run EXCEPT !.pc = "flush"]
      BY <1>4, Zenon DEF Settle
    <3> QED  BY <3>1, Zenon DEF WorkerInv, RunFields, Quiet
  <2>2. SameRecord(w, w')
    <3>1. w' = [w EXCEPT !.pendingDetached = @ \cup Superseded]
      BY <1>4, Zenon DEF Settle
    <3>2. Superseded \subseteq Assignments
      BY DEF Superseded, WorkerInv, RunFields, Rows
    <3> QED  BY <3>1, <3>2, Zenon DEF SameRecord, WorkerInv, WorkerFields
  <2>3. CASE run.failed # {}
    <3>1. admissions' = admissions
      BY <1>4, <2>3, Zenon DEF Settle
    <3> QED  BY <1>1, <1>2, <2>1, <2>2, <3>1, QuietStep, Zenon
  <2>4. CASE run.failed = {}
    <3>1. admissions' = Ids(run.active)
      BY <1>4, <2>4, Zenon DEF Settle
    <3>2. UNCHANGED control /\ Served' = Served /\ Offered' = Offered /\ accepted' = accepted
      BY <1>2, Zenon DEF Settle, control, Served, Offered
    <3>3. Ids(run.active) = w.hash /\ Served \cap Offered \subseteq w.hash
      BY <2>4, Zenon DEF Settle, WorkerInv, CandidateRecord
    <3>4. ServiceRecord(Offered, accepted, Served, admissions', w)
      BY <3>1, <3>3, Zenon DEF WorkerInv, ServiceRecord
    <3>5. ServiceRecord(Offered', accepted', Served', admissions', w') /\ w' \in WorkerFields
      BY <3>2, <3>4, <2>2, SameRecordKept, Zenon DEF SameRecord
    <3> QED  BY <1>1, <1>2, <2>1, <3>5, NothingUnderWay, Zenon DEF WorkerInv, RowsMove
  <2> QED  BY <2>3, <2>4, Zenon
<1> QED  BY <1>3, <1>4, Zenon

LEMMA CommitStep ==
    ASSUME WorkerInv, Commit
    PROVE  WorkerInv'
<1>1. RowsMove
  BY SameRows, Zenon DEF Commit, WorkerInv
<1>2. RegistryTypes' /\ UNCHANGED <<active, rules>>
  BY Zenon DEF Commit, registryVars, WorkerInv, RegistryTypes
<1>3. CASE ~(active = run.generation /\ Fenced(Ids(run.active)))
  <2>1. run' \in RunFields /\ run'.pc \in Quiet /\ UNCHANGED <<w, admissions>>
    BY <1>3, FinishEnds, Zenon DEF Commit, WorkerInv
  <2> QED  BY <1>1, <1>2, <2>1, WorkerRecord, QuietStep, Zenon
<1>4. CASE active = run.generation /\ Fenced(Ids(run.active))
  <2>1. run' \in RunFields /\ run'.pc \in Quiet
    <3>1. run' = [run EXCEPT !.pc = "flush"]
      BY <1>4, Zenon DEF Commit
    <3> QED  BY <3>1, Zenon DEF WorkerInv, RunFields, Quiet
  <2>2. /\ Served = Ids(run.active) /\ Ids(run.active) \subseteq accepted
        /\ run.active \in Selections /\ run.generation \in Nat
    <3>1. run.generation \in Generations /\ rules[run.generation] = RulesOf(run.active)
      BY Zenon DEF Commit, WorkerInv, StagedInv
    <3>2. Served = Ids(run.active)
      BY <1>4, <3>1, ServedTable, Zenon
    <3> QED  BY <3>2, Zenon DEF Commit, WorkerInv, CandidateRecord, RunFields
  <2>3. /\ w' \in WorkerFields /\ w'.hash = Ids(run.active) /\ w'.assignments = run.active /\ w'.set
        /\ admissions' = Ids(run.active)
    <3>1. w' = [w EXCEPT !.pendingAdmissions = FALSE, !.generation = run.generation,
                         !.hash = Ids(run.active), !.set = TRUE, !.pendingSet = FALSE,
                         !.pendingDetached = (Ids(w.assignments) \ Ids(run.active)) \cup Superseded,
                         !.assignments = run.active]
      BY <1>4, Zenon DEF Commit
    <3>2. Superseded \subseteq Assignments
      BY DEF Superseded, WorkerInv, RunFields, Rows
    <3>3. w.assignments \in SUBSET Rows /\ run.active \in SUBSET Rows
      BY <2>2, Zenon DEF WorkerInv, WorkerFields, Selections
    <3>4. Ids(w.assignments) \subseteq Assignments /\ Ids(run.active) \subseteq Assignments
      BY <3>3, IdsOfRows, Zenon
    <3>5. w' \in WorkerFields /\ w'.hash = Ids(run.active) /\ w'.assignments = run.active /\ w'.set
      BY <2>2, <3>1, <3>2, <3>4, Zenon DEF WorkerInv, WorkerFields
    <3> QED  BY <1>4, <3>5, Zenon DEF Commit
  <2>4. Served' = Ids(run.active) /\ accepted' = accepted /\ Forward(Served, Served)
    BY <1>2, <2>2, Zenon DEF Served, Commit, control, WorkerInv, ServiceRecord
  <2>5. ServiceRecord(Offered', accepted', Served', admissions', w')
    BY <2>2, <2>3, <2>4, Zenon DEF ServiceRecord
  <2> QED  BY <1>1, <1>2, <2>1, <2>3, <2>5, NothingUnderWay, Zenon DEF WorkerInv, RowsMove
<1> QED  BY <1>3, <1>4, Zenon

-----------------------------------------------------------------------------
(* Promotion and staging. *)

LEMMA IdleOpType == R!IdleOp \in R!OpState /\ R!IdleOp.pc = "idle"
  BY Zenon DEF R!IdleOp, R!OpState, R!Tables, R!NoGeneration

(* What an applier's step does to its place in the registry.                   *)
LEMMA ApplierMoves ==
    ASSUME RegistryTypes, R!ApplierStep(TheWorker)
    PROVE  /\ RegistryTypes' /\ rules' = rules /\ op[TheWorker].pc # "idle"
           /\ op'[TheWorker].pc # "idle" => op'[TheWorker].gen = op[TheWorker].gen
           /\ active' \in {active, op[TheWorker].gen}
<1> DEFINE o == op[TheWorker]
<1>1. o \in R!OpState /\ active \in Generations \cup {R!NoGeneration}
  BY Zenon DEF RegistryTypes
<1>2. o.gen \in Generations \cup {R!NoGeneration}
  BY <1>1, Zenon DEF R!OpState
<1>3. rules' = rules /\ active' \in {active, o.gen} /\ o.pc # "idle"
  BY Zenon DEF R!ApplierStep, R!MarkGenerationReady, R!Promote, R!ActivateReturns, R!RetireImmediately,
         R!DrainCompleted, R!DrainForced, R!registry
<1>4. \/ op' = [op EXCEPT ![TheWorker] = R!IdleOp]
      \/ op' = [op EXCEPT ![TheWorker] = [@ EXCEPT !.pc = "activating"]]
      \/ \E p \in {"retiring", "draining"} : op' = [op EXCEPT ![TheWorker] = [@ EXCEPT !.old = active, !.pc = p]]
  BY Zenon DEF R!ApplierStep, R!MarkGenerationReady, R!Promote, R!ActivateReturns, R!RetireImmediately,
         R!DrainCompleted, R!DrainForced
<1>5. \E q \in R!OpState : op' = [op EXCEPT ![TheWorker] = q] /\ (q.pc = "idle" \/ q.gen = o.gen)
  <2>1. CASE op' = [op EXCEPT ![TheWorker] = R!IdleOp]
    BY <2>1, IdleOpType, Zenon
  <2>2. CASE op' = [op EXCEPT ![TheWorker] = [@ EXCEPT !.pc = "activating"]]
    <3>1. [o EXCEPT !.pc = "activating"] \in R!OpState /\ [o EXCEPT !.pc = "activating"].gen = o.gen
      BY <1>1, Zenon DEF R!OpState
    <3> QED  BY <2>2, <3>1, Zenon DEF RegistryTypes
  <2>3. ASSUME NEW p \in {"retiring", "draining"},
               op' = [op EXCEPT ![TheWorker] = [@ EXCEPT !.old = active, !.pc = p]]
        PROVE  \E q \in R!OpState : op' = [op EXCEPT ![TheWorker] = q] /\ (q.pc = "idle" \/ q.gen = o.gen)
    <3>1. [o EXCEPT !.old = active, !.pc = p] \in R!OpState /\ [o EXCEPT !.old = active, !.pc = p].gen = o.gen
      BY <1>1, Zenon DEF R!OpState
    <3> QED  BY <2>3, <3>1, Zenon DEF RegistryTypes
  <2> QED  BY <1>4, <2>1, <2>2, <2>3, Zenon
<1>6. op' \in [{TheWorker} -> R!OpState] /\ (op'[TheWorker].pc # "idle" => op'[TheWorker].gen = o.gen)
  BY <1>5, Zenon DEF RegistryTypes
<1> QED  BY <1>1, <1>2, <1>3, <1>6, Zenon DEF RegistryTypes

LEMMA HandoverStep ==
    ASSUME WorkerInv, Handover
    PROVE  WorkerInv'
<1>1. RowsMove /\ UNCHANGED <<control, admissions, w, run>>
  BY SameRows, Zenon DEF Handover, WorkerInv, localVars
<1>2. /\ RegistryTypes' /\ rules' = rules /\ op[TheWorker].pc # "idle"
      /\ op'[TheWorker].pc # "idle" => op'[TheWorker].gen = op[TheWorker].gen
      /\ active' \in {active, op[TheWorker].gen}
  BY ApplierMoves, Zenon DEF Handover, WorkerInv
<1>3. /\ run.pc = "handover" /\ op[TheWorker].gen = run.generation
      /\ run.generation \in Generations /\ rules[run.generation] = RulesOf(run.active)
      /\ run.active \in Selections
  BY <1>2, Zenon DEF Handover, WorkerInv, StagedInv, RunFields
<1>4. StagedInv(rules', op'[TheWorker], run')
  BY <1>1, <1>2, <1>3, Zenon DEF StagedInv
<1>5. Offered' = Offered /\ Issued' = Issued /\ accepted' = accepted
  BY <1>1, Zenon DEF control, Offered, Issued
<1>6. CASE active' = active
  <2>1. Served' = Served
    BY <1>2, <1>6, Zenon DEF Served
  <2> QED  BY <1>1, <1>2, <1>4, <1>5, <2>1, Zenon DEF WorkerInv, RowsMove
<1>7. CASE active' = run.generation
  <2>1. Served' = Ids(run.active)
    <3>1. active' \in Generations /\ rules'[active'] = RulesOf(run.active) /\ active' # R!NoGeneration
      BY <1>2, <1>3, <1>7, WorkerAssumption, Zenon DEF R!NoGeneration
    <3> QED  BY <3>1, IdsOfRules, Zenon DEF Served
  <2>2. Forward(Ids(run.active), Ids(run.active))
    <3>1. Ids(run.active) \subseteq Assignments
      BY <1>3, IdsOfRows, Zenon DEF Selections
    <3> QED  BY <1>3, <3>1, OneOfATunnel, AssignmentFacts DEF Forward
  <2>3. /\ run.active = {} \/ w.pendingAdmissions
        /\ Ids(run.active) \subseteq accepted
        /\ Ids(run.active) \cap Offered \subseteq admissions
    BY <1>3, Zenon DEF WorkerInv, CandidateRecord
  <2>4. run.active = {} => Ids(run.active) = {}
    BY Zenon DEF Ids
  <2>5. ServiceRecord(Offered, accepted, Ids(run.active), admissions, w)
    BY <2>2, <2>3, <2>4, Zenon DEF WorkerInv, ServiceRecord
  <2>6. CandidateRecord(Offered, Issued, accepted, Ids(run.active), admissions, w, run)
    BY <1>3, <2>2, Zenon DEF WorkerInv, CandidateRecord
  <2> QED  BY <1>1, <1>2, <1>4, <1>5, <2>1, <2>5, <2>6, Zenon DEF WorkerInv, RowsMove
<1> QED  BY <1>2, <1>3, <1>6, <1>7, Zenon

(* A generation is staged beside the one in service.                           *)
LEMMA StageKeepsServed ==
    ASSUME WorkerInv, Stage
    PROVE  Served' = Served
<1> DEFINE g == LocalGeneration
           t == RulesOf(run.active)
<1>1. CASE UNCHANGED <<active, rules>>
  BY <1>1, Zenon DEF Served
<1>2. CASE R!StageGeneration(TheWorker, g, t) /\ R!MayStage(g) /\ rules' = [rules EXCEPT ![g] = t]
  <2>1. active' = active
    BY <1>2, Zenon DEF R!StageGeneration, R!NewGenerationState
  <2>2. active # g
    BY <1>2, WorkerAssumption DEF R!MayStage, WorkerInv, RegistryTypes, Stage, R!NoGeneration
  <2> HIDE DEF g, t
  <2>3. active \in Generations => rules'[active] = rules[active]
    BY <1>2, <2>2, Zenon DEF WorkerInv, RegistryTypes
  <2> QED  BY <2>1, <2>3, Zenon DEF Served, WorkerInv, RegistryTypes
<1>3. \/ UNCHANGED <<active, rules>>
      \/ R!StageGeneration(TheWorker, g, t) /\ R!MayStage(g) /\ rules' = [rules EXCEPT ![g] = t]
  BY Zenon DEF Stage, registryVars, R!StageGeneration, R!NewGenerationState
<1> QED  BY <1>1, <1>2, <1>3, Zenon

LEMMA StageStep ==
    ASSUME WorkerInv, Stage
    PROVE  WorkerInv'
<1> DEFINE g == LocalGeneration
           t == RulesOf(run.active)
<1>1. RowsMove /\ UNCHANGED <<control, admissions>>
  BY SameRows, Zenon DEF Stage, WorkerInv
<1>2. CASE ~(R!AlreadyStaged(g, t) \/ R!MayStage(g))
  <2>1. run' \in RunFields /\ run'.pc \in Quiet
    BY <1>2, FinishEnds, Zenon DEF Stage, WorkerInv
  <2>2. UNCHANGED <<active, rules, w>> /\ RegistryTypes'
    BY <1>2, Zenon DEF Stage, registryVars, WorkerInv, RegistryTypes
  <2> QED  BY <1>1, <2>1, <2>2, WorkerRecord, QuietStep, Zenon
<1>3. CASE R!AlreadyStaged(g, t) \/ R!MayStage(g)
  <2>1. /\ R!StageGeneration(TheWorker, g, t) /\ g \in Generations /\ run.pc = "stage"
        /\ w' = [w EXCEPT !.pendingSet = TRUE, !.pendingHash = Ids(run.active), !.pendingGeneration = g]
        /\ run' = [run EXCEPT !.pc = "acknowledge", !.generation = g]
    BY <1>3, Zenon DEF Stage
  <2> HIDE DEF g
  <2>2. g \in Nat /\ active \in Nat /\ run.active \in SUBSET Rows /\ t \in SUBSET Rules
    BY <2>1, WorkerAssumption DEF WorkerInv, RegistryTypes, RunFields, Selections, R!NoGeneration,
       RulesOf, Rows, Rules
  <2>3. SameRecord(w, w')
    <3>1. Ids(run.active) \subseteq Assignments
      BY <2>2, IdsOfRows, Zenon
    <3> QED  BY <2>1, <2>2, <3>1, Zenon DEF SameRecord, WorkerInv, WorkerFields
  <2>4. /\ run' \in RunFields /\ run'.pc = "acknowledge" /\ run'.generation = g
        /\ run'.active = run.active /\ run'.readied = run.readied
    BY <2>1, <2>2, Zenon DEF WorkerInv, RunFields
  <2>5. op' \in [{TheWorker} -> R!OpState] /\ op'[TheWorker].gen = g
    <3> DEFINE q == [R!IdleOp EXCEPT !.pc = "probing", !.gen = g, !.tab = t]
    <3>1. q \in R!OpState /\ q.gen = g
      BY <2>1, <2>2, Zenon DEF R!IdleOp, R!OpState, R!Tables, R!NoGeneration
    <3>2. op' = [op EXCEPT ![TheWorker] = q]
      BY <2>1, Zenon DEF R!StageGeneration
    <3> HIDE DEF q
    <3> QED  BY <3>1, <3>2, Zenon DEF WorkerInv, RegistryTypes
  <2>6. /\ active' = active /\ rules' \in [Generations -> SUBSET Rules] /\ rules'[g] = t
        /\ active \in Generations => rules'[active] = rules[active]
    <3>1. CASE R!MayStage(g) /\ rules' = [rules EXCEPT ![g] = t]
      <4>1. active # g
        BY <2>2, <3>1 DEF R!MayStage
      <4> QED  BY <2>1, <2>2, <3>1, <4>1, Zenon DEF R!StageGeneration, WorkerInv, RegistryTypes
    <3>2. CASE R!AlreadyStaged(g, t) /\ rules' = rules
      BY <2>1, <3>2, Zenon DEF R!StageGeneration, R!AlreadyStaged, WorkerInv, RegistryTypes
    <3> QED  BY <2>1, <3>1, <3>2, Zenon DEF R!StageGeneration, R!NewGenerationState
  <2>7. RegistryTypes' /\ StagedInv(rules', op'[TheWorker], run')
    BY <2>1, <2>4, <2>5, <2>6, Zenon DEF RegistryTypes, StagedInv, WorkerInv
  <2>8. Served' = Served
    BY StageKeepsServed, Zenon
  <2>9. Offered' = Offered /\ Issued' = Issued /\ accepted' = accepted /\ admissions' = admissions
    BY <1>1, Zenon DEF control, Offered, Issued
  <2>10. ServiceRecord(Offered, accepted, Served, admissions, w')
    BY <2>3, SameRecordKept, Zenon DEF WorkerInv
  <2>11. CandidateRecord(Offered, Issued, accepted, Served, admissions, w, run')
    BY <2>1, <2>4, Zenon DEF WorkerInv, CandidateRecord
  <2>12. CandidateRecord(Offered, Issued, accepted, Served, admissions, w', run')
    BY <2>3, <2>11, SameCandidateKept, Zenon
  <2> QED  BY <1>1, <2>3, <2>4, <2>7, <2>8, <2>9, <2>10, <2>12, Zenon DEF WorkerInv, RowsMove, SameRecord
<1> QED  BY <1>2, <1>3, Zenon

-----------------------------------------------------------------------------
(* A snapshot and what is selected of it. *)

(* The rows of a snapshot are the rows of the control plane. *)
LEMMA SnapshotRows ==
    ASSUME RowTypes
    PROVE  /\ DesiredRouteSnapshot \subseteq Rows
           /\ \A r \in DesiredRouteSnapshot :
                r.of \in Assignments /\ r.state = desired[r.of] /\ desired[r.of] # "absent"
           /\ \A r, s \in DesiredRouteSnapshot : r.of = s.of => r = s
           /\ \A a \in Assignments : desired[a] # "absent" =>
                \E r \in DesiredRouteSnapshot : r.of = a /\ r.state = desired[a]
<1> DEFINE rowOf(a) == [of |-> a, state |-> desired[a],
                        observed |-> IF ReportsObservedState /\ a \notin accepted THEN "pending" ELSE "ready"]
<1>1. DesiredRouteSnapshot = {rowOf(a) : a \in {b \in Assignments : desired[b] # "absent"}}
  BY Zenon DEF DesiredRouteSnapshot
<1>2. ASSUME NEW a \in Assignments, desired[a] # "absent"
      PROVE  rowOf(a) \in Rows /\ rowOf(a).of = a /\ rowOf(a).state = desired[a]
  BY <1>2, Zenon DEF RowTypes, Rows, Observed
<1> HIDE DEF rowOf
<1>3. \A r \in DesiredRouteSnapshot : \E a \in Assignments : desired[a] # "absent" /\ r = rowOf(a)
  BY <1>1, Zenon
<1>4. \A a \in Assignments : desired[a] # "absent" => rowOf(a) \in DesiredRouteSnapshot
  BY <1>1, Zenon
<1>5. ASSUME NEW r \in DesiredRouteSnapshot
      PROVE  /\ r \in Rows /\ r.of \in Assignments /\ r.state = desired[r.of] /\ desired[r.of] # "absent"
             /\ r = rowOf(r.of)
  <2>1. PICK a \in Assignments : desired[a] # "absent" /\ r = rowOf(a)
    BY <1>3, Zenon
  <2>2. r.of = a /\ r.state = desired[a] /\ r \in Rows
    BY <1>2, <2>1, Zenon
  <2> QED  BY <2>1, <2>2, Zenon
<1>6. ASSUME NEW r \in DesiredRouteSnapshot, NEW s \in DesiredRouteSnapshot, r.of = s.of
      PROVE  r = s
  BY <1>5, <1>6, Zenon
<1>7. ASSUME NEW a \in Assignments, desired[a] # "absent"
      PROVE  \E r \in DesiredRouteSnapshot : r.of = a /\ r.state = desired[a]
  BY <1>2, <1>4, <1>7, Zenon
<1> QED  BY <1>5, <1>6, <1>7, Zenon

LEMMA SelectedRows ==
    ASSUME RowTypes, RowsInv
    PROVE  /\ Selected(DesiredRouteSnapshot) \in Selections
           /\ Ids(DesiredRouteSnapshot) \subseteq Issued
           /\ Ids(Selected(DesiredRouteSnapshot)) \subseteq Offered
           /\ Forward(accepted, Ids(Selected(DesiredRouteSnapshot)))
           /\ \A a \in Offered : \/ a \in Ids(Selected(DesiredRouteSnapshot))
                                 \/ \E b \in Ids(Selected(DesiredRouteSnapshot)) : desired[b] = "staged"
<1> DEFINE snap == DesiredRouteSnapshot
<1>1. /\ snap \subseteq Rows
      /\ \A r \in snap : r.of \in Assignments /\ r.state = desired[r.of] /\ desired[r.of] # "absent"
      /\ \A r, s \in snap : r.of = s.of => r = s
      /\ \A a \in Assignments : desired[a] # "absent" => \E r \in snap : r.of = a /\ r.state = desired[a]
  BY SnapshotRows, Zenon
<1> HIDE DEF snap
<1>2. \A r \in Selected(snap) :
         /\ r \in snap /\ r.state \in {"staged", "active"}
         /\ r.state = "active" => ~ \E s \in snap : s.state = "staged" /\ TunnelOf(s.of) = TunnelOf(r.of)
  BY Zenon DEF Selected
<1>3. \A r \in snap : r.state = "staged" => r \in Selected(snap)
  BY Zenon DEF Selected
<1>4. \A r \in snap : r.state = "active" =>
         r \in Selected(snap) \/ \E s \in snap : s.state = "staged" /\ TunnelOf(s.of) = TunnelOf(r.of)
  BY Zenon DEF Selected
<1>5. ASSUME NEW r \in Selected(snap), NEW s \in Selected(snap), TunnelOf(r.of) = TunnelOf(s.of)
      PROVE  r = s
  <2>1. r \in snap /\ s \in snap /\ r.state \in {"staged", "active"} /\ s.state \in {"staged", "active"}
    BY <1>2, Zenon
  <2>2. CASE r.state = "staged" /\ s.state = "staged"
    <3>1. /\ r.of \in Assignments /\ s.of \in Assignments
          /\ desired[r.of] = "staged" /\ desired[s.of] = "staged"
      BY <1>1, <2>1, <2>2, Zenon
    <3>2. GenOf(r.of) = issued[TunnelOf(r.of)] /\ GenOf(s.of) = issued[TunnelOf(s.of)]
      BY <3>1, Zenon DEF RowsInv
    <3>3. r.of = s.of
      BY <1>5, <3>1, <3>2, SameAssignment, Zenon
    <3> QED  BY <1>1, <2>1, <3>3, Zenon
  <2>3. CASE r.state = "active" /\ s.state = "active"
    <3>0. /\ r.of \in Assignments /\ s.of \in Assignments
          /\ desired[r.of] = "active" /\ desired[s.of] = "active"
      BY <1>1, <2>1, <2>3, Zenon
    <3>1. r.of = s.of
      BY <1>5, <3>0, Zenon DEF RowsInv
    <3> QED  BY <1>1, <2>1, <3>1, Zenon
  <2>4. CASE r.state = "staged" /\ s.state = "active"
    BY <1>2, <1>5, <2>1, <2>4, Zenon
  <2>5. CASE r.state = "active" /\ s.state = "staged"
    BY <1>2, <1>5, <2>1, <2>5, Zenon
  <2> QED  BY <2>1, <2>2, <2>3, <2>4, <2>5, Zenon
<1>6. Selected(snap) \in Selections
  <2>1. Selected(snap) \in SUBSET Rows
    BY <1>1, <1>2, Zenon
  <2> QED  BY <1>5, <2>1, Zenon DEF Selections
<1>7. Ids(snap) \subseteq Issued
  <2>1. \A r \in snap : r.of \in Issued
    BY <1>1, Zenon DEF RowsInv
  <2> QED  BY <2>1, Zenon DEF Ids
<1>8. \A b \in Ids(Selected(snap)) : b \in Assignments /\ desired[b] \in {"staged", "active"} /\ b \in Issued
  <2>1. \A r \in Selected(snap) : r.of \in Assignments /\ desired[r.of] \in {"staged", "active"} /\ r.of \in Ids(snap)
    BY <1>1, <1>2, Zenon DEF Ids
  <2> QED  BY <1>7, <2>1, Zenon DEF Ids
<1>9. Ids(Selected(snap)) \subseteq Offered
  BY <1>8, Zenon DEF Offered
<1>10. ASSUME NEW a \in accepted, NEW b \in Ids(Selected(snap)), TunnelOf(a) = TunnelOf(b)
       PROVE  GenOf(a) <= GenOf(b)
  <2>1. b \in Assignments /\ desired[b] \in {"staged", "active"} /\ a \in Issued
    BY <1>8, Zenon DEF RowsInv
  <2>2. CASE desired[b] = "staged"
    <3>1. GenOf(b) = issued[TunnelOf(b)] /\ GenOf(a) <= issued[TunnelOf(a)]
      BY <2>1, <2>2, Zenon DEF RowsInv, Issued
    <3> QED  BY <1>10, <3>1, Zenon
  <2>3. CASE desired[b] = "active"
    BY <1>10, <2>1, <2>3, Zenon DEF RowsInv
  <2> QED  BY <2>1, <2>2, <2>3, Zenon
<1>11. ASSUME NEW a \in Offered
       PROVE  a \in Ids(Selected(snap)) \/ \E b \in Ids(Selected(snap)) : desired[b] = "staged"
  <2>1. a \in Assignments /\ desired[a] \in {"staged", "active"} /\ desired[a] # "absent"
    BY Zenon DEF Offered
  <2>2. PICK r \in snap : r.of = a /\ r.state = desired[a]
    BY <1>1, <2>1, Zenon
  <2>3. r \in Selected(snap) \/ \E s \in snap : s.state = "staged"
    BY <1>3, <1>4, <2>1, <2>2, Zenon
  <2>4. CASE r \in Selected(snap)
    BY <2>2, <2>4, Zenon DEF Ids
  <2>5. ASSUME NEW s \in snap, s.state = "staged"
        PROVE  \E b \in Ids(Selected(snap)) : desired[b] = "staged"
    <3>1. s.of \in Ids(Selected(snap)) /\ s.state = desired[s.of]
      BY <1>1, <1>3, <2>5, Zenon DEF Ids
    <3> QED  BY <2>5, <3>1, Zenon
  <2> QED  BY <2>3, <2>4, <2>5, Zenon
<1> QED  BY <1>6, <1>7, <1>9, <1>10, <1>11, Zenon DEF Forward, snap

(* The selection of a snapshot is never the record of another assignment than  *)
(* the served one: a staged row cannot be in the record.                       *)
LEMMA RecordedSelection ==
    ASSUME WorkerInv, Ids(Selected(DesiredRouteSnapshot)) = w.hash
    PROVE  Served \cap Offered \subseteq w.hash
<1> SUFFICES ASSUME NEW a \in Served, a \in Offered, a \notin w.hash
             PROVE  FALSE
  BY Zenon
<1>1. PICK b \in w.hash : desired[b] = "staged"
  BY SelectedRows, Zenon DEF WorkerInv
<1>2. b \in accepted
  BY <1>1, Zenon DEF WorkerInv, ServiceRecord
<1> QED  BY <1>1, <1>2, Zenon DEF WorkerInv, RowsInv

LEMMA PullStep ==
    ASSUME WorkerInv, Pull
    PROVE  WorkerInv'
<1> DEFINE snap == DesiredRouteSnapshot
           selected == Selected(snap)
           probe == ~Same(Ids(selected))
           install == probe /\ selected # {} /\ ~w.pendingAdmissions
           r == [run EXCEPT !.snap = snap, !.active = selected, !.readied = selected, !.failure = FALSE]
           refused == install /\ ~Fenced(PendingAdmissions(snap))
<1>1. RowsMove /\ UNCHANGED <<active, rules, op, control>> /\ RegistryTypes'
  BY SameRows, Zenon DEF Pull, WorkerInv, registryVars, RegistryTypes
<1>2. /\ selected \in Selections /\ Ids(snap) \subseteq Issued
      /\ Ids(selected) \subseteq Offered /\ Forward(accepted, Ids(selected))
  BY SelectedRows, Zenon DEF WorkerInv
<1>3. snap \in SUBSET Rows
  BY SnapshotRows, Zenon DEF WorkerInv
<1>4. /\ run.pc = "idle"
      /\ \/ /\ refused /\ Finish([r EXCEPT !.readied = {}], "local") /\ UNCHANGED <<w, admissions>>
         \/ /\ ~refused
            /\ run' = [r EXCEPT !.pc = IF probe THEN "probe" ELSE "settle"]
            /\ admissions' = IF install THEN PendingAdmissions(snap) ELSE admissions
            /\ w' = IF install THEN [w EXCEPT !.pendingAdmissions = TRUE] ELSE w
  BY Zenon DEF Pull
<1>5. Offered' = Offered /\ Issued' = Issued /\ accepted' = accepted /\ Served' = Served
  BY <1>1, Zenon DEF control, Offered, Issued, Served
<1>6. Ids(selected) = w.hash => Served \cap Offered \subseteq w.hash
  BY RecordedSelection, Zenon
<1>7. Forward(Served, Ids(selected))
  BY <1>2, Zenon DEF Forward, WorkerInv, ServiceRecord
<1> HIDE DEF snap
<1>8. r \in RunFields /\ [r EXCEPT !.readied = {}] \in RunFields
  BY <1>2, <1>3, EmptySelection, Zenon DEF WorkerInv, RunFields
<1>9. CASE refused /\ Finish([r EXCEPT !.readied = {}], "local") /\ UNCHANGED <<w, admissions>>
  <2>1. run' \in RunFields /\ run'.pc \in Quiet
    BY <1>8, <1>9, FinishEnds, Zenon
  <2>2. SameRecord(w, w')
    BY <1>9, WorkerRecord, Zenon
  <2> QED  BY <1>1, <1>9, <2>1, <2>2, QuietStep, Zenon
<1>10. CASE /\ run' = [r EXCEPT !.pc = IF probe THEN "probe" ELSE "settle"]
            /\ admissions' = IF install THEN PendingAdmissions(snap) ELSE admissions
            /\ w' = IF install THEN [w EXCEPT !.pendingAdmissions = TRUE] ELSE w
  <2>1. /\ run' \in RunFields /\ run'.snap = snap /\ run'.active = selected
        /\ run'.pc = IF probe THEN "probe" ELSE "settle"
    BY <1>8, <1>10, <1>2, <1>3, Zenon DEF WorkerInv, RunFields
  <2>2. StagedInv(rules', op'[TheWorker], run')
    BY <2>1, Zenon DEF StagedInv
  <2>3. CASE install
    <3>1. /\ w' \in WorkerFields /\ w'.pendingAdmissions /\ w'.hash = w.hash /\ w'.set = w.set
          /\ w'.assignments = w.assignments
      BY <1>10, <2>3, Zenon DEF WorkerInv, WorkerFields
    <3>2. Ids(w.assignments) \cap Offered \subseteq PendingAdmissions(snap)
      <4> SUFFICES ASSUME NEW a \in Ids(w.assignments), a \in Offered
                   PROVE  a \in PendingAdmissions(snap)
        BY Zenon
      <4>1. a \in Assignments /\ desired[a] \in {"staged", "active"} /\ desired[a] # "absent"
        BY Zenon DEF Offered
      <4>2. \E q \in snap : q.of = a /\ q.state \in {"staged", "active"}
        BY <4>1, SnapshotRows, Zenon DEF snap, WorkerInv
      <4> QED  BY <4>2, Zenon DEF PendingAdmissions
    <3>3. Served \subseteq Ids(w.assignments)
      BY <2>3, Zenon DEF WorkerInv, ServiceRecord
    <3>4. ServiceRecord(Offered, accepted, Served, admissions', w')
      <4>1. (Ids(w.assignments) \cup Served) \cap Offered \subseteq admissions'
        BY <1>10, <2>3, <3>2, <3>3, Zenon
      <4> QED  BY <3>1, <4>1, Zenon DEF ServiceRecord, WorkerInv
    <3>5. CandidateRecord(Offered, Issued, accepted, Served, admissions', w', run')
      BY <1>2, <1>6, <1>7, <2>1, <2>3, <3>1, Zenon DEF CandidateRecord
    <3> QED  BY <1>1, <1>5, <2>1, <2>2, <3>1, <3>4, <3>5, Zenon DEF WorkerInv, RowsMove
  <2>4. CASE ~install
    <3>1. w' = w /\ admissions' = admissions
      BY <1>10, <2>4, Zenon
    <3>2. ~probe => Ids(selected) = w.hash
      BY Zenon DEF Same
    <3>3. CandidateRecord(Offered, Issued, accepted, Served, admissions, w, run')
      BY <1>2, <1>6, <1>7, <2>1, <2>4, <3>2, Zenon DEF CandidateRecord
    <3> QED  BY <1>1, <1>5, <2>1, <2>2, <3>1, <3>3, Zenon DEF WorkerInv, RowsMove
  <2> QED  BY <2>3, <2>4, Zenon
<1> QED  BY <1>4, <1>9, <1>10, Zenon

-----------------------------------------------------------------------------
(* The probe. *)

(* A tunnel that is ready and one that keeps what it has are never the same.   *)
LEMMA ProbedSelection ==
    ASSUME NEW S \in Selections, NEW old \in Selections, NEW good \in SUBSET S
    PROVE  good \cup {r \in old : \E b \in S \ good : TunnelOf(b.of) = TunnelOf(r.of)} \in Selections
<1> DEFINE lkg == {r \in old : \E b \in S \ good : TunnelOf(b.of) = TunnelOf(r.of)}
<1>1. \A x, y \in S : TunnelOf(x.of) = TunnelOf(y.of) => x = y
  BY Zenon DEF Selections
<1>2. \A x, y \in old : TunnelOf(x.of) = TunnelOf(y.of) => x = y
  BY Zenon DEF Selections
<1>3. good \cup lkg \in SUBSET Rows
  BY Zenon DEF Selections
<1>4. ASSUME NEW x \in good, NEW y \in lkg, TunnelOf(x.of) = TunnelOf(y.of)
      PROVE  FALSE
  <2>1. PICK b \in S \ good : TunnelOf(b.of) = TunnelOf(y.of)
    BY Zenon
  <2>2. x = b
    BY <1>1, <1>4, <2>1, Zenon
  <2> QED  BY <2>1, <2>2, Zenon
<1>5. ASSUME NEW x \in good \cup lkg, NEW y \in good \cup lkg, TunnelOf(x.of) = TunnelOf(y.of)
      PROVE  x = y
  <2>1. CASE x \in good /\ y \in good
    BY <1>1, <1>5, <2>1, Zenon
  <2>2. CASE x \in lkg /\ y \in lkg
    BY <1>2, <1>5, <2>2, Zenon
  <2>3. CASE x \in good /\ y \in lkg
    BY <1>4, <1>5, <2>3, Zenon
  <2>4. CASE x \in lkg /\ y \in good
    BY <1>4, <1>5, <2>4, Zenon
  <2> HIDE DEF lkg
  <2> QED  BY <2>1, <2>2, <2>3, <2>4, Zenon
<1> HIDE DEF lkg
<1>6. good \cup lkg \in Selections
  BY <1>3, <1>5, Zenon DEF Selections
<1> QED  BY <1>6, Zenon DEF lkg

LEMMA ProbeStep ==
    ASSUME WorkerInv, NEW good, Probe(good)
    PROVE  WorkerInv'
<1> DEFINE S == Selected(run.snap)
           bad == S \ good
           lkg == {x \in w.assignments : \E b \in bad : TunnelOf(b.of) = TunnelOf(x.of)}
           r == [run EXCEPT !.active = good \cup lkg, !.readied = good, !.failed = bad]
<1>1. RowsMove /\ UNCHANGED <<active, rules, op, control, admissions, w>> /\ RegistryTypes'
  BY SameRows, Zenon DEF Probe, WorkerInv, registryVars, RegistryTypes
<1>2. /\ run.pc = "probe" /\ good \subseteq S /\ \A x \in good : x.of \in admissions
      /\ \/ Finish(r, "local")
         \/ run' = [r EXCEPT !.pc = IF Same(Ids(good \cup lkg)) THEN "settle" ELSE "stage"]
  BY Zenon DEF Probe
<1>3. /\ S \in Selections /\ Ids(run.snap) \subseteq Issued /\ (S = {} \/ w.pendingAdmissions)
      /\ Ids(S) = w.hash => Served \cap Offered \subseteq w.hash
      /\ Forward(Served, Ids(S))
  BY <1>2, Zenon DEF WorkerInv, CandidateRecord
<1>4. S \subseteq run.snap
  BY Zenon DEF Selected
<1>5. w.assignments \in Selections
  BY Zenon DEF WorkerInv, WorkerFields
<1> HIDE DEF S
<1>6. good \cup lkg \in Selections
  <2>1. good \in SUBSET S
    BY <1>2, Zenon
  <2>2. good \cup {x \in w.assignments : \E b \in S \ good : TunnelOf(b.of) = TunnelOf(x.of)} \in Selections
    BY <1>3, <1>5, <2>1, ProbedSelection, Zenon
  <2> QED  BY <2>2, Zenon
<1>7. good \in Selections /\ bad \in Selections
  BY <1>2, <1>3, Zenon DEF Selections
<1>8. bad = {} => good \cup lkg = S
  BY <1>2, Zenon
<1>9. lkg \subseteq w.assignments /\ (S = {} => good \cup lkg = {})
  BY <1>2, Zenon
<1>10. good = {} /\ (\E t \in Tunnels : Tunnels = {t}) => good \cup lkg \in {{}, w.assignments}
  <2> SUFFICES ASSUME good = {}, NEW t \in Tunnels, Tunnels = {t}, NEW b \in bad
               PROVE  good \cup lkg = w.assignments
    BY <1>2, Zenon
  <2>1. \A x \in Rows : TunnelOf(x.of) = t
    <3>1. \A x \in Rows : x.of \in Assignments
      BY Zenon DEF Rows
    <3> QED  BY <3>1, AssignmentFacts, Zenon
  <2>2. b \in Rows /\ \A x \in w.assignments : x \in Rows
    BY <1>5, <1>7, Zenon DEF Selections
  <2> QED  BY <2>1, <2>2, Zenon
<1>11. good # {} /\ (\E t \in Tunnels : Tunnels = {t}) => good \cup lkg = S
  <2> SUFFICES ASSUME NEW g \in good, NEW t \in Tunnels, Tunnels = {t}, NEW b \in bad
               PROVE  FALSE
    BY <1>8, Zenon
  <2>1. \A x \in Rows : TunnelOf(x.of) = t
    <3>1. \A x \in Rows : x.of \in Assignments
      BY Zenon DEF Rows
    <3> QED  BY <3>1, AssignmentFacts, Zenon
  <2>2. g \in Rows /\ b \in Rows
    BY <1>7, Zenon DEF Selections
  <2>3. g \in S /\ b \in S /\ TunnelOf(g.of) = TunnelOf(b.of)
    BY <1>2, <2>1, <2>2, Zenon
  <2>4. g = b
    BY <1>3, <2>3, Zenon DEF Selections
  <2> QED  BY <2>4, Zenon
<1> HIDE DEF lkg
<1>12. r \in RunFields
  BY <1>6, <1>7, Zenon DEF WorkerInv, RunFields
<1>13. CASE Finish(r, "local")
  <2>1. run' \in RunFields /\ run'.pc \in Quiet
    BY <1>12, <1>13, FinishEnds, Zenon
  <2> QED  BY <1>1, <2>1, WorkerRecord, QuietStep, Zenon
<1>14. CASE run' = [r EXCEPT !.pc = IF Same(Ids(good \cup lkg)) THEN "settle" ELSE "stage"]
  <2>1. /\ run' \in RunFields /\ run'.active = good \cup lkg /\ run'.readied = good /\ run'.failed = bad
        /\ run'.pc = IF Same(Ids(good \cup lkg)) THEN "settle" ELSE "stage"
    BY <1>6, <1>7, <1>14, Zenon DEF WorkerInv, RunFields
  <2>2. StagedInv(rules', op'[TheWorker], run')
    BY <2>1, Zenon DEF StagedInv
  <2>3. Offered' = Offered /\ Issued' = Issued /\ accepted' = accepted /\ Served' = Served
    BY <1>1, Zenon DEF control, Offered, Issued, Served
  <2>4. Ids(good) \subseteq Ids(run.snap) /\ Ids(good) \subseteq admissions
    <3>1. \A x \in good : x \in run.snap /\ x.of \in admissions
      BY <1>2, <1>4, Zenon
    <3> QED  BY <3>1, Zenon DEF Ids
  <2>5. Ids(good \cup lkg) \subseteq Ids(good) \cup Ids(w.assignments)
    BY <1>9, Zenon DEF Ids
  <2>6. Ids(w.assignments) \subseteq accepted /\ Ids(w.assignments) \cap Offered \subseteq admissions
        /\ accepted \subseteq Issued /\ w.hash = Ids(w.assignments) /\ (w.set \/ w.assignments = {})
    BY Zenon DEF WorkerInv, ServiceRecord, RowsInv
  <2>7. CASE Same(Ids(good \cup lkg))
    <3>1. Ids(good \cup lkg) = w.hash
      BY <2>7, Zenon DEF Same
    <3>2. bad = {} => Ids(S) = w.hash
      BY <1>8, <3>1, Zenon
    <3>3. CandidateRecord(Offered, Issued, accepted, Served, admissions, w, run')
      BY <1>3, <2>1, <2>7, <3>1, <3>2, Zenon DEF CandidateRecord
    <3> QED  BY <1>1, <2>1, <2>2, <2>3, <3>3, Zenon DEF WorkerInv, RowsMove
  <2>8. CASE ~Same(Ids(good \cup lkg))
    <3>1. ASSUME \E t \in Tunnels : Tunnels = {t}
          PROVE  Forward(Served, Ids(good \cup lkg))
      <4>1. CASE good # {}
        BY <1>3, <1>11, <3>1, <4>1, Zenon
      <4>2. CASE good \cup lkg = {}
        <5>1. Ids(good \cup lkg) = {}
          BY <4>2, Zenon DEF Ids
        <5> QED  BY <5>1, Zenon DEF Forward
      <4>3. CASE good \cup lkg = w.assignments /\ good \cup lkg # {}
        <5>1. active = R!NoGeneration
          BY <2>6, <2>8, <4>3, Zenon DEF Same
        <5>2. Served = {}
          BY <5>1, Zenon DEF Served
        <5> QED  BY <5>2, Zenon DEF Forward
      <4> QED  BY <1>10, <3>1, <4>1, <4>2, <4>3, Zenon
    <3>2. good \cup lkg = {} \/ w.pendingAdmissions
      BY <1>3, <1>9, Zenon
    <3>3. Ids(good \cup lkg) \subseteq Issued /\ Ids(good \cup lkg) \cap Offered \subseteq admissions
      BY <1>3, <2>4, <2>5, <2>6, Zenon
    <3>4. CandidateRecord(Offered, Issued, accepted, Served, admissions, w, run')
      BY <2>1, <2>5, <2>8, <3>1, <3>2, <3>3, Zenon DEF CandidateRecord
    <3> QED  BY <1>1, <2>1, <2>2, <2>3, <3>4, Zenon DEF WorkerInv, RowsMove
  <2> QED  BY <2>7, <2>8, Zenon
<1> QED  BY <1>2, <1>13, <1>14, Zenon

-----------------------------------------------------------------------------

LEMMA WorkerInitially ==
    ASSUME WorkerInit
    PROVE  WorkerInv
<1>1. RegistryTypes
  BY IdleOpType, Zenon DEF WorkerInit, R!Init, RegistryTypes
<1>2. RowTypes /\ RowsInv
  BY Zenon DEF WorkerInit, RowTypes, RowsInv
<1>3. w \in WorkerFields /\ w.hash = {} /\ w.assignments = {}
  BY EmptySelection, Zenon DEF WorkerInit, WorkerFields
<1>4. run \in RunFields /\ run.pc \in Quiet
  BY EmptySelection, Zenon DEF WorkerInit, IdleRun, RunFields, Quiet
<1>5. Served = {}
  BY Zenon DEF WorkerInit, R!Init, Served
<1>6. Ids({}) = {}
  BY Zenon DEF Ids
<1>7. ServiceRecord(Offered, accepted, Served, admissions, w)
  BY <1>3, <1>5, <1>6, Zenon DEF ServiceRecord, Forward
<1> QED  BY <1>1, <1>2, <1>3, <1>4, <1>7, NothingUnderWay, Zenon DEF WorkerInv

LEMMA WorkerStep ==
    ASSUME WorkerInv, [WorkerNext]_workerVars
    PROVE  WorkerInv'
<1>1. CASE UNCHANGED workerVars
  <2>1. RowsMove /\ UNCHANGED <<active, rules, op, admissions, w, run>>
    BY <1>1, SameRows, Zenon DEF workerVars, registryVars, localVars, WorkerInv
  <2> QED  BY <2>1, IdleStep, Zenon
<1>2. CASE \E t \in Tunnels : Publish(t) \/ Withdraw(t) \/ RemoveTunnel(t)
  BY <1>2, ControlPlaneStep, Zenon
<1>3. CASE Reconcile
  BY <1>3, PullStep, ProbeStep, StageStep, AcknowledgedStep, HandoverStep, CommitStep, SettleStep,
     FlushStep, ObserveStep, Zenon DEF Reconcile
<1>4. CASE Outage
  BY <1>4, PullFailsStep, AcknowledgementLostStep, FlushStep, ObserveStep, Zenon DEF Outage
<1>5. CASE Streams
  BY <1>5, StreamsStep, Zenon
<1> QED  BY <1>1, <1>2, <1>3, <1>4, <1>5, Zenon DEF WorkerNext

(* Every step of the worker, the registry and the control plane keeps the       *)
(* record, the candidate under way and the staged table in agreement.          *)
THEOREM WorkerInvariant == WorkerSpec => []WorkerInv
<1>1. WorkerInit => WorkerInv
  BY WorkerInitially, Zenon
<1>2. WorkerInv /\ [WorkerNext]_workerVars => WorkerInv'
  BY WorkerStep, Zenon
<1> QED  BY <1>1, <1>2, PTL DEF WorkerSpec

(* For every number of tunnels, assignments and local generations: an          *)
(* assignment in service that the control plane still offers is in the durable *)
(* admission registry, through every replacement, refused Replace, lost        *)
(* acknowledgement and failed probe.                                           *)
THEOREM ServingKeepsItsAdmission == WorkerSpec => []ServedIsAdmitted
<1>1. WorkerInv => ServedIsAdmitted
  <2> SUFFICES ASSUME WorkerInv, NEW a \in Served, desired[a] \in {"staged", "active"}
               PROVE  a \in admissions
    BY Zenon DEF ServedIsAdmitted
  <2>1. a \in Assignments
    BY Zenon DEF WorkerInv, ServiceRecord, RowTypes
  <2>2. a \in Offered
    BY <2>1, Zenon DEF Offered
  <2> QED  BY <2>2, Zenon DEF WorkerInv, ServiceRecord
<1> QED  BY <1>1, WorkerInvariant, PTL

(* applyCanonical promotes only after ObserveRoutes succeeded: what the         *)
(* registry serves is at all times an assignment whose ready observation the   *)
(* control plane has accepted.                                                 *)
THEOREM ServingWasAcknowledged == WorkerSpec => []ServedWasAccepted
<1>1. WorkerInv => ServedWasAccepted
  BY Zenon DEF WorkerInv, ServiceRecord, ServedWasAccepted
<1> QED  BY <1>1, WorkerInvariant, PTL

(* A promotion never puts an older assignment of the worker's one tunnel in    *)
(* the place of a newer one, whatever the snapshots, retries and fallbacks     *)
(* before it.                                                                  *)
THEOREM PromotionMovesForward == WorkerSpec => ServiceMovesForward
<1> DEFINE OnlyTunnel == \E t \in Tunnels : Tunnels = {t}
<1>1. WorkerInv /\ [WorkerNext]_workerVars => (OnlyTunnel => Forward(Served, Served'))
  <2> SUFFICES ASSUME WorkerInv, [WorkerNext]_workerVars, OnlyTunnel
               PROVE  Forward(Served, Served')
    BY Zenon
  <2>1. CASE Served' = Served
    BY <2>1, Zenon DEF WorkerInv, ServiceRecord
  <2>2. CASE UNCHANGED <<active, rules>>
    BY <2>1, <2>2, Zenon DEF Served
  <2>3. CASE Handover
    <3>1. /\ rules' = rules /\ op[TheWorker].pc # "idle"
          /\ active' \in {active, op[TheWorker].gen}
      BY <2>3, ApplierMoves, Zenon DEF Handover, WorkerInv
    <3>2. /\ run.pc = "handover" /\ op[TheWorker].gen = run.generation
          /\ run.generation \in Generations /\ rules[run.generation] = RulesOf(run.active)
      BY <2>3, <3>1, Zenon DEF Handover, WorkerInv, StagedInv
    <3>3. CASE active' = active
      BY <2>2, <3>1, <3>3, Zenon
    <3>4. CASE active' = run.generation
      <4>1. active' \in Generations /\ rules'[active'] = RulesOf(run.active) /\ active' # R!NoGeneration
        BY <3>1, <3>2, <3>4, WorkerAssumption, Zenon DEF R!NoGeneration
      <4>2. Served' = Ids(run.active)
        BY <4>1, IdsOfRules, Zenon DEF Served
      <4>3. Forward(Served, Ids(run.active))
        BY <3>2, Zenon DEF WorkerInv, CandidateRecord
      <4> QED  BY <4>2, <4>3, Zenon
    <3> QED  BY <3>1, <3>2, <3>3, <3>4, Zenon
  <2>4. CASE Stage
    BY <2>1, <2>4, StageKeepsServed, Zenon
  <2>5. CASE UNCHANGED workerVars \/ \E t \in Tunnels : Publish(t) \/ Withdraw(t) \/ RemoveTunnel(t)
    BY <2>2, <2>5, Zenon DEF workerVars, registryVars, Publish, Withdraw, RemoveTunnel
  <2>6. CASE Pull \/ (\E good \in SUBSET Selected(run.snap) : Probe(good)) \/ Commit \/ Settle \/ FlushDetached \/ ObserveReady
    BY <2>2, <2>6, Zenon DEF registryVars, Pull, Probe, Commit, Settle, FlushDetached, ObserveReady
  <2>7. CASE Acknowledged
    BY <2>2, <2>7, Zenon DEF Acknowledged, R!ConfirmReady, R!registry
  <2>8. CASE Outage
    BY <2>2, <2>8, Zenon DEF Outage, PullFails, AcknowledgementLost, FlushLost, ObserveLost, registryVars,
       R!AbandonStaged, R!registry
  <2>9. CASE Streams
    BY <2>2, <2>9, Zenon DEF Streams, R!Acquire, R!RequestEnds, R!WatcherCloses, R!Release, R!ReleaseMarks, R!registry
  <2> QED  BY <2>3, <2>4, <2>5, <2>6, <2>7, <2>8, <2>9, Zenon DEF WorkerNext, Reconcile
<1>2. (WorkerInv /\ (OnlyTunnel => Forward(Served, Served'))) =>
        \A a \in Served, b \in Served' :
            Tunnels = {TunnelOf(a)} /\ TunnelOf(b) = TunnelOf(a) => GenOf(a) <= GenOf(b)
  <2> SUFFICES ASSUME OnlyTunnel => Forward(Served, Served'), NEW a \in Served, NEW b \in Served',
                      Tunnels = {TunnelOf(a)}, TunnelOf(b) = TunnelOf(a)
               PROVE  GenOf(a) <= GenOf(b)
    BY Zenon
  <2> QED  BY Zenon DEF Forward
<1>3. WorkerInv /\ [WorkerNext]_workerVars =>
        [\A a \in Served, b \in Served' :
            Tunnels = {TunnelOf(a)} /\ TunnelOf(b) = TunnelOf(a) => GenOf(a) <= GenOf(b)]_workerVars
  BY <1>1, <1>2, Zenon
<1> QED  BY <1>3, WorkerInvariant, PTL DEF WorkerSpec, ServiceMovesForward
=============================================================================
