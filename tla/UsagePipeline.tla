--------------------------- MODULE UsagePipeline ---------------------------
(* Usage accounting, internal/usage with internal/store, DeliverNext of       *)
(* internal/control and UsageWorker of internal/runtime: byte counters, the   *)
(* meter that turns them into signed absolute reports, the bounded queue, the *)
(* file both are saved to, delivery to the control plane, restart with a new  *)
(* counter epoch, and the end of the process, by a crash or by Shutdown.      *)
(*                                                                            *)
(* A key is a counter epoch and a route, which stands for node, environment,  *)
(* route and direction. The revision in a key is metadata, except that files  *)
(* of earlier versions hold one partition per revision (here: two).           *)
(* pending and order of the queue are one sequence, a payload is one unit of  *)
(* the queue's budget, and a report is its key and absolute value, which      *)
(* determine its operation ID.                                                *)
EXTENDS Naturals, Sequences

CONSTANTS
    Routes,
    LastEpoch,       \* bound: process starts
    MaxTraffic,      \* bound: bytes forwarded per key
    CounterLimit,    \* the largest counter value, 2^64 - 1 in the code
    MaxReports,      \* maxReports of the queue
    Legacy           \* partitions <<a, b>> of a file written by an earlier version

ASSUME BoundsAssumption ==
    /\ LastEpoch \in Nat
    /\ MaxTraffic \in Nat
    /\ CounterLimit \in Nat
    /\ MaxReports \in Nat
    /\ Legacy \in (0..CounterLimit) \X (0..CounterLimit)

Epochs == 0..LastEpoch
Keys == Epochs \X Routes
Reports == [key : Keys, bytes : Nat]

VARIABLES
    traffic,    \* bytes really forwarded, by key
    server,     \* the greatest counter the control plane accepted, by key
    disk,       \* the saved state: partitions by key, and the queue
    life,       \* of the process
    epoch,      \* counter epoch of this process
    counters,   \* Counters.values
    last,       \* Meter.last: what is already represented by a report
    queue,      \* Queue.pending in order
    worker,     \* position of the usage worker and the records it flushes
    uncertain   \* history: the report whose delivery had no answer

memory == <<counters, last, queue>>
vars == <<traffic, server, disk, life, epoch, memory, worker, uncertain>>

Larger(a, b) == IF a > b THEN a ELSE b

(* Counters.update with add: the sum saturates. *)
Plus(a, b) == IF b > CounterLimit - a THEN CounterLimit ELSE a + b

IdleWorker == [pc |-> "idle", todo |-> {}]

TypeOK ==
    /\ traffic \in [Keys -> Nat]
    /\ server \in [Keys -> Nat]
    /\ disk \in [counters : [Keys -> (0..CounterLimit) \X (0..CounterLimit)], queue : Seq(Reports)]
    /\ life \in {"down", "starting", "up", "stopping", "stopped", "failed"}
    /\ epoch \in Epochs
    /\ counters \in [Keys -> 0..CounterLimit]
    /\ last \in [Keys -> Nat]
    /\ queue \in Seq(Reports)
    /\ Len(queue) <= MaxReports
    /\ Len(disk.queue) <= MaxReports
    /\ worker \in [pc : {"idle", "flush", "persist", "deliver", "acknowledged"}, todo : SUBSET Reports]
    /\ uncertain \subseteq Reports

(* A file that does not exist is an empty one. An earlier version could have  *)
(* acknowledged the larger partition of a key only.                           *)
Init ==
    /\ \E old \in {<<0, 0>>, Legacy}, r \in Routes :
        /\ disk = [counters |-> [k \in Keys |-> IF k = <<0, r>> THEN old ELSE <<0, 0>>], queue |-> <<>>]
        /\ traffic = [k \in Keys |-> IF k = <<0, r>> THEN old[1] + old[2] ELSE 0]
        /\ server = [k \in Keys |-> IF k = <<0, r>> THEN Larger(old[1], old[2]) ELSE 0]
    /\ life = "down"
    /\ epoch = 0
    /\ counters = [k \in Keys |-> 0]
    /\ last = [k \in Keys |-> 0]
    /\ queue = <<>>
    /\ worker = IdleWorker
    /\ uncertain = {}

-----------------------------------------------------------------------------
(* Start *)

(* RestoreCounters: distinct partitions of a key are summed. *)
Restored == [k \in Keys |-> Plus(disk.counters[k][1], disk.counters[k][2])]

(* RestoreBaseline: what the control plane may have acknowledged is the       *)
(* largest partition.                                                         *)
Baseline == [k \in Keys |-> Larger(disk.counters[k][1], disk.counters[k][2])]

Due(c, l) == {[key |-> k, bytes |-> c[k]] : k \in {j \in Keys : c[j] > l[j]}}

(* The process starts with a new epoch. A sum above its baseline is flushed   *)
(* before anything else runs.                                                 *)
Start ==
    /\ life = "down"
    /\ epoch < LastEpoch
    /\ epoch' = epoch + 1
    /\ counters' = Restored
    /\ last' = Baseline
    /\ queue' = disk.queue
    /\ IF Due(Restored, Baseline) = {}
         THEN life' = "up" /\ worker' = IdleWorker
         ELSE life' = "starting" /\ worker' = [pc |-> "flush", todo |-> Due(Restored, Baseline)]
    /\ UNCHANGED <<traffic, server, disk, uncertain>>

-----------------------------------------------------------------------------
(* Traffic *)

Forwarding == {"up", "stopping", "stopped", "failed"}

(* Meter.Record, from any stream that forwards bytes. *)
Record(r, n) ==
    LET k == <<epoch, r>>
    IN  /\ life \in Forwarding
        /\ traffic[k] + n <= MaxTraffic
        /\ traffic' = [traffic EXCEPT ![k] = @ + n]
        /\ counters' = [counters EXCEPT ![k] = Plus(@, n)]
        /\ UNCHANGED <<server, disk, life, epoch, last, queue, worker, uncertain>>

-----------------------------------------------------------------------------
(* The usage worker. Return ends one call of deliver: while the worker shuts  *)
(* down it is called again until nothing is left or it fails.                 *)

Return(delivered, err) ==
    /\ worker' = IdleWorker
    /\ life' = CASE life = "stopping" /\ err -> "failed"
                 [] life = "stopping" /\ ~delivered -> "stopped"
                 [] life = "starting" -> IF err THEN "down" ELSE "up"
                 [] OTHER -> life

(* Mutant: a last byte is not worth a report. *)
BeginFlushLate ==
    /\ life \in {"up", "stopping"}
    /\ worker.pc = "idle"
    /\ worker' = [pc |-> "flush", todo |-> {d \in Due(counters, last) : d.bytes > last[d.key] + 1}]
    /\ UNCHANGED <<traffic, server, disk, life, epoch, memory, uncertain>>

(* Meter.Flush takes a snapshot of the counters. *)
BeginFlush ==
    /\ life \in {"up", "stopping"}
    /\ worker.pc = "idle"
    /\ worker' = [pc |-> "flush", todo |-> Due(counters, last)]
    /\ UNCHANGED <<traffic, server, disk, life, epoch, memory, uncertain>>

Positions(k) == {i \in DOMAIN queue : queue[i].key = k}

HasRoom(d) == Positions(d.key) # {} \/ Len(queue) < MaxReports

(* Queue.EnqueueLatest: a newer absolute takes the place of the pending one. *)
EnqueueLatest(d) ==
    queue' = IF Positions(d.key) = {}
               THEN Append(queue, d)
               ELSE [i \in DOMAIN queue |->
                       IF queue[i].key = d.key /\ d.bytes > queue[i].bytes THEN d ELSE queue[i]]

(* Mutant: a report the queue has no room for is dropped without an error. *)
FlushOneDropping(d) ==
    /\ worker.pc = "flush"
    /\ d \in worker.todo
    /\ IF HasRoom(d) THEN EnqueueLatest(d) ELSE UNCHANGED queue
    /\ last' = [last EXCEPT ![d.key] = d.bytes]
    /\ worker' = [worker EXCEPT !.todo = @ \ {d}]
    /\ UNCHANGED <<traffic, server, disk, life, epoch, counters, uncertain>>

(* One record of the snapshot, in any order; a full queue ends the flush. *)
FlushOne(d) ==
    /\ worker.pc = "flush"
    /\ d \in worker.todo
    /\ IF HasRoom(d)
         THEN /\ EnqueueLatest(d)
              /\ last' = [last EXCEPT ![d.key] = d.bytes]
              /\ worker' = [worker EXCEPT !.todo = @ \ {d}]
              /\ UNCHANGED life
         ELSE /\ Return(FALSE, TRUE)
              /\ UNCHANGED <<last, queue>>
    /\ UNCHANGED <<traffic, server, disk, epoch, counters, uncertain>>

Flushed ==
    /\ worker.pc = "flush"
    /\ worker.todo = {}
    /\ worker' = [worker EXCEPT !.pc = "persist"]
    /\ UNCHANGED <<traffic, server, disk, life, epoch, memory, uncertain>>

(* Mutant: the partition of an earlier version is kept beside the sum. *)
SnapshotWithPartitions ==
    [counters |-> [k \in Keys |-> <<disk.counters[k][1], counters[k]>>], queue |-> queue]

(* snapshotState: one cumulative record per key, and the pending reports. *)
Snapshot == [counters |-> [k \in Keys |-> <<0, counters[k]>>], queue |-> queue]

(* Meter.Persist after the flush: store.Save renames a complete file. *)
Persist ==
    /\ worker.pc = "persist"
    /\ disk' = Snapshot
    /\ IF life = "starting"
         THEN Return(FALSE, FALSE)
         ELSE worker' = [worker EXCEPT !.pc = "deliver"] /\ UNCHANGED life
    /\ UNCHANGED <<traffic, server, epoch, memory, uncertain>>

(* Mutant: a failed save does not stop the delivery. *)
PersistIgnored ==
    /\ worker.pc = "persist"
    /\ worker' = [worker EXCEPT !.pc = "deliver"]
    /\ UNCHANGED <<traffic, server, disk, life, epoch, memory, uncertain>>

PersistFails ==
    /\ worker.pc = "persist"
    /\ Return(FALSE, TRUE)
    /\ UNCHANGED <<traffic, server, disk, epoch, memory, uncertain>>

(* The control plane keeps the greatest counter of a key. *)
Accept(d) == server' = [server EXCEPT ![d.key] = Larger(@, d.bytes)]

NothingToDeliver ==
    /\ worker.pc = "deliver"
    /\ queue = <<>>
    /\ Return(FALSE, FALSE)
    /\ UNCHANGED <<traffic, server, disk, epoch, memory, uncertain>>

(* DeliverNext: the oldest report is accepted and acknowledged. *)
Deliver ==
    /\ worker.pc = "deliver"
    /\ queue # <<>>
    /\ Accept(Head(queue))
    /\ queue' = Tail(queue)
    /\ worker' = [worker EXCEPT !.pc = "acknowledged"]
    /\ uncertain' = {}
    /\ UNCHANGED <<traffic, disk, life, epoch, counters, last>>

(* Refused, unreachable, or accepted with the answer lost. *)
DeliveryFails ==
    /\ worker.pc = "deliver"
    /\ queue # <<>>
    /\ Accept(Head(queue)) \/ UNCHANGED server
    /\ uncertain' = {Head(queue)}
    /\ Return(TRUE, TRUE)
    /\ UNCHANGED <<traffic, disk, epoch, memory>>

(* UsageWorker.Persist after the acknowledgement. *)
PersistAcknowledged ==
    /\ worker.pc = "acknowledged"
    /\ disk' = Snapshot
    /\ Return(TRUE, FALSE)
    /\ UNCHANGED <<traffic, server, epoch, memory, uncertain>>

PersistAcknowledgedFails ==
    /\ worker.pc = "acknowledged"
    /\ Return(TRUE, TRUE)
    /\ UNCHANGED <<traffic, server, disk, epoch, memory, uncertain>>

-----------------------------------------------------------------------------
(* The end of the process *)

(* DataPlane.Shutdown begins with the usage worker. *)
BeginShutdown ==
    /\ life = "up"
    /\ worker.pc = "idle"
    /\ life' = "stopping"
    /\ UNCHANGED <<traffic, server, disk, epoch, memory, worker, uncertain>>

Forget ==
    /\ counters' = [k \in Keys |-> 0]
    /\ last' = [k \in Keys |-> 0]
    /\ queue' = <<>>
    /\ worker' = IdleWorker

(* The other components stop, and Persistence.Shutdown saves last. *)
FinalSave ==
    /\ life \in {"stopped", "failed"}
    /\ disk' \in {Snapshot, disk}
    /\ life' = "down"
    /\ Forget
    /\ UNCHANGED <<traffic, server, epoch, uncertain>>

Crash ==
    /\ life # "down"
    /\ life' = "down"
    /\ Forget
    /\ UNCHANGED <<traffic, server, disk, epoch, uncertain>>

-----------------------------------------------------------------------------

Worker ==
    \/ BeginFlush
    \/ \E d \in worker.todo : FlushOne(d)
    \/ Flushed \/ Persist \/ NothingToDeliver \/ Deliver \/ PersistAcknowledged

Failures == PersistFails \/ DeliveryFails \/ PersistAcknowledgedFails \/ Crash

Next ==
    \/ Start
    \/ \E r \in Routes, n \in 1..2 : Record(r, n)
    \/ Worker
    \/ Failures
    \/ BeginShutdown
    \/ FinalSave

Spec == Init /\ [][Next]_vars

(* The worker's ticker fires for ever; saves and deliveries may fail again    *)
(* and again but not every time.                                              *)
Fairness ==
    /\ WF_vars(BeginFlush)
    /\ WF_vars(\E d \in worker.todo : FlushOne(d))
    /\ WF_vars(Flushed)
    /\ SF_vars(Persist)
    /\ WF_vars(NothingToDeliver)
    /\ SF_vars(Deliver)
    /\ SF_vars(PersistAcknowledged)

FairSpec == Spec /\ Fairness

-----------------------------------------------------------------------------

Total(k) == disk.counters[k][1] + disk.counters[k][2]

Queued(k) == {queue[i].bytes : i \in Positions(k)}

Represented(k) == last[k] <= server[k] \/ \E b \in Queued(k) : last[k] <= b

(* The control plane is never told more than was forwarded: neither a restart *)
(* (which sums partitions), a coalesced report nor a repeated delivery counts *)
(* a byte twice.                                                              *)
NeverOverReported == \A k \in Keys : server[k] <= traffic[k]

(* What the control plane accepted survives a crash: deliver saves a report   *)
(* before it is sent, so no restart begins behind it.                         *)
ToldIsDurable == \A k \in Keys : server[k] <= Total(k)

(* What the meter of a running process takes as reported in its own epoch was *)
(* accepted or still waits in the queue, so a full queue, a failed save or a  *)
(* lost answer costs no byte.                                                 *)
ReportedIsRepresented ==
    life \in Forwarding => \A r \in Routes : Represented(<<epoch, r>>)

(* RestoreBaseline "marks durable counters as already represented by the      *)
(* restored pending queue or by an earlier acknowledged report".              *)
RestoredIsRepresented ==
    life \in Forwarding => \A k \in Keys : Represented(k)

(* "Public ingress and connector forwarding stop before the final accounting  *)
(* flush": when the usage worker has stopped without an error, everything     *)
(* counted in this epoch was accepted.                                        *)
FinalFlushIsFinal ==
    life = "stopped" => \A r \in Routes : counters[<<epoch, r>>] <= server[<<epoch, r>>]

(* "An uncertain delivery is retried unchanged." *)
RetryIsUnchanged ==
    (worker.pc = "deliver" /\ uncertain # {} /\ queue # <<>>) => uncertain = {Head(queue)}

(* Whatever a running process has counted it reports in the end. *)
CountedIsReported ==
    \A k \in Keys : \A n \in 1..MaxTraffic :
        (life = "up" /\ k[1] = epoch /\ counters[k] = n) ~> (server[k] >= n \/ life # "up")

(* "An uncertain delivery is retried": a pending report is accepted in the    *)
(* end, or one that includes it.                                              *)
PendingIsDelivered ==
    \A k \in Keys : \A n \in 1..MaxTraffic :
        (life = "up" /\ n \in Queued(k)) ~> (server[k] >= n \/ life # "up")
=============================================================================
