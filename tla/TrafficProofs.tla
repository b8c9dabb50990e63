--------------------------- MODULE TrafficProofs ---------------------------
(* Proofs about the streams that carry traffic and the accounting of it.       *)
(* UsagePipeline: what the control plane is told was forwarded, is durable     *)
(* before it is told, and nothing is marked reported that is not.              *)
(* CarrierStreams, for any calls of either end and any limits: every stream of *)
(* the host that the edge took has one holder, and the permits and opening     *)
(* slots of the edge are those that are held.                                  *)
EXTENDS UsagePipeline, CarrierStreams, TLAPS

(* Every report of a queue is within a counter function. *)
Within(q, c) == \A i \in 1..Len(q) : q[i].bytes <= c[q[i].key]

(* How the four places that hold a byte count are ordered: control plane,      *)
(* file, memory, reality.                                                      *)
Ordered ==
    /\ \A k \in Keys : counters[k] <= traffic[k]
    /\ \A k \in Keys : Restored[k] <= traffic[k] /\ server[k] <= Restored[k]
    /\ Within(queue, counters)
    /\ Within(disk.queue, Restored)
    /\ \A d \in worker.todo : d.bytes <= counters[d.key]
    /\ life # "down" => \A k \in Keys : server[k] <= counters[k]
    /\ worker.pc = "deliver" => Within(queue, Restored)

(* Epochs to come are untouched, and the meter of this epoch owes nothing.    *)
Fresh == \A k \in Keys : k[1] > epoch => traffic[k] = 0

Owes == \A r \in Routes : Represented(<<epoch, r>>)

(* Nothing runs while the process is down. *)
Stopped == life = "down" => worker = IdleWorker

Inv == TypeOK /\ Ordered /\ Fresh /\ Owes /\ Stopped

(* The saturating sum of two counters is a counter, at least each of them and *)
(* at most their sum.                                                         *)
LEMMA PlusBounds ==
    ASSUME NEW a \in 0..CounterLimit, NEW b \in Nat
    PROVE  /\ Plus(a, b) \in 0..CounterLimit
           /\ a <= Plus(a, b)
           /\ b <= CounterLimit => b <= Plus(a, b)
           /\ Plus(a, b) <= a + b
  BY BoundsAssumption DEF Plus

(* What RestoreCounters computes from a well-formed file. *)
LEMMA RestoredBounds ==
    ASSUME TypeOK, NEW k \in Keys
    PROVE  /\ Restored[k] \in 0..CounterLimit
           /\ Baseline[k] \in 0..CounterLimit
           /\ Baseline[k] <= Restored[k]
           /\ Restored[k] <= Total(k)
           /\ Total(k) = 0 => Baseline[k] = 0
  <1> DEFINE a == disk.counters[k][1]
             b == disk.counters[k][2]
  <1>1. a \in 0..CounterLimit /\ b \in 0..CounterLimit
    BY Zenon DEF TypeOK
  <1>2. Restored[k] = Plus(a, b) /\ Baseline[k] = Larger(a, b) /\ Total(k) = a + b
    BY Zenon DEF Restored, Baseline, Total
  <1> HIDE DEF a, b
  <1>3. b \in Nat
    BY <1>1, BoundsAssumption
  <1>4. Plus(a, b) \in 0..CounterLimit /\ a <= Plus(a, b) /\ b <= Plus(a, b) /\ Plus(a, b) <= a + b
    BY <1>1, <1>3, PlusBounds
  <1> QED BY <1>1, <1>2, <1>4, BoundsAssumption DEF Larger

(* A snapshot restores to the counters it was taken of. *)
LEMMA SnapshotRestores ==
    ASSUME TypeOK, disk' = Snapshot, NEW k \in Keys
    PROVE  Restored'[k] = counters[k]
  <1>1. disk'.counters[k] = <<0, counters[k]>>
    BY Zenon DEF Snapshot
  <1>2. Restored'[k] = Plus(0, counters[k])
    BY <1>1 DEF Restored
  <1>3. counters[k] \in 0..CounterLimit
    BY Zenon DEF TypeOK
  <1> QED BY <1>2, <1>3, BoundsAssumption DEF Plus

LEMMA InitInv == Init => Inv
  <1> SUFFICES ASSUME Init PROVE Inv
    BY Zenon
  <1>0. CounterLimit \in Nat /\ LastEpoch \in Nat /\ MaxReports \in Nat
    BY BoundsAssumption, Zenon
  <1>1. PICK old \in {<<0, 0>>, Legacy}, r \in Routes :
        /\ disk = [counters |-> [k \in Keys |-> IF k = <<0, r>> THEN old ELSE <<0, 0>>], queue |-> <<>>]
        /\ traffic = [k \in Keys |-> IF k = <<0, r>> THEN old[1] + old[2] ELSE 0]
        /\ server = [k \in Keys |-> IF k = <<0, r>> THEN Larger(old[1], old[2]) ELSE 0]
    BY Zenon DEF Init
  <1>2. old \in (0..CounterLimit) \X (0..CounterLimit)
    BY <1>0, BoundsAssumption
  <1>3. old[1] \in 0..CounterLimit /\ old[2] \in 0..CounterLimit
    BY <1>2, Zenon
  <1>4. TypeOK
    <2>1. disk \in [counters : [Keys -> (0..CounterLimit) \X (0..CounterLimit)], queue : Seq(Reports)]
      BY <1>0, <1>1, <1>2
    <2>2. traffic \in [Keys -> Nat] /\ server \in [Keys -> Nat]
      BY <1>0, <1>1, <1>3 DEF Larger
    <2>3. Len(disk.queue) <= MaxReports
      BY <1>0, <1>1
    <2> QED BY <2>1, <2>2, <2>3, <1>0 DEF TypeOK, Init, IdleWorker, Epochs
  <1>5. \A k \in Keys : Restored[k] <= traffic[k] /\ server[k] <= Restored[k]
    <2> SUFFICES ASSUME NEW k \in Keys PROVE Restored[k] <= traffic[k] /\ server[k] <= Restored[k]
      BY Zenon
    <2>1. Restored[k] <= Total(k) /\ Baseline[k] <= Restored[k]
      BY <1>4, RestoredBounds, Zenon
    <2>2. Total(k) = traffic[k] /\ Baseline[k] = server[k]
      BY <1>1, <1>3 DEF Total, Baseline, Larger
    <2> QED BY <2>1, <2>2, Zenon
  <1>6. \A k \in Keys : traffic[k] \in Nat /\ server[k] \in Nat
    BY <1>4, Zenon DEF TypeOK
  <1>7. Ordered
    BY <1>1, <1>5, <1>6 DEF Ordered, Within, Init, IdleWorker
  <1>8. Fresh
    BY <1>1 DEF Fresh, Init, Keys, Epochs
  <1>9. Owes
    BY <1>6, <1>0 DEF Owes, Represented, Init, Keys, Epochs
  <1> QED BY <1>4, <1>7, <1>8, <1>9, Zenon DEF Inv, Stopped, Init

-----------------------------------------------------------------------------
(* Steps that touch neither the file, the control plane nor reality keep      *)
(* what only these determine.                                                 *)
LEMMA RestoredUnchanged ==
    ASSUME UNCHANGED disk
    PROVE  Restored' = Restored
  BY Zenon DEF Restored

(* The ends of a call of deliver that change nothing else. *)
LEMMA ReturnInv ==
    ASSUME Inv, NEW delivered \in BOOLEAN, NEW err \in BOOLEAN, Return(delivered, err),
           worker.pc # "idle", UNCHANGED <<traffic, server, disk, epoch, memory, uncertain>>
    PROVE  Inv'
  <1>1. life \in {"starting", "up", "stopping", "stopped", "failed"}
    BY DEF Inv, Stopped, TypeOK, IdleWorker
  <1>2. life' \in {"down", "starting", "up", "stopping", "stopped", "failed"} /\ worker' = IdleWorker
    BY <1>1, Zenon DEF Return
  <1>3. TypeOK'
    BY <1>2, Zenon DEF Inv, TypeOK, memory, IdleWorker
  <1>4. Ordered'
    BY <1>1, <1>2, Zenon DEF Inv, Ordered, Within, memory, IdleWorker, Restored
  <1>5. Fresh' /\ Owes' /\ Stopped'
    BY <1>2, Zenon DEF Inv, Fresh, Owes, Represented, Queued, Positions, memory, Stopped
  <1> QED BY <1>3, <1>4, <1>5, Zenon DEF Inv

LEMMA StartInv == Inv /\ Start => Inv'
  <1> SUFFICES ASSUME Inv, Start PROVE Inv'
    BY Zenon
  <1>0. CounterLimit \in Nat /\ LastEpoch \in Nat /\ MaxReports \in Nat
    BY BoundsAssumption, Zenon
  <1>1. /\ life = "down" /\ epoch < LastEpoch /\ epoch' = epoch + 1
        /\ counters' = Restored /\ last' = Baseline /\ queue' = disk.queue
        /\ life' \in {"up", "starting"}
        /\ worker' \in {IdleWorker, [pc |-> "flush", todo |-> Due(Restored, Baseline)]}
        /\ UNCHANGED <<traffic, server, disk, uncertain>>
    BY Zenon DEF Start
  <1>2. Restored \in [Keys -> 0..CounterLimit] /\ Baseline \in [Keys -> Nat]
    BY <1>0, RestoredBounds DEF Inv, Restored, Baseline
  <1>3. Due(Restored, Baseline) \subseteq Reports
    BY <1>0, <1>2 DEF Due, Reports
  <1>4. TypeOK'
    BY <1>0, <1>1, <1>2, <1>3 DEF Inv, TypeOK, IdleWorker, Epochs
  <1>5. Restored' = Restored
    BY <1>1, RestoredUnchanged, Zenon
  <1>6. Ordered'
    <2>1. \A d \in worker'.todo : d.bytes <= counters'[d.key]
      BY <1>0, <1>1, <1>2 DEF Due, IdleWorker
    <2>2. worker'.pc # "deliver"
      BY <1>1 DEF IdleWorker
    <2> QED BY <2>1, <2>2, <1>1, <1>5, Zenon DEF Inv, Ordered, Within
  <1>7. Fresh'
    <2> SUFFICES ASSUME NEW k \in Keys, k[1] > epoch + 1 PROVE traffic[k] = 0
      BY <1>1, Zenon DEF Fresh
    <2>1. k[1] \in Nat /\ epoch \in Nat
      BY <1>0 DEF Inv, TypeOK, Keys, Epochs
    <2>2. k[1] > epoch
      BY <2>1
    <2> QED BY <2>2, Zenon DEF Inv, Fresh
  <1>8. Owes'
    <2> SUFFICES ASSUME NEW r \in Routes PROVE Represented(<<epoch, r>>)'
      BY Zenon DEF Owes
    <2>1. PICK k : k = <<epoch + 1, r>>
      BY Zenon
    <2>2. k \in Keys /\ k[1] > epoch
      BY <1>0, <1>1, <2>1 DEF Inv, TypeOK, Keys, Epochs
    <2>3. traffic[k] = 0
      BY <2>2, Zenon DEF Inv, Fresh
    <2>4. Restored[k] = 0 /\ Baseline[k] = 0
      BY <1>0, <1>2, <2>2, <2>3, RestoredBounds DEF Inv, Ordered
    <2>5. server'[k] \in Nat
      BY <1>4, <2>2, Zenon DEF TypeOK
    <2> QED BY <1>1, <2>1, <2>4, <2>5 DEF Represented
  <1> QED BY <1>1, <1>4, <1>6, <1>7, <1>8, Zenon DEF Inv, Stopped

LEMMA RecordInv == \A r \in Routes, n \in 1..2 : Inv /\ Record(r, n) => Inv'
  <1> SUFFICES ASSUME NEW r \in Routes, NEW n \in 1..2, Inv, Record(r, n) PROVE Inv'
    BY Zenon
  <1>0. CounterLimit \in Nat /\ LastEpoch \in Nat
    BY BoundsAssumption, Zenon
  <1>1. PICK k : k = <<epoch, r>>
    BY Zenon
  <1>2. k \in Keys /\ k[1] = epoch
    BY <1>0, <1>1, Zenon DEF Inv, TypeOK, Keys
  <1>3. /\ traffic' = [traffic EXCEPT ![k] = traffic[k] + n]
        /\ counters' = [counters EXCEPT ![k] = Plus(counters[k], n)]
        /\ UNCHANGED <<server, disk, life, epoch, last, queue, worker, uncertain>>
    BY <1>1, <1>2, Zenon DEF Record, Inv, TypeOK
  <1>4. counters[k] \in 0..CounterLimit /\ traffic[k] \in Nat /\ n \in Nat
    BY <1>2 DEF Inv, TypeOK
  <1>5. /\ Plus(counters[k], n) \in 0..CounterLimit
        /\ counters[k] <= Plus(counters[k], n)
        /\ Plus(counters[k], n) <= counters[k] + n
    BY <1>4, PlusBounds, Zenon
  <1>6. TypeOK'
    <2>1. counters \in [Keys -> 0..CounterLimit] /\ traffic \in [Keys -> Nat]
      BY Zenon DEF Inv, TypeOK
    <2>2. traffic[k] + n \in Nat
      BY <1>4
    <2>3. counters' \in [Keys -> 0..CounterLimit] /\ traffic' \in [Keys -> Nat]
      BY <1>3, <1>5, <2>1, <2>2, Zenon
    <2> QED BY <1>3, <2>3, Zenon DEF Inv, TypeOK
  <1>7. Restored' = Restored
    BY <1>3, RestoredUnchanged, Zenon
  <1>a. \A j \in Keys : /\ counters'[j] = IF j = k THEN Plus(counters[k], n) ELSE counters[j]
                       /\ traffic'[j] = IF j = k THEN traffic[k] + n ELSE traffic[j]
    <2>1. counters \in [Keys -> 0..CounterLimit] /\ traffic \in [Keys -> Nat]
      BY Zenon DEF Inv, TypeOK
    <2> QED BY <1>3, <2>1, Zenon
  <1>8. \A j \in Keys : /\ counters[j] \in Nat /\ counters'[j] \in Nat /\ counters[j] <= counters'[j]
                       /\ traffic[j] \in Nat /\ traffic'[j] \in Nat /\ traffic[j] <= traffic'[j]
                       /\ server[j] \in Nat /\ Restored[j] \in Nat
    <2> SUFFICES ASSUME NEW j \in Keys
                 PROVE  /\ counters[j] \in Nat /\ counters'[j] \in Nat /\ counters[j] <= counters'[j]
                        /\ traffic[j] \in Nat /\ traffic'[j] \in Nat /\ traffic[j] <= traffic'[j]
                        /\ server[j] \in Nat /\ Restored[j] \in Nat
      BY Zenon
    <2>1. /\ counters \in [Keys -> 0..CounterLimit] /\ traffic \in [Keys -> Nat] /\ server \in [Keys -> Nat]
      BY Zenon DEF Inv, TypeOK
    <2>2. Restored[j] \in Nat
      BY <1>0, RestoredBounds DEF Inv
    <2>3. counters[j] \in 0..CounterLimit /\ traffic[j] \in Nat /\ server[j] \in Nat
      BY <2>1, Zenon
    <2> QED BY <1>0, <1>4, <1>5, <1>a, <2>2, <2>3
  <1>9. Ordered'
    <2>1. \A j \in Keys : counters'[j] <= traffic'[j]
      <3>1. \A j \in Keys : counters[j] <= traffic[j]
        BY Zenon DEF Inv, Ordered
      <3> QED BY <1>0, <1>2, <1>4, <1>5, <1>8, <1>a, <3>1
    <2>2. \A j \in Keys : Restored'[j] <= traffic'[j] /\ server'[j] <= Restored'[j]
      BY <1>3, <1>7, <1>8 DEF Inv, Ordered
    <2>3. \A i \in 1..Len(queue) : queue[i] \in Reports
      BY DEF Inv, TypeOK
    <2>4. Within(queue, counters)'
      BY <1>3, <1>8, <2>3 DEF Inv, Ordered, Within, Reports
    <2>5. \A d \in worker'.todo : d.bytes <= counters'[d.key]
      <3>1. worker.todo \subseteq Reports /\ \A d \in worker.todo : d.bytes <= counters[d.key]
        BY Zenon DEF Inv, TypeOK, Ordered
      <3>2. \A d \in worker.todo : d.key \in Keys /\ d.bytes \in Nat
        BY <3>1, Zenon DEF Reports
      <3> QED BY <1>3, <1>8, <3>1, <3>2
    <2>6. life' # "down" => \A j \in Keys : server'[j] <= counters'[j]
      BY <1>3, <1>8 DEF Inv, Ordered
    <2>7. Within(disk.queue, Restored)' /\ (worker.pc = "deliver" => Within(queue, Restored))'
      BY <1>3, <1>7, Zenon DEF Inv, Ordered, Within
    <2> QED BY <2>1, <2>2, <2>4, <2>5, <2>6, <2>7, Zenon DEF Ordered
  <1>10. Fresh'
    <2> SUFFICES ASSUME NEW j \in Keys, j[1] > epoch PROVE traffic'[j] = 0
      BY <1>3, Zenon DEF Fresh
    <2>1. epoch \in Nat /\ j # k
      BY <1>0, <1>2 DEF Inv, TypeOK, Epochs
    <2>2. traffic'[j] = traffic[j]
      BY <1>3, <2>1, Zenon DEF Inv, TypeOK
    <2> QED BY <2>2, Zenon DEF Inv, Fresh
  <1>11. Owes' /\ Stopped'
    BY <1>3, Zenon DEF Inv, Owes, Represented, Queued, Positions, Stopped
  <1> QED BY <1>6, <1>9, <1>10, <1>11, Zenon DEF Inv

LEMMA BeginFlushInv == Inv /\ BeginFlush => Inv'
  <1> SUFFICES ASSUME Inv, BeginFlush PROVE Inv'
    BY Zenon
  <1>1. /\ life \in {"up", "stopping"} /\ worker' = [pc |-> "flush", todo |-> Due(counters, last)]
        /\ UNCHANGED <<traffic, server, disk, life, epoch, counters, last, queue, uncertain>>
    BY Zenon DEF BeginFlush, memory
  <1>2. Due(counters, last) \subseteq Reports /\ \A d \in Due(counters, last) : d.bytes <= counters[d.key]
    <2>1. counters \in [Keys -> Nat] /\ \A k \in Keys : counters[k] \in Nat
      BY BoundsAssumption DEF Inv, TypeOK
    <2> QED BY <2>1 DEF Due, Reports
  <1>3. TypeOK'
    BY <1>1, <1>2, Zenon DEF Inv, TypeOK
  <1>4. Ordered'
    BY <1>1, <1>2, Zenon DEF Inv, Ordered, Within, Restored
  <1>5. Fresh' /\ Owes' /\ Stopped'
    BY <1>1, Zenon DEF Inv, Fresh, Owes, Represented, Queued, Positions, Stopped
  <1> QED BY <1>3, <1>4, <1>5, Zenon DEF Inv

(* EnqueueLatest keeps the queue a queue of reports within the counters, and  *)
(* leaves a report of the flushed key that is at least as new.                *)
LEMMA EnqueueLatestFacts ==
    ASSUME queue \in Seq(Reports), NEW d \in Reports, EnqueueLatest(d)
    PROVE  /\ queue' \in Seq(Reports)
           /\ Len(queue') = IF Positions(d.key) = {} THEN Len(queue) + 1 ELSE Len(queue)
           /\ \A i \in 1..Len(queue') : queue'[i] = d \/ (i \in 1..Len(queue) /\ queue'[i] = queue[i])
           /\ \A i \in 1..Len(queue) : queue'[i].key = queue[i].key /\ queue[i].bytes <= queue'[i].bytes
           /\ \E i \in 1..Len(queue') : queue'[i].key = d.key /\ d.bytes <= queue'[i].bytes
  <1>1. \A i \in 1..Len(queue) : queue[i].bytes \in Nat /\ queue[i].key \in Keys /\ queue[i] \in Reports
    <2>1. \A i \in 1..Len(queue) : queue[i] \in Reports
      OBVIOUS
    <2> QED BY <2>1, Zenon DEF Reports
  <1>2. d.bytes \in Nat
    BY Zenon DEF Reports
  <1>3. CASE Positions(d.key) = {}
    <2>1. queue' = Append(queue, d)
      BY <1>3, Zenon DEF EnqueueLatest
    <2> QED BY <1>1, <1>2, <1>3, <2>1, SMTT(30)
  <1>4. CASE Positions(d.key) # {}
    <2>1. queue' = [i \in 1..Len(queue) |->
                     IF queue[i].key = d.key /\ d.bytes > queue[i].bytes THEN d ELSE queue[i]]
      <3>1. DOMAIN queue = 1..Len(queue)
        OBVIOUS
      <3> QED BY <1>4, <3>1, Zenon DEF EnqueueLatest
    <2>2. PICK i \in 1..Len(queue) : queue[i].key = d.key
      BY <1>4 DEF Positions
    <2>3. queue' \in Seq(Reports) /\ Len(queue') = Len(queue)
      BY <1>1, <2>1
    <2>4. \A j \in 1..Len(queue) :
             queue'[j] = IF queue[j].key = d.key /\ d.bytes > queue[j].bytes THEN d ELSE queue[j]
      BY <2>1, Zenon
    <2>5. queue'[i].key = d.key /\ d.bytes <= queue'[i].bytes
      BY <1>1, <1>2, <2>2, <2>4
    <2>6. \A j \in 1..Len(queue) : queue'[j].key = queue[j].key /\ queue[j].bytes <= queue'[j].bytes
      BY <1>1, <1>2, <2>4, SMTT(30)
    <2>7. \A j \in 1..Len(queue') : queue'[j] = d \/ (j \in 1..Len(queue) /\ queue'[j] = queue[j])
      BY <2>3, <2>4, Zenon
    <2>8. \E j \in 1..Len(queue') : queue'[j].key = d.key /\ d.bytes <= queue'[j].bytes
      BY <2>2, <2>3, <2>5, Zenon
    <2> QED BY <1>4, <2>3, <2>6, <2>7, <2>8, Zenon
  <1> QED BY <1>3, <1>4, Zenon

LEMMA FlushOneInv == \A d \in worker.todo : Inv /\ FlushOne(d) => Inv'
  <1> SUFFICES ASSUME NEW d \in worker.todo, Inv, FlushOne(d) PROVE Inv'
    BY Zenon
  <1>0. MaxReports \in Nat /\ CounterLimit \in Nat
    BY BoundsAssumption, Zenon
  <1>1. d \in Reports /\ d.key \in Keys /\ d.bytes \in Nat /\ worker.pc = "flush"
    BY Zenon DEF Inv, TypeOK, FlushOne, Reports
  <1>2. CASE ~HasRoom(d)
    BY <1>1, <1>2, ReturnInv, Zenon DEF FlushOne, memory
  <1>3. CASE HasRoom(d)
    <2>1. /\ EnqueueLatest(d) /\ last' = [last EXCEPT ![d.key] = d.bytes]
          /\ worker' = [worker EXCEPT !.todo = @ \ {d}]
          /\ UNCHANGED <<traffic, server, disk, life, epoch, counters, uncertain>>
      BY <1>3, Zenon DEF FlushOne
    <2>2. queue \in Seq(Reports) /\ Len(queue) \in Nat /\ Len(queue) <= MaxReports
      BY DEF Inv, TypeOK
    <2>3. /\ queue' \in Seq(Reports)
          /\ Len(queue') = IF Positions(d.key) = {} THEN Len(queue) + 1 ELSE Len(queue)
          /\ \A i \in 1..Len(queue') : queue'[i] = d \/ (i \in 1..Len(queue) /\ queue'[i] = queue[i])
          /\ \A i \in 1..Len(queue) : queue'[i].key = queue[i].key /\ queue[i].bytes <= queue'[i].bytes
          /\ \E i \in 1..Len(queue') : queue'[i].key = d.key /\ d.bytes <= queue'[i].bytes
      BY <1>1, <2>1, <2>2, EnqueueLatestFacts, Zenon
    <2>4. Len(queue') <= MaxReports
      BY <1>0, <1>3, <2>2, <2>3 DEF HasRoom
    <2>5. worker'.pc = "flush" /\ worker'.todo \subseteq worker.todo
          /\ worker' \in [pc : {"idle", "flush", "persist", "deliver", "acknowledged"}, todo : SUBSET Reports]
      BY <1>1, <2>1, Zenon DEF Inv, TypeOK
    <2>6. last' \in [Keys -> Nat]
      BY <1>1, <2>1, Zenon DEF Inv, TypeOK
    <2>7. TypeOK'
      BY <2>1, <2>3, <2>4, <2>5, <2>6, Zenon DEF Inv, TypeOK
    <2>8. Ordered'
      <3>1. Within(queue, counters)'
        BY <1>1, <2>1, <2>3, Zenon DEF Inv, Ordered, Within
      <3>2. Restored' = Restored
        BY <2>1, RestoredUnchanged, Zenon
      <3> QED BY <2>1, <2>5, <3>1, <3>2, Zenon DEF Inv, Ordered, Within
    <2>9. Owes'
      <3> SUFFICES ASSUME NEW r \in Routes PROVE Represented(<<epoch, r>>)'
        BY Zenon DEF Owes
      <3>1. PICK k : k = <<epoch, r>>
        BY Zenon
      <3>2. k \in Keys
        BY <3>1, Zenon DEF Inv, TypeOK, Keys
      <3>3. CASE k = d.key
        <4>1. last'[k] = d.bytes
          BY <1>1, <2>1, <3>3, Zenon DEF Inv, TypeOK
        <4>2. PICK i \in 1..Len(queue') : queue'[i].key = d.key /\ d.bytes <= queue'[i].bytes
          BY <2>3, Zenon
        <4>3. i \in DOMAIN queue'
          BY <2>3, <4>2
        <4> QED BY <2>1, <3>1, <3>3, <4>1, <4>2, <4>3, Zenon DEF Represented, Queued, Positions
      <3>4. CASE k # d.key
        <4>1. last'[k] = last[k] /\ last[k] \in Nat
          BY <1>1, <2>1, <3>2, <3>4, Zenon DEF Inv, TypeOK
        <4>2. Represented(k)
          BY <3>1, Zenon DEF Inv, Owes
        <4>3. CASE last[k] <= server[k]
          BY <2>1, <3>1, <4>1, <4>3, Zenon DEF Represented
        <4>4. CASE \E b \in Queued(k) : last[k] <= b
          <5>1. PICK i \in DOMAIN queue : queue[i].key = k /\ last[k] <= queue[i].bytes
            <6>1. PICK b \in Queued(k) : last[k] <= b
              BY <4>4, Zenon
            <6>2. PICK i \in Positions(k) : b = queue[i].bytes
              BY <6>1, Zenon DEF Queued
            <6> QED BY <6>1, <6>2, Zenon DEF Positions
          <5>2. i \in 1..Len(queue) /\ queue[i] \in Reports
            BY <2>2, <5>1
          <5>3. i \in DOMAIN queue' /\ queue'[i] \in Reports
            BY <2>2, <2>3, <5>2
          <5>4. queue'[i].key = k /\ last[k] <= queue'[i].bytes
            <6>1. queue[i].bytes \in Nat /\ queue'[i].bytes \in Nat
              BY <5>2, <5>3, Zenon DEF Reports
            <6>2. queue'[i].key = queue[i].key /\ queue[i].bytes <= queue'[i].bytes
              BY <2>3, <5>2, Zenon
            <6> QED BY <4>1, <5>1, <6>1, <6>2
          <5> QED BY <2>1, <3>1, <4>1, <5>3, <5>4, Zenon DEF Represented, Queued, Positions
        <4> QED BY <4>2, <4>3, <4>4, Zenon DEF Represented
      <3> QED BY <3>3, <3>4, Zenon
    <2>10. Fresh' /\ Stopped'
      <3>1. life # "down"
        BY <1>1 DEF Inv, Stopped, IdleWorker
      <3> QED BY <2>1, <3>1, Zenon DEF Inv, Fresh, Stopped
    <2> QED BY <2>7, <2>8, <2>9, <2>10, Zenon DEF Inv
  <1> QED BY <1>2, <1>3, Zenon

LEMMA FlushedInv == Inv /\ Flushed => Inv'
  <1> SUFFICES ASSUME Inv, Flushed PROVE Inv'
    BY Zenon
  <1>1. /\ worker.pc = "flush" /\ worker' = [worker EXCEPT !.pc = "persist"]
        /\ UNCHANGED <<traffic, server, disk, life, epoch, counters, last, queue, uncertain>>
    BY Zenon DEF Flushed, memory
  <1>2. worker'.pc = "persist" /\ worker'.todo = worker.todo
    BY <1>1, Zenon DEF Inv, TypeOK
  <1>3. TypeOK'
    BY <1>1, Zenon DEF Inv, TypeOK
  <1>4. Ordered'
    BY <1>1, <1>2, Zenon DEF Inv, Ordered, Within, Restored
  <1>5. Fresh' /\ Owes' /\ Stopped'
    BY <1>1 DEF Inv, Fresh, Owes, Represented, Queued, Positions, Stopped, IdleWorker
  <1> QED BY <1>3, <1>4, <1>5, Zenon DEF Inv

(* A save makes the file agree with memory. *)
LEMMA SavedOrdered ==
    ASSUME Inv, life # "down", disk' = Snapshot,
           UNCHANGED <<traffic, server, counters, queue>>
    PROVE  /\ disk' \in [counters : [Keys -> (0..CounterLimit) \X (0..CounterLimit)], queue : Seq(Reports)]
           /\ Len(disk'.queue) <= MaxReports
           /\ \A k \in Keys : Restored'[k] <= traffic'[k] /\ server'[k] <= Restored'[k]
           /\ Within(queue, Restored)'
           /\ Within(disk.queue, Restored)'
  <1>0. CounterLimit \in Nat
    BY BoundsAssumption, Zenon
  <1>1. \A k \in Keys : Restored'[k] = counters[k]
    BY SnapshotRestores, Zenon DEF Inv
  <1>2. disk' = [counters |-> [k \in Keys |-> <<0, counters[k]>>], queue |-> queue]
    BY Zenon DEF Snapshot
  <1>3. \A k \in Keys : counters[k] \in 0..CounterLimit
    BY Zenon DEF Inv, TypeOK
  <1>4. disk' \in [counters : [Keys -> (0..CounterLimit) \X (0..CounterLimit)], queue : Seq(Reports)]
    BY <1>0, <1>2, <1>3, SMTT(30) DEF Inv, TypeOK
  <1>5. disk'.queue = queue /\ Len(disk'.queue) <= MaxReports
    BY <1>2 DEF Inv, TypeOK
  <1>6. \A k \in Keys : Restored'[k] <= traffic'[k] /\ server'[k] <= Restored'[k]
    BY <1>1, Zenon DEF Inv, Ordered
  <1>7. \A i \in 1..Len(queue) : queue[i] \in Reports
    BY DEF Inv, TypeOK
  <1>8. \A i \in 1..Len(queue) : queue[i].key \in Keys
    BY <1>7, Zenon DEF Reports
  <1>9. Within(queue, Restored)' /\ Within(disk.queue, Restored)'
    BY <1>1, <1>5, <1>8, Zenon DEF Inv, Ordered, Within
  <1> QED BY <1>4, <1>5, <1>6, <1>9, Zenon

(* Persist and PersistAcknowledged: the worker goes on to any position but    *)
(* a flush.                                                                   *)
LEMMA SaveInv ==
    ASSUME Inv, life # "down", disk' = Snapshot,
           life' \in {"starting", "up", "stopping", "stopped", "failed"},
           worker' \in [pc : {"idle", "deliver"}, todo : {{}, worker.todo}],
           UNCHANGED <<traffic, server, epoch, counters, last, queue, uncertain>>
    PROVE  Inv'
  <1>1. /\ disk' \in [counters : [Keys -> (0..CounterLimit) \X (0..CounterLimit)], queue : Seq(Reports)]
        /\ Len(disk'.queue) <= MaxReports
        /\ \A k \in Keys : Restored'[k] <= traffic'[k] /\ server'[k] <= Restored'[k]
        /\ Within(queue, Restored)'
        /\ Within(disk.queue, Restored)'
    BY SavedOrdered, Zenon
  <1>2. worker'.todo \subseteq worker.todo
    BY Zenon
  <1>3. TypeOK'
    BY <1>1, Zenon DEF Inv, TypeOK
  <1>4. Ordered'
    BY <1>1, <1>2, Zenon DEF Inv, Ordered, Within
  <1>5. Fresh' /\ Owes' /\ Stopped'
    BY Zenon DEF Inv, Fresh, Owes, Represented, Queued, Positions, Stopped
  <1> QED BY <1>3, <1>4, <1>5, Zenon DEF Inv

LEMMA PersistInv == Inv /\ (Persist \/ PersistAcknowledged) => Inv'
  <1> SUFFICES ASSUME Inv, Persist \/ PersistAcknowledged PROVE Inv'
    BY Zenon
  <1>1. worker.pc \in {"persist", "acknowledged"} /\ disk' = Snapshot
        /\ UNCHANGED <<traffic, server, epoch, counters, last, queue, uncertain>>
    BY Zenon DEF Persist, PersistAcknowledged, memory
  <1>2. life \in {"starting", "up", "stopping", "stopped", "failed"}
    BY <1>1 DEF Inv, Stopped, TypeOK, IdleWorker
  <1>3. life' \in {"starting", "up", "stopping", "stopped", "failed"}
    BY <1>2, Zenon DEF Persist, PersistAcknowledged, Return
  <1>4. worker' \in [pc : {"idle", "deliver"}, todo : {{}, worker.todo}]
    BY DEF Persist, PersistAcknowledged, Return, IdleWorker, Inv, TypeOK
  <1> QED BY <1>1, <1>2, <1>3, <1>4, SaveInv, Zenon

(* What is told stays within file, memory and reality. *)
LEMMA AcceptOrdered ==
    ASSUME Inv, worker.pc = "deliver", queue # <<>>, Accept(Head(queue)),
           UNCHANGED <<traffic, disk, counters>>
    PROVE  /\ server' \in [Keys -> Nat]
           /\ \A k \in Keys : server[k] <= server'[k] /\ server'[k] <= Restored'[k] /\ server'[k] <= counters'[k]
           /\ Head(queue).bytes <= server'[Head(queue).key]
  <1>0. CounterLimit \in Nat
    BY BoundsAssumption, Zenon
  <1>1. queue \in Seq(Reports) /\ Len(queue) >= 1 /\ queue[1] = Head(queue)
    BY DEF Inv, TypeOK
  <1>2. PICK d : d = Head(queue)
    BY Zenon
  <1>3. d \in Reports /\ d = queue[1]
    BY <1>1, <1>2
  <1>4. d.key \in Keys /\ d.bytes \in Nat
    BY <1>3, Zenon DEF Reports
  <1>5. d.bytes <= Restored[d.key] /\ d.bytes <= counters[d.key]
    BY <1>1, <1>3 DEF Inv, Ordered, Within
  <1>6. server \in [Keys -> Nat] /\ counters \in [Keys -> Nat]
    BY <1>0 DEF Inv, TypeOK
  <1>7. server' = [server EXCEPT ![d.key] = Larger(server[d.key], d.bytes)]
    BY <1>2, <1>4, <1>6, Zenon DEF Accept
  <1>8. Restored' = Restored /\ \A k \in Keys : Restored[k] \in Nat
    BY <1>0, RestoredUnchanged, RestoredBounds DEF Inv
  <1>9. life # "down"
    BY DEF Inv, Stopped, IdleWorker
  <1>10. \A k \in Keys : server[k] <= Restored[k] /\ server[k] <= counters[k]
    BY <1>9, Zenon DEF Inv, Ordered
  <1>11. Larger(server[d.key], d.bytes) \in Nat
    BY <1>4, <1>6, Zenon DEF Larger
  <1>12. server' \in [Keys -> Nat]
    BY <1>6, <1>7, <1>11, Zenon
  <1>13. \A k \in Keys : server'[k] = IF k = d.key THEN Larger(server[k], d.bytes) ELSE server[k]
    BY <1>6, <1>7, Zenon
  <1>14. \A k \in Keys : server[k] <= server'[k] /\ server'[k] <= Restored'[k] /\ server'[k] <= counters'[k]
    BY <1>4, <1>5, <1>6, <1>8, <1>10, <1>13 DEF Larger
  <1>15. d.bytes <= server'[d.key]
    BY <1>4, <1>6, <1>13 DEF Larger
  <1> QED BY <1>2, <1>12, <1>14, <1>15, Zenon

LEMMA DeliverInv == Inv /\ Deliver => Inv'
  <1> SUFFICES ASSUME Inv, Deliver PROVE Inv'
    BY Zenon
  <1>1. /\ worker.pc = "deliver" /\ queue # <<>> /\ Accept(Head(queue)) /\ queue' = Tail(queue)
        /\ worker' = [worker EXCEPT !.pc = "acknowledged"] /\ uncertain' = {}
        /\ UNCHANGED <<traffic, disk, life, epoch, counters, last>>
    BY Zenon DEF Deliver
  <1>2. /\ server' \in [Keys -> Nat]
        /\ \A k \in Keys : server[k] <= server'[k] /\ server'[k] <= Restored'[k] /\ server'[k] <= counters'[k]
        /\ Head(queue).bytes <= server'[Head(queue).key]
    BY <1>1, AcceptOrdered, Zenon
  <1>3. queue \in Seq(Reports) /\ Len(queue) >= 1 /\ Len(queue) <= MaxReports
    BY <1>1 DEF Inv, TypeOK
  <1>4. /\ queue' \in Seq(Reports) /\ Len(queue') = Len(queue) - 1
        /\ \A i \in 1..Len(queue') : queue'[i] = queue[i + 1]
    BY <1>1, <1>3
  <1>5. worker'.pc = "acknowledged" /\ worker'.todo = worker.todo
    BY <1>1, Zenon DEF Inv, TypeOK
  <1>6. TypeOK'
    <2>1. Len(queue') <= MaxReports
      BY <1>3, <1>4, BoundsAssumption
    <2>2. worker' \in [pc : {"idle", "flush", "persist", "deliver", "acknowledged"}, todo : SUBSET Reports]
      BY <1>1, Zenon DEF Inv, TypeOK
    <2> QED BY <1>1, <1>2, <1>4, <2>1, <2>2, Zenon DEF Inv, TypeOK
  <1>7. Restored' = Restored
    BY <1>1, RestoredUnchanged, Zenon
  <1>8. Ordered'
    <2>1. Within(queue, counters)'
      BY <1>1, <1>3, <1>4 DEF Inv, Ordered, Within
    <2> QED BY <1>1, <1>2, <1>5, <1>7, <2>1, Zenon DEF Inv, Ordered, Within
  <1>9. Owes'
    <2> SUFFICES ASSUME NEW r \in Routes PROVE Represented(<<epoch, r>>)'
      BY Zenon DEF Owes
    <2>1. PICK k : k = <<epoch, r>>
      BY Zenon
    <2>2. k \in Keys
      BY <2>1, Zenon DEF Inv, TypeOK, Keys
    <2>3. last[k] \in Nat /\ server[k] \in Nat /\ server'[k] \in Nat
      BY <1>2, <2>2, Zenon DEF Inv, TypeOK
    <2>4. Represented(k)
      BY <2>1, Zenon DEF Inv, Owes
    <2>5. CASE last[k] <= server[k]
      <3>1. last[k] <= server'[k]
        BY <1>2, <2>2, <2>3, <2>5
      <3> QED BY <1>1, <2>1, <3>1, Zenon DEF Represented
    <2>6. CASE \E b \in Queued(k) : last[k] <= b
      <3>1. PICK i \in DOMAIN queue : queue[i].key = k /\ last[k] <= queue[i].bytes
        <4>1. PICK b \in Queued(k) : last[k] <= b
          BY <2>6, Zenon
        <4>2. PICK i \in Positions(k) : b = queue[i].bytes
          BY <4>1, Zenon DEF Queued
        <4> QED BY <4>1, <4>2, Zenon DEF Positions
      <3>2. i \in 1..Len(queue) /\ queue[i] \in Reports
        BY <1>3, <3>1
      <3>3. queue[i].bytes \in Nat
        BY <3>2, Zenon DEF Reports
      <3>4. CASE i = 1
        <4>1. queue[1] = Head(queue)
          BY <1>3
        <4>2. last[k] <= server'[k]
          BY <1>2, <2>3, <3>1, <3>3, <3>4, <4>1
        <4> QED BY <1>1, <2>1, <4>2, Zenon DEF Represented
      <3>5. CASE i # 1
        <4>1. i - 1 \in DOMAIN queue' /\ queue'[i - 1] = queue[i]
          BY <1>3, <1>4, <3>2, <3>5
        <4> QED BY <1>1, <2>1, <3>1, <4>1, Zenon DEF Represented, Queued, Positions
      <3> QED BY <3>4, <3>5, Zenon
    <2> QED BY <2>4, <2>5, <2>6, Zenon DEF Represented
  <1>10. life # "down"
    BY <1>1 DEF Inv, Stopped, IdleWorker
  <1>11. Fresh' /\ Stopped'
    BY <1>1, <1>10, Zenon DEF Inv, Fresh, Stopped
  <1> QED BY <1>6, <1>8, <1>9, <1>11, Zenon DEF Inv

LEMMA DeliveryFailsInv == Inv /\ DeliveryFails => Inv'
  <1> SUFFICES ASSUME Inv, DeliveryFails PROVE Inv'
    BY Zenon
  <1>1. /\ worker.pc = "deliver" /\ queue # <<>> /\ Return(TRUE, TRUE)
        /\ Accept(Head(queue)) \/ UNCHANGED server
        /\ uncertain' = {Head(queue)}
        /\ UNCHANGED <<traffic, disk, epoch, counters, last, queue>>
    BY Zenon DEF DeliveryFails, memory
  <1>2. life \in {"starting", "up", "stopping", "stopped", "failed"}
    BY <1>1 DEF Inv, Stopped, TypeOK, IdleWorker
  <1>3. life' \in {"down", "starting", "up", "stopping", "stopped", "failed"} /\ worker' = IdleWorker
    BY <1>1, <1>2, Zenon DEF Return
  <1>4. Restored' = Restored
    BY <1>1, RestoredUnchanged, Zenon
  <1>5. server \in [Keys -> Nat] /\ \A k \in Keys : server[k] \in Nat
    BY Zenon DEF Inv, TypeOK
  <1>6. /\ server' \in [Keys -> Nat]
        /\ \A k \in Keys : server[k] <= server'[k] /\ server'[k] <= Restored'[k] /\ server'[k] <= counters'[k]
    <2>1. CASE Accept(Head(queue))
      BY <1>1, <2>1, AcceptOrdered, Zenon
    <2>2. CASE UNCHANGED server
      <3>1. \A k \in Keys : server[k] <= Restored[k] /\ server[k] <= counters[k]
        BY <1>2, Zenon DEF Inv, Ordered
      <3> QED BY <1>1, <1>4, <1>5, <2>2, <3>1
    <2> QED BY <1>1, <2>1, <2>2, Zenon
  <1>7. Head(queue) \in Reports
    BY <1>1, SMTT(30) DEF Inv, TypeOK
  <1>8. TypeOK'
    BY <1>1, <1>3, <1>6, <1>7, Zenon DEF Inv, TypeOK, IdleWorker
  <1>9. Ordered'
    BY <1>1, <1>3, <1>4, <1>6, Zenon DEF Inv, Ordered, Within, IdleWorker
  <1>10. Owes'
    <2> SUFFICES ASSUME NEW r \in Routes PROVE Represented(<<epoch, r>>)'
      BY Zenon DEF Owes
    <2>1. PICK k : k = <<epoch, r>>
      BY Zenon
    <2>2. k \in Keys /\ Represented(k)
      BY <2>1, Zenon DEF Inv, TypeOK, Keys, Owes
    <2>3. last[k] \in Nat /\ server[k] \in Nat /\ server'[k] \in Nat /\ server[k] <= server'[k]
      BY <1>5, <1>6, <2>2, Zenon DEF Inv, TypeOK
    <2>4. last[k] <= server[k] => last[k] <= server'[k]
      BY <2>3
    <2> QED BY <1>1, <2>1, <2>2, <2>4, Zenon DEF Represented, Queued, Positions
  <1>11. Fresh' /\ Stopped'
    BY <1>1, <1>3, Zenon DEF Inv, Fresh, Stopped
  <1> QED BY <1>8, <1>9, <1>10, <1>11, Zenon DEF Inv

LEMMA BeginShutdownInv == Inv /\ BeginShutdown => Inv'
  <1> SUFFICES ASSUME Inv, BeginShutdown PROVE Inv'
    BY Zenon
  <1>1. /\ life = "up" /\ life' = "stopping"
        /\ UNCHANGED <<traffic, server, disk, epoch, counters, last, queue, worker, uncertain>>
    BY Zenon DEF BeginShutdown, memory
  <1>2. TypeOK'
    BY <1>1, Zenon DEF Inv, TypeOK
  <1>3. Ordered'
    BY <1>1, Zenon DEF Inv, Ordered, Within, Restored
  <1>4. Fresh' /\ Owes' /\ Stopped'
    BY <1>1, Zenon DEF Inv, Fresh, Owes, Represented, Queued, Positions, Stopped
  <1> QED BY <1>2, <1>3, <1>4, Zenon DEF Inv

(* The process ends, with or without a last save. *)
LEMMA EndInv == Inv /\ (FinalSave \/ Crash) => Inv'
  <1> SUFFICES ASSUME Inv, FinalSave \/ Crash PROVE Inv'
    BY Zenon
  <1>0. CounterLimit \in Nat /\ MaxReports \in Nat
    BY BoundsAssumption, Zenon
  <1>1. /\ life # "down" /\ life' = "down" /\ disk' \in {Snapshot, disk}
        /\ counters' = [k \in Keys |-> 0] /\ last' = [k \in Keys |-> 0]
        /\ queue' = <<>> /\ worker' = IdleWorker
        /\ UNCHANGED <<traffic, server, epoch, uncertain>>
    BY Zenon DEF FinalSave, Crash, Forget
  <1>2. /\ disk' \in [counters : [Keys -> (0..CounterLimit) \X (0..CounterLimit)], queue : Seq(Reports)]
        /\ Len(disk'.queue) <= MaxReports
        /\ \A k \in Keys : Restored'[k] <= traffic'[k] /\ server'[k] <= Restored'[k]
        /\ Within(disk.queue, Restored)'
    <2>1. CASE disk' = disk
      <3>1. Restored' = Restored
        BY <2>1, RestoredUnchanged, Zenon
      <3> QED BY <1>1, <2>1, <3>1, Zenon DEF Inv, TypeOK, Ordered, Within
    <2>2. CASE disk' = Snapshot
      <3>1. \A k \in Keys : Restored'[k] = counters[k]
        BY <2>2, SnapshotRestores, Zenon DEF Inv
      <3>2. disk' = [counters |-> [k \in Keys |-> <<0, counters[k]>>], queue |-> queue]
        BY <2>2, Zenon DEF Snapshot
      <3>3. \A k \in Keys : counters[k] \in 0..CounterLimit
        BY Zenon DEF Inv, TypeOK
      <3>4. disk' \in [counters : [Keys -> (0..CounterLimit) \X (0..CounterLimit)], queue : Seq(Reports)]
        BY <1>0, <3>2, <3>3, SMTT(30) DEF Inv, TypeOK
      <3>5. disk'.queue = queue /\ Len(disk'.queue) <= MaxReports
        BY <3>2, Zenon DEF Inv, TypeOK
      <3>6. \A k \in Keys : Restored'[k] <= traffic'[k] /\ server'[k] <= Restored'[k]
        BY <1>1, <3>1, Zenon DEF Inv, Ordered
      <3>7. \A i \in 1..Len(queue) : queue[i] \in Reports
        BY DEF Inv, TypeOK
      <3>8. \A i \in 1..Len(queue) : queue[i].key \in Keys
        BY <3>7, Zenon DEF Reports
      <3>9. Within(disk.queue, Restored)'
        BY <3>1, <3>5, <3>8, Zenon DEF Inv, Ordered, Within
      <3> QED BY <3>4, <3>5, <3>6, <3>9, Zenon
    <2> QED BY <1>1, <2>1, <2>2, Zenon
  <1>3. TypeOK'
    BY <1>0, <1>1, <1>2 DEF Inv, TypeOK, IdleWorker
  <1>4. \A k \in Keys : traffic'[k] \in Nat /\ server'[k] \in Nat
    BY <1>3, Zenon DEF TypeOK
  <1>5. Ordered'
    <2>1. \A k \in Keys : counters'[k] <= traffic'[k]
      BY <1>1, <1>4
    <2>2. Within(queue, counters)'
      BY <1>1 DEF Within
    <2>3. worker'.todo = {} /\ worker'.pc # "deliver" /\ life' = "down"
      BY <1>1, Zenon DEF IdleWorker
    <2> QED BY <1>2, <2>1, <2>2, <2>3, Zenon DEF Ordered
  <1>6. Owes'
    BY <1>1, <1>4 DEF Inv, TypeOK, Owes, Represented, Keys
  <1>7. Fresh' /\ Stopped'
    BY <1>1, Zenon DEF Inv, Fresh, Stopped
  <1> QED BY <1>3, <1>5, <1>6, <1>7, Zenon DEF Inv

LEMMA NextInv == Inv /\ [Next]_vars => Inv'
  <1> SUFFICES ASSUME Inv, [Next]_vars PROVE Inv'
    BY Zenon
  <1>1. CASE Start
    BY <1>1, StartInv, Zenon
  <1>2. CASE \E r \in Routes, n \in 1..2 : Record(r, n)
    BY <1>2, RecordInv, Zenon
  <1>3. CASE Worker
    <2>1. CASE BeginFlush
      BY <2>1, BeginFlushInv, Zenon
    <2>2. CASE \E d \in worker.todo : FlushOne(d)
      BY <2>2, FlushOneInv, Zenon
    <2>3. CASE Flushed
      BY <2>3, FlushedInv, Zenon
    <2>4. CASE Persist \/ PersistAcknowledged
      BY <2>4, PersistInv, Zenon
    <2>5. CASE NothingToDeliver
      BY <2>5, ReturnInv, Zenon DEF NothingToDeliver
    <2>6. CASE Deliver
      BY <2>6, DeliverInv, Zenon
    <2> QED BY <1>3, <2>1, <2>2, <2>3, <2>4, <2>5, <2>6, Zenon DEF Worker
  <1>4. CASE Failures
    <2>1. CASE PersistFails
      BY <2>1, ReturnInv, Zenon DEF PersistFails
    <2>2. CASE DeliveryFails
      BY <2>2, DeliveryFailsInv, Zenon
    <2>3. CASE PersistAcknowledgedFails
      BY <2>3, ReturnInv, ZenonT(30) DEF PersistAcknowledgedFails
    <2>4. CASE Crash
      BY <2>4, EndInv, Zenon
    <2> QED BY <1>4, <2>1, <2>2, <2>3, <2>4, Zenon DEF Failures
  <1>5. CASE BeginShutdown
    BY <1>5, BeginShutdownInv, Zenon
  <1>6. CASE FinalSave
    BY <1>6, EndInv, Zenon
  <1>7. CASE UNCHANGED vars
    <2>1. UNCHANGED <<traffic, server, disk, life, epoch, counters, last, queue, worker, uncertain>>
      BY <1>7, Zenon DEF vars, memory
    <2>2. TypeOK'
      BY <2>1, Zenon DEF Inv, TypeOK
    <2>4. Owes'
      BY <2>1, Zenon DEF Inv, Owes, Represented, Queued, Positions
    <2>5. Fresh' /\ Stopped'
      BY <2>1, Zenon DEF Inv, Fresh, Stopped
    <2>3. Ordered'
      BY <2>1, Zenon DEF Inv, Ordered, Within, Restored
    <2> QED BY <2>2, <2>3, <2>4, <2>5, Zenon DEF Inv
  <1> QED BY <1>1, <1>2, <1>3, <1>4, <1>5, <1>6, <1>7, Zenon DEF Next

(* The inductive invariant: control plane, file, memory and reality are       *)
(* ordered in every state, through crashes, restarts and failed calls.        *)
THEOREM InvCorrect == Spec => []Inv
  BY InitInv, NextInv, PTL DEF Spec

(* The control plane is never told more than was forwarded.                   *)
THEOREM NeverOverReportedCorrect == Spec => []NeverOverReported
  <1>1. Inv => NeverOverReported
    <2> SUFFICES ASSUME Inv, NEW k \in Keys PROVE server[k] <= traffic[k]
      BY Zenon DEF NeverOverReported
    <2>1. server[k] \in Nat /\ traffic[k] \in Nat
      BY Zenon DEF Inv, TypeOK
    <2>2. Restored[k] \in 0..CounterLimit
      BY RestoredBounds, Zenon DEF Inv
    <2> QED BY <2>1, <2>2, BoundsAssumption DEF Inv, Ordered
  <1> QED BY <1>1, InvCorrect, PTL

(* What the control plane accepted is in the file: deliver sends only what    *)
(* Persist has saved.                                                         *)
THEOREM ToldIsDurableCorrect == Spec => []ToldIsDurable
  <1>1. Inv => ToldIsDurable
    <2> SUFFICES ASSUME Inv, NEW k \in Keys PROVE server[k] <= Total(k)
      BY Zenon DEF ToldIsDurable
    <2>1. server[k] \in Nat /\ server[k] <= Restored[k]
      BY Zenon DEF Inv, TypeOK, Ordered
    <2>2. Restored[k] \in 0..CounterLimit /\ Restored[k] <= Total(k)
      BY RestoredBounds, Zenon DEF Inv
    <2>3. Total(k) \in Nat
      <3>1. disk.counters \in [Keys -> (0..CounterLimit) \X (0..CounterLimit)]
        BY Zenon DEF Inv, TypeOK
      <3>2. disk.counters[k][1] \in 0..CounterLimit /\ disk.counters[k][2] \in 0..CounterLimit
        BY <3>1, Zenon
      <3> QED BY <3>2, BoundsAssumption DEF Total
    <2> QED BY <2>1, <2>2, <2>3, BoundsAssumption
  <1> QED BY <1>1, InvCorrect, PTL

(* Nothing of the running epoch is marked reported that is neither accepted   *)
(* nor queued.                                                                *)
THEOREM ReportedIsRepresentedCorrect == Spec => []ReportedIsRepresented
  <1>1. Inv => ReportedIsRepresented
    BY Zenon DEF Inv, Owes, ReportedIsRepresented
  <1> QED BY <1>1, InvCorrect, PTL

-----------------------------------------------------------------------------
(* The permits of a data carrier                                               *)

EndType == [done : BOOLEAN, permits : Int, openings : Int, active : Int]
OpenType == [pc : {"idle", "permit", "dialing", "canceled", "raw", "live"}, live : BOOLEAN, preface : BOOLEAN]
FarStates == {"none", "backlog", "taken", "queued", "held", "open", "serving"}
Holds == {"permit", "dialing", "canceled", "raw", "live"}
Waits == {"dialing", "canceled"}
HoldsOne(pc) == IF pc \in Holds THEN 1 ELSE 0
WaitsOne(pc) == IF pc \in Waits THEN 1 ELSE 0
ServedOne(st) == IF st \in {"open", "serving"} THEN 1 ELSE 0

(* The sets that are counted, as functions of the maps.                        *)
OpeningOf(op) == {c \in EdgeCalls : op[c].pc \in Holds}
WaitingOf(op) == {c \in EdgeCalls : op[c].pc \in Waits}
ServedOf(fr) == {c \in HostCalls : fr[c] \in {"open", "serving"}}

EdgeCounts(e, op, fr, sv, ct) ==
    /\ e.permits = Cardinality(OpeningOf(op)) + Cardinality(ServedOf(fr))
                   + (IF sv.pc \in {"wait", "preface"} THEN 1 ELSE 0)
                   + (IF ct.pc = "wait" THEN 1 ELSE 0) + ct.accepted
    /\ e.active = e.permits
    /\ e.openings = Cardinality(WaitingOf(op))

LEMMA EdgeCountsIsInv == EdgePermitsAreHeld <=> EdgeCounts(ends["edge"], opens, far, serve, control)
<1>1. Opening("edge") = OpeningOf(opens) /\ Served = ServedOf(far)
  BY Zenon DEF Opening, OpeningOf, EdgeCalls, Holds, Served, ServedOf, HostCalls
<1>2. {c \in Opening("edge") : opens[c].pc \in {"dialing", "canceled"}} = WaitingOf(opens)
  BY Zenon DEF Opening, WaitingOf, EdgeCalls, Waits
<1> QED  BY <1>1, <1>2, Zenon DEF EdgePermitsAreHeld, EdgeCounts

LEMMA EdgeCountsIsInvNext ==
    EdgePermitsAreHeld' <=> EdgeCounts(ends'["edge"], opens', far', serve', control')
<1>1. Opening("edge")' = OpeningOf(opens') /\ Served' = ServedOf(far')
  BY Zenon DEF Opening, OpeningOf, EdgeCalls, Holds, Served, ServedOf, HostCalls
<1>2. {c \in Opening("edge")' : opens'[c].pc \in {"dialing", "canceled"}} = WaitingOf(opens')
  BY Zenon DEF Opening, WaitingOf, EdgeCalls, Waits
<1> QED  BY <1>1, <1>2, Zenon DEF EdgePermitsAreHeld, EdgeCounts

(* Two sets of calls that agree on all calls but one.                          *)
Bit(b) == IF b THEN 1 ELSE 0

(* What the counting needs of the finite set of calls.                         *)
CallsAreCounted ==
    /\ Cardinality({}) = 0
    /\ \A A \in SUBSET Calls : Cardinality(A) \in Nat
    /\ \A A \in SUBSET Calls, c \in Calls : c \notin A => Cardinality(A \cup {c}) = Cardinality(A) + 1

LEMMA OneMoves ==
    ASSUME CallsAreCounted, NEW A \in SUBSET Calls, NEW B \in SUBSET Calls, NEW c \in Calls,
           \A d \in Calls \ {c} : d \in A <=> d \in B
    PROVE  /\ Cardinality(A) \in Nat /\ Cardinality(B) \in Nat
           /\ Cardinality(B) = Cardinality(A) + Bit(c \in B) - Bit(c \in A)
           /\ c \in A => Cardinality(A) > 0
<1>1. ASSUME NEW C \in SUBSET Calls, c \notin C
      PROVE  Cardinality(C \cup {c}) = Cardinality(C) + 1 /\ Cardinality(C) \in Nat
  BY <1>1, Zenon DEF CallsAreCounted
<1>2. Cardinality(A) \in Nat /\ Cardinality(B) \in Nat
  BY Zenon DEF CallsAreCounted
<1>3. CASE c \in A /\ c \in B
  <2>1. A = B
    BY <1>3
  <2>2. PICK C \in SUBSET Calls : C = A \ {c}
    BY Zenon
  <2>3. A = C \cup {c} /\ c \notin C
    BY <1>3, <2>2, Zenon
  <2>4. Cardinality(A) > 0
    <3>1. Cardinality(C \cup {c}) = Cardinality(C) + 1 /\ Cardinality(C) \in Nat
      BY <1>1, <2>3, Zenon
    <3> QED  BY <2>3, <3>1
  <2> QED  BY <1>2, <1>3, <2>1, <2>4 DEF Bit
<1>4. CASE c \notin A /\ c \notin B
  <2>1. A = B
    BY <1>4
  <2> QED  BY <1>2, <1>4, <2>1 DEF Bit
<1>5. CASE c \notin A /\ c \in B
  <2>1. B = A \cup {c}
    BY <1>5, Zenon
  <2>2. Cardinality(B) = Cardinality(A) + 1
    BY <1>1, <1>5, <2>1, Zenon
  <2> QED  BY <1>2, <1>5, <2>2 DEF Bit
<1>6. CASE c \in A /\ c \notin B
  <2>1. A = B \cup {c}
    BY <1>6, Zenon
  <2>2. Cardinality(A) = Cardinality(B) + 1
    BY <1>1, <1>6, <2>1, Zenon
  <2> QED  BY <1>2, <1>6, <2>2 DEF Bit
<1> QED  BY <1>3, <1>4, <1>5, <1>6, Zenon

(* One call moves.                                                             *)
EdgeMoves(op, new, c) ==
    /\ Cardinality(OpeningOf(new)) = Cardinality(OpeningOf(op)) + HoldsOne(new[c].pc) - HoldsOne(op[c].pc)
    /\ op[c].pc \in Holds => Cardinality(OpeningOf(op)) > 0
    /\ Cardinality(WaitingOf(new)) = Cardinality(WaitingOf(op)) + WaitsOne(new[c].pc) - WaitsOne(op[c].pc)

LEMMA CallMoves ==
    ASSUME CallsAreCounted, NEW op, NEW new, NEW c \in Calls, \A d \in Calls \ {c} : new[d] = op[d]
    PROVE  /\ Cardinality(OpeningOf(op)) \in Nat /\ Cardinality(OpeningOf(new)) \in Nat
           /\ Cardinality(WaitingOf(op)) \in Nat /\ Cardinality(WaitingOf(new)) \in Nat
           /\ c \in HostCalls => OpeningOf(new) = OpeningOf(op) /\ WaitingOf(new) = WaitingOf(op)
           /\ c \in EdgeCalls => EdgeMoves(op, new, c)
<1>1. PICK A \in SUBSET Calls, B \in SUBSET Calls : A = OpeningOf(op) /\ B = OpeningOf(new)
  BY Zenon DEF OpeningOf, EdgeCalls
<1>2. PICK V \in SUBSET Calls, W \in SUBSET Calls : V = WaitingOf(op) /\ W = WaitingOf(new)
  BY Zenon DEF WaitingOf, EdgeCalls
<1>3. (\A d \in Calls \ {c} : d \in A <=> d \in B) /\ (\A d \in Calls \ {c} : d \in V <=> d \in W)
  BY <1>1, <1>2, Zenon DEF OpeningOf, WaitingOf, EdgeCalls
<1>4. /\ Cardinality(A) \in Nat /\ Cardinality(B) \in Nat
      /\ Cardinality(B) = Cardinality(A) + Bit(c \in B) - Bit(c \in A)
      /\ c \in A => Cardinality(A) > 0
  BY <1>3, OneMoves, Zenon
<1>5. /\ Cardinality(V) \in Nat /\ Cardinality(W) \in Nat
      /\ Cardinality(W) = Cardinality(V) + Bit(c \in W) - Bit(c \in V)
  BY <1>3, OneMoves, Zenon
<1>6. ASSUME c \in HostCalls
      PROVE  A = B /\ V = W
  <2>1. c \notin A /\ c \notin B /\ c \notin V /\ c \notin W
    BY <1>1, <1>2, <1>6, Zenon DEF OpeningOf, WaitingOf, HostCalls, EdgeCalls
  <2> QED  BY <1>3, <2>1
<1>7. ASSUME c \in EdgeCalls
      PROVE  /\ c \in A <=> op[c].pc \in Holds
             /\ c \in B <=> new[c].pc \in Holds
             /\ c \in V <=> op[c].pc \in Waits
             /\ c \in W <=> new[c].pc \in Waits
  BY <1>1, <1>2, <1>7, Zenon DEF OpeningOf, WaitingOf
<1>8. ASSUME c \in EdgeCalls
      PROVE  /\ Cardinality(B) = Cardinality(A) + HoldsOne(new[c].pc) - HoldsOne(op[c].pc)
             /\ op[c].pc \in Holds => Cardinality(A) > 0
             /\ Cardinality(W) = Cardinality(V) + WaitsOne(new[c].pc) - WaitsOne(op[c].pc)
  BY <1>4, <1>5, <1>7, <1>8, Zenon DEF Bit, HoldsOne, WaitsOne
<1> QED  BY <1>1, <1>2, <1>4, <1>5, <1>6, <1>8, Zenon DEF EdgeMoves

(* One accepted stream moves.                                                  *)
LEMMA FarMoves ==
    ASSUME CallsAreCounted, NEW fr, NEW new, NEW c \in Calls, \A d \in Calls \ {c} : new[d] = fr[d]
    PROVE  /\ Cardinality(ServedOf(fr)) \in Nat /\ Cardinality(ServedOf(new)) \in Nat
           /\ c \in EdgeCalls => ServedOf(new) = ServedOf(fr)
           /\ c \in HostCalls =>
                /\ Cardinality(ServedOf(new)) = Cardinality(ServedOf(fr))
                       + ServedOne(new[c]) - ServedOne(fr[c])
                /\ fr[c] \in {"open", "serving"} => Cardinality(ServedOf(fr)) > 0
<1>1. PICK A \in SUBSET Calls, B \in SUBSET Calls : A = ServedOf(fr) /\ B = ServedOf(new)
  BY Zenon DEF ServedOf, HostCalls
<1>2. \A d \in Calls \ {c} : d \in A <=> d \in B
  BY <1>1, Zenon DEF ServedOf, HostCalls
<1>3. /\ Cardinality(A) \in Nat /\ Cardinality(B) \in Nat
      /\ Cardinality(B) = Cardinality(A) + Bit(c \in B) - Bit(c \in A)
      /\ c \in A => Cardinality(A) > 0
  BY <1>2, OneMoves, Zenon
<1>4. ASSUME c \in EdgeCalls
      PROVE  A = B
  <2>1. c \notin A /\ c \notin B
    BY <1>1, <1>4, Zenon DEF ServedOf, HostCalls, EdgeCalls
  <2> QED  BY <1>2, <2>1
<1>5. ASSUME c \in HostCalls
      PROVE  /\ c \in A <=> fr[c] \in {"open", "serving"}
             /\ c \in B <=> new[c] \in {"open", "serving"}
  BY <1>1, <1>5, Zenon DEF ServedOf
<1>6. ASSUME c \in HostCalls
      PROVE  /\ Cardinality(B) = Cardinality(A) + ServedOne(new[c])
                                  - ServedOne(fr[c])
             /\ fr[c] \in {"open", "serving"} => Cardinality(A) > 0
  BY <1>3, <1>5, <1>6, Zenon DEF Bit, ServedOne
<1> QED  BY <1>1, <1>3, <1>4, <1>6, Zenon

LEMMA SideCases ==
    ASSUME NEW c \in Calls
    PROVE  /\ SideOf[c] = "edge" <=> c \in EdgeCalls
           /\ SideOf[c] = "host" <=> c \in HostCalls
           /\ c \in EdgeCalls \/ c \in HostCalls
           /\ c \notin EdgeCalls \/ c \notin HostCalls
           /\ SideOf[c] \in Sides
  BY CallsAssumption, Zenon DEF EdgeCalls, HostCalls, Sides

-----------------------------------------------------------------------------
(* The ends                                                                    *)

LEMMA EndFacts ==
    ASSUME NEW e, e \in [Sides -> EndType], NEW s \in Sides
    PROVE  /\ e[s] \in EndType /\ e[s].done \in BOOLEAN
           /\ e[s].permits \in Int /\ e[s].openings \in Int /\ e[s].active \in Int
  BY Zenon DEF EndType

(* releasePermit, TakesPermit and FreesOpening change one end only.            *)
LEMMA ReleaseFacts ==
    ASSUME NEW e, e \in [Sides -> EndType], NEW s \in Sides
    PROVE  /\ releasePermit(e, s) \in [Sides -> EndType]
           /\ \A r \in Sides \ {s} : releasePermit(e, s)[r] = e[r]
           /\ releasePermit(e, s)[s].permits = IF e[s].permits > 0 THEN e[s].permits - 1 ELSE e[s].permits
           /\ s = "edge" => releasePermit(e, s)[s].active = e[s].active - 1
           /\ releasePermit(e, s)[s].openings = e[s].openings
<1>1. PICK p \in Int : p = IF e[s].permits > 0 THEN e[s].permits - 1 ELSE e[s].permits
  BY EndFacts
<1>2. PICK a \in Int : a = IF s = "host" /\ e[s].done THEN e[s].active ELSE e[s].active - 1
  BY EndFacts
<1>3. PICK r : r = [e[s] EXCEPT !.permits = p, !.active = a]
  BY Zenon
<1>4. r \in EndType /\ r.permits = p /\ r.active = a /\ r.openings = e[s].openings
  BY <1>3, EndFacts, Zenon DEF EndType
<1>5. releasePermit(e, s) = [e EXCEPT ![s] = r]
  BY <1>1, <1>2, <1>3, EndFacts, Zenon DEF releasePermit
<1> QED  BY <1>1, <1>2, <1>4, <1>5, Zenon

LEMMA TakeFacts ==
    ASSUME ends \in [Sides -> EndType], NEW s \in Sides
    PROVE  /\ TakesPermit(s) \in [Sides -> EndType]
           /\ \A r \in Sides \ {s} : TakesPermit(s)[r] = ends[r]
           /\ TakesPermit(s)[s].permits = ends[s].permits + 1
           /\ TakesPermit(s)[s].active = ends[s].active + 1
           /\ TakesPermit(s)[s].openings = ends[s].openings
<1>0. PICK p \in Int, a \in Int : p = ends[s].permits + 1 /\ a = ends[s].active + 1
  BY EndFacts
<1>1. PICK r : r = [ends[s] EXCEPT !.permits = p, !.active = a]
  BY Zenon
<1>2. /\ r \in EndType /\ r.permits = ends[s].permits + 1 /\ r.active = ends[s].active + 1
      /\ r.openings = ends[s].openings
  BY <1>0, <1>1, EndFacts, Zenon DEF EndType
<1>3. TakesPermit(s) = [ends EXCEPT ![s] = r]
  BY <1>0, <1>1, Zenon DEF TakesPermit
<1> QED  BY <1>2, <1>3, Zenon

LEMMA OpeningFacts ==
    ASSUME ends \in [Sides -> EndType], NEW s \in Sides, NEW n \in Int, NEW e, e = [ends EXCEPT ![s].openings = n]
    PROVE  /\ e \in [Sides -> EndType]
           /\ \A r \in Sides \ {s} : e[r] = ends[r]
           /\ e[s].permits = ends[s].permits /\ e[s].active = ends[s].active /\ e[s].openings = n
<1>1. PICK r : r = [ends[s] EXCEPT !.openings = n]
  BY Zenon
<1>2. /\ r \in EndType /\ r.permits = ends[s].permits /\ r.active = ends[s].active /\ r.openings = n
  BY <1>1, EndFacts, Zenon DEF EndType
<1>3. e = [ends EXCEPT ![s] = r]
  BY <1>1, EndFacts, Zenon
<1> QED  BY <1>2, <1>3, Zenon

LEMMA FreesFacts ==
    ASSUME ends \in [Sides -> EndType], NEW s \in Sides
    PROVE  /\ FreesOpening(s) \in [Sides -> EndType]
           /\ \A r \in Sides \ {s} : FreesOpening(s)[r] = ends[r]
           /\ FreesOpening(s)[s].permits = ends[s].permits /\ FreesOpening(s)[s].active = ends[s].active
           /\ FreesOpening(s)[s].openings = ends[s].openings - 1
<1>1. PICK n \in Int : n = ends[s].openings - 1
  BY EndFacts
<1>2. FreesOpening(s) = [ends EXCEPT ![s].openings = n]
  BY <1>1, Zenon DEF FreesOpening
<1> QED  BY <1>1, <1>2, OpeningFacts

-----------------------------------------------------------------------------
(* The invariant                                                               *)

LoopType == [pc : {"accept", "read", "publish", "ended"}, stream : EdgeCalls \cup {Nobody}]
ServeType == [pc : {"loop", "wait", "preface", "returned"}, stream : HostCalls \cup {Nobody}]
ControlType == [slot : HostCalls \cup {Nobody, Aborted}, pc : {"idle", "wait", "wrapped"},
                stream : HostCalls \cup {Nobody}, live : BOOLEAN, accepted : Nat]

LEMMA InvFacts ==
    ASSUME CarrierInv
    PROVE  /\ ends \in [Sides -> EndType] /\ opens \in [Calls -> OpenType] /\ far \in [Calls -> FarStates]
           /\ loop \in LoopType /\ published \in Seq(EdgeCalls \cup {Nobody})
           /\ loop.pc = "read" => loop.stream \in EdgeCalls
           /\ serve \in ServeType /\ control \in ControlType
           /\ StreamHasOneHolder
           /\ EdgeCounts(ends["edge"], opens, far, serve, control)
<1>1. EdgeCounts(ends["edge"], opens, far, serve, control)
  BY EdgeCountsIsInv, Zenon DEF CarrierInv
<1> QED  BY <1>1, Zenon DEF CarrierInv, StreamTypes, EndType, OpenType, FarStates, LoopType, ServeType, ControlType

LEMMA InvFrom ==
    ASSUME ends' \in [Sides -> EndType], opens' \in [Calls -> OpenType], far' \in [Calls -> FarStates],
           loop' \in LoopType, published' \in Seq(EdgeCalls \cup {Nobody}),
           loop'.pc = "read" => loop'.stream \in EdgeCalls,
           serve' \in ServeType, control' \in ControlType, StreamHasOneHolder',
           EdgeCounts(ends'["edge"], opens', far', serve', control')
    PROVE  CarrierInv'
<1>1. EdgePermitsAreHeld'
  BY EdgeCountsIsInvNext, Zenon
<1>2. StreamTypes'
  BY Zenon DEF StreamTypes, EndType, OpenType, FarStates, LoopType, ServeType, ControlType, EdgeCalls, HostCalls
<1> QED  BY <1>1, <1>2, Zenon DEF CarrierInv

(* A step of one call that opens a stream.                                     *)
LEMMA CallStep ==
    ASSUME CallsAreCounted, CarrierInv, UNCHANGED <<loop, published, serve, control>>, NEW c \in Calls,
           ends' \in [Sides -> EndType], NEW r \in OpenType, opens' = [opens EXCEPT ![c] = r],
           far' = far \/ (opens[c].pc \in Waits /\ r.pc \notin Waits \cup {"permit"}
                            /\ far' = [far EXCEPT ![c] = "backlog"]),
           c \in HostCalls => /\ ends'["edge"] = ends["edge"]
                              /\ r.pc \in {"permit", "dialing", "canceled"} => far[c] = "none",
           c \in EdgeCalls =>
                /\ ends'["edge"].permits = ends["edge"].permits + HoldsOne(r.pc) - HoldsOne(opens[c].pc)
                /\ ends'["edge"].active = ends["edge"].active + HoldsOne(r.pc) - HoldsOne(opens[c].pc)
                /\ ends'["edge"].openings = ends["edge"].openings
                                              + WaitsOne(r.pc) - WaitsOne(opens[c].pc)
    PROVE  CarrierInv'
<1>1. /\ opens \in [Calls -> OpenType] /\ far \in [Calls -> FarStates] /\ StreamHasOneHolder
      /\ EdgeCounts(ends["edge"], opens, far, serve, control) /\ control \in ControlType
      /\ ends \in [Sides -> EndType]
  BY InvFacts, Zenon
<1>2. opens' \in [Calls -> OpenType] /\ opens'[c] = r /\ \A d \in Calls \ {c} : opens'[d] = opens[d]
  BY <1>1, Zenon
<1>3. far' \in [Calls -> FarStates] /\ \A d \in Calls \ {c} : far'[d] = far[d]
  BY <1>1, Zenon DEF FarStates
<1>4. c \in HostCalls => far'[c] = far[c] \/ (far[c] = "none" /\ far'[c] = "backlog")
  BY <1>1, Zenon DEF StreamHasOneHolder, Waits
<1>5. Cardinality(ServedOf(far')) = Cardinality(ServedOf(far)) /\ Cardinality(ServedOf(far)) \in Nat
  <2>1. ServedOf(far') = ServedOf(far)
    BY <1>3, <1>4, Zenon DEF ServedOf, HostCalls
  <2> QED  BY <1>3, <2>1, FarMoves, Zenon
<1>6. EdgeCounts(ends'["edge"], opens', far', serve', control')
  <2>1. CASE c \in HostCalls
    <3>1. OpeningOf(opens') = OpeningOf(opens) /\ WaitingOf(opens') = WaitingOf(opens)
      BY <1>2, <2>1, CallMoves, Zenon
    <3> QED  BY <1>1, <1>5, <2>1, <3>1, Zenon DEF EdgeCounts
  <2>2. CASE c \in EdgeCalls
    <3>1. /\ Cardinality(OpeningOf(opens)) \in Nat /\ Cardinality(OpeningOf(opens')) \in Nat
          /\ Cardinality(WaitingOf(opens)) \in Nat /\ Cardinality(WaitingOf(opens')) \in Nat
          /\ Cardinality(OpeningOf(opens')) = Cardinality(OpeningOf(opens))
                                              + HoldsOne(opens'[c].pc) - HoldsOne(opens[c].pc)
          /\ Cardinality(WaitingOf(opens')) = Cardinality(WaitingOf(opens))
                                              + WaitsOne(opens'[c].pc) - WaitsOne(opens[c].pc)
      <4>1. EdgeMoves(opens, opens', c)
        BY <1>2, <2>2, CallMoves, Zenon
      <4> QED  BY <1>2, <4>1, CallMoves, Zenon DEF EdgeMoves
    <3>2. PICK i \in Int, j \in Int, k \in Int, l \in Int :
            /\ i = HoldsOne(r.pc) /\ j = HoldsOne(opens[c].pc)
            /\ k = WaitsOne(r.pc) /\ l = WaitsOne(opens[c].pc)
      BY DEF HoldsOne, WaitsOne
    <3>3. PICK n \in Nat, m \in Nat, v \in Nat, w \in Nat :
            /\ n = Cardinality(OpeningOf(opens)) /\ m = Cardinality(OpeningOf(opens'))
            /\ v = Cardinality(WaitingOf(opens)) /\ w = Cardinality(WaitingOf(opens'))
            /\ m = n + i - j /\ w = v + k - l
      BY <1>2, <3>1, <3>2, Zenon
    <3>4. PICK x \in Int, y \in Int, z \in Int, a \in Int :
            /\ x = Cardinality(ServedOf(far)) /\ y = (IF serve.pc \in {"wait", "preface"} THEN 1 ELSE 0)
            /\ z = (IF control.pc = "wait" THEN 1 ELSE 0) /\ a = control.accepted
      BY <1>1, <1>5 DEF ControlType
    <3>5. /\ ends["edge"].permits = n + x + y + z + a /\ ends["edge"].active = ends["edge"].permits
          /\ ends["edge"].openings = v
      BY <1>1, <3>3, <3>4, Zenon DEF EdgeCounts
    <3>6. /\ ends'["edge"].permits = m + x + y + z + a /\ ends'["edge"].active = ends'["edge"].permits
          /\ ends'["edge"].openings = w
      BY <2>2, <3>2, <3>3, <3>5
    <3> QED  BY <1>5, <3>3, <3>4, <3>6, Zenon DEF EdgeCounts
  <2> QED  BY <2>1, <2>2, SideCases, Zenon
<1>7. StreamHasOneHolder'
  <2>1. \A d \in HostCalls : opens'[d].pc \in {"permit", "dialing", "canceled"} => far'[d] = "none"
    <3>1. SUFFICES ASSUME NEW d \in HostCalls, opens'[d].pc \in {"permit", "dialing", "canceled"}
                   PROVE  far'[d] = "none"
      BY Zenon
    <3>2. CASE d = c
      <4>1. far' = far
        BY <1>2, <3>1, <3>2, Zenon DEF Waits
      <4> QED  BY <1>2, <3>1, <3>2, <4>1, Zenon
    <3>3. CASE d # c
      BY <1>1, <1>2, <1>3, <3>1, <3>3, Zenon DEF StreamHasOneHolder, HostCalls
    <3> QED  BY <3>2, <3>3, Zenon
  <2>2. \A d \in HostCalls : far[d] # "none" => far'[d] = far[d]
    BY <1>3, <1>4, Zenon DEF HostCalls
  <2> QED  BY <1>1, <2>1, <2>2, Zenon DEF StreamHasOneHolder
<1> QED  BY <1>2, <1>3, <1>6, <1>7, InvFacts, InvFrom, Zenon

(* A call of the edge that holds a permit is counted.                          *)
LEMMA PermitIsHeld ==
    ASSUME CallsAreCounted, CarrierInv, NEW c \in EdgeCalls, opens[c].pc \in Holds
    PROVE  ends["edge"].permits > 0
<1>1. c \in Calls /\ EdgeCounts(ends["edge"], opens, far, serve, control) /\ control.accepted \in Nat
  BY InvFacts, Zenon DEF EdgeCalls, ControlType
<1>2. Cardinality(OpeningOf(opens)) \in Nat /\ Cardinality(OpeningOf(opens)) > 0
  BY <1>1, CallMoves, Zenon DEF EdgeMoves
<1>3. Cardinality(ServedOf(far)) \in Nat
  BY <1>1, FarMoves, Zenon
<1> QED  BY <1>1, <1>2, <1>3 DEF EdgeCounts

(* What a step of call c does to the ends: p permits and o opening slots more  *)
(* at the end that makes the call.                                             *)
EndShift(e, c, p, o) ==
    /\ e \in [Sides -> EndType]
    /\ c \in HostCalls => e["edge"] = ends["edge"]
    /\ c \in EdgeCalls => /\ e["edge"].permits = ends["edge"].permits + p
                          /\ e["edge"].active = ends["edge"].active + p
                          /\ e["edge"].openings = ends["edge"].openings + o

PcShift(from, to, p, o) == HoldsOne(to) = HoldsOne(from) + p /\ WaitsOne(to) = WaitsOne(from) + o

LEMMA Shifts ==
    ASSUME ends \in [Sides -> EndType], NEW c \in Calls
    PROVE  /\ EndShift(ends, c, 0, 0)
           /\ EndShift(TakesPermit(SideOf[c]), c, 1, 0)
           /\ EndShift([ends EXCEPT ![SideOf[c]].openings = @ + 1], c, 0, 1)
           /\ EndShift(FreesOpening(SideOf[c]), c, 0, -1)
<1>1. PICK s \in Sides : s = SideOf[c]
  BY SideCases, Zenon
<1>3. /\ c \in HostCalls => "edge" \in Sides \ {s}
      /\ c \in EdgeCalls => s = "edge"
      /\ c \in Calls
  BY <1>1, SideCases, Zenon DEF Sides
<1>4. ends["edge"].permits \in Int /\ ends["edge"].active \in Int /\ ends["edge"].openings \in Int
  BY EndFacts, Zenon DEF Sides
<1>5. EndShift(ends, c, 0, 0)
  BY <1>4 DEF EndShift
<1>6. EndShift(TakesPermit(s), c, 1, 0)
  <2>1. PICK e : e = TakesPermit(s)
    BY Zenon
  <2> QED  BY <1>3, <1>4, <2>1, TakeFacts DEF EndShift
<1>7. EndShift(FreesOpening(s), c, 0, -1)
  <2>1. PICK e : e = FreesOpening(s)
    BY Zenon
  <2> QED  BY <1>3, <1>4, <2>1, FreesFacts DEF EndShift
<1>8. EndShift([ends EXCEPT ![s].openings = @ + 1], c, 0, 1)
  <2>1. PICK n \in Int : n = ends[s].openings + 1
    BY EndFacts
  <2>2. PICK e : e = [ends EXCEPT ![s].openings = n]
    BY Zenon
  <2>3. /\ e \in [Sides -> EndType]
        /\ \A r \in Sides \ {s} : e[r] = ends[r]
        /\ e[s].permits = ends[s].permits /\ e[s].active = ends[s].active /\ e[s].openings = n
    BY <2>2, OpeningFacts
  <2>4. e = [ends EXCEPT ![s].openings = @ + 1]
    BY <2>1, <2>2, Zenon
  <2>5. EndShift(e, c, 0, 1)
    BY <1>3, <1>4, <2>1, <2>3 DEF EndShift
  <2> QED  BY <2>4, <2>5, Zenon
<1> QED  BY <1>1, <1>5, <1>6, <1>7, <1>8, Zenon

LEMMA Releases ==
    ASSUME ends \in [Sides -> EndType], NEW c \in Calls, c \in EdgeCalls => ends["edge"].permits > 0
    PROVE  /\ EndShift(releasePermit(ends, SideOf[c]), c, -1, 0)
           /\ EndShift(releasePermit(FreesOpening(SideOf[c]), SideOf[c]), c, -1, -1)
<1>1. PICK s \in Sides : s = SideOf[c]
  BY SideCases, Zenon
<1>2. /\ c \in HostCalls => "edge" \in Sides \ {s}
      /\ c \in EdgeCalls => s = "edge"
  BY <1>1, SideCases, Zenon DEF Sides
<1>3. ends["edge"].permits \in Int /\ ends["edge"].active \in Int /\ ends["edge"].openings \in Int
  BY EndFacts, Zenon DEF Sides
<1>4. EndShift(releasePermit(ends, s), c, -1, 0)
  <2>1. PICK e : e = releasePermit(ends, s)
    BY Zenon
  <2> QED  BY <1>2, <1>3, <2>1, ReleaseFacts DEF EndShift
<1>5. EndShift(releasePermit(FreesOpening(s), s), c, -1, -1)
  <2>1. PICK f : f = FreesOpening(s)
    BY Zenon
  <2>2. /\ f \in [Sides -> EndType]
        /\ \A r \in Sides \ {s} : f[r] = ends[r]
        /\ f[s].permits = ends[s].permits /\ f[s].active = ends[s].active
        /\ f[s].openings = ends[s].openings - 1
    BY <2>1, FreesFacts, Zenon
  <2>3. PICK e : e = releasePermit(f, s)
    BY Zenon
  <2>4. /\ e \in [Sides -> EndType]
        /\ \A r \in Sides \ {s} : e[r] = f[r]
        /\ e[s].permits = IF f[s].permits > 0 THEN f[s].permits - 1 ELSE f[s].permits
        /\ s = "edge" => e[s].active = f[s].active - 1
        /\ e[s].openings = f[s].openings
    BY <2>2, <2>3, ReleaseFacts
  <2>5. EndShift(e, c, -1, -1)
    BY <1>2, <1>3, <2>2, <2>4, Zenon DEF EndShift
  <2> QED  BY <2>1, <2>3, <2>5, Zenon
<1> QED  BY <1>1, <1>4, <1>5, Zenon

(* A step of one call, by what it does to the ends.                            *)
LEMMA ShiftStep ==
    ASSUME CallsAreCounted, CarrierInv, UNCHANGED <<loop, published, serve, control>>, NEW c \in Calls,
           NEW r \in OpenType, opens' = [opens EXCEPT ![c] = r],
           far' = far \/ (opens[c].pc \in Waits /\ r.pc \notin Waits \cup {"permit"}
                            /\ far' = [far EXCEPT ![c] = "backlog"]),
           c \in HostCalls /\ r.pc \in {"permit", "dialing", "canceled"} => far[c] = "none",
           NEW p \in Int, NEW o \in Int, EndShift(ends', c, p, o),
           PcShift(opens[c].pc, r.pc, p, o)
    PROVE  CarrierInv'
<1>1. PICK i \in Int, j \in Int, k \in Int, l \in Int :
        /\ i = HoldsOne(r.pc) /\ j = HoldsOne(opens[c].pc)
        /\ k = WaitsOne(r.pc) /\ l = WaitsOne(opens[c].pc)
  BY DEF HoldsOne, WaitsOne
<1>2. ends["edge"].permits \in Int /\ ends["edge"].active \in Int /\ ends["edge"].openings \in Int
  BY InvFacts, EndFacts, Zenon DEF Sides
<1>3. c \in EdgeCalls =>
        /\ ends'["edge"].permits = ends["edge"].permits + HoldsOne(r.pc) - HoldsOne(opens[c].pc)
        /\ ends'["edge"].active = ends["edge"].active + HoldsOne(r.pc) - HoldsOne(opens[c].pc)
        /\ ends'["edge"].openings = ends["edge"].openings + WaitsOne(r.pc) - WaitsOne(opens[c].pc)
  <2>1. i = j + p /\ k = l + o
    BY <1>1, Zenon DEF PcShift
  <2>2. c \in EdgeCalls => /\ ends'["edge"].permits = ends["edge"].permits + p
                           /\ ends'["edge"].active = ends["edge"].active + p
                           /\ ends'["edge"].openings = ends["edge"].openings + o
    BY Zenon DEF EndShift
  <2>3. PICK x \in Int, y \in Int, v \in Int :
          x = ends["edge"].permits /\ y = ends["edge"].active /\ v = ends["edge"].openings
    BY <1>2, Zenon
  <2>4. x + p = x + i - j /\ y + p = y + i - j /\ v + o = v + k - l
    BY <2>1
  <2> QED  BY <1>1, <2>2, <2>3, <2>4, Zenon
<1>4. ends' \in [Sides -> EndType] /\ (c \in HostCalls => ends'["edge"] = ends["edge"])
  BY Zenon DEF EndShift
<1> QED  BY <1>3, <1>4, CallStep, Zenon

LEMMA CallKeeps ==
    ASSUME CallsAreCounted, CarrierInv, NEW c \in Calls,
           \/ Reserve(c) \/ TakeOpening(c) \/ Opened(c) \/ CancelOpen(c) \/ finishCanceledOpen(c)
           \/ WritePreface(c) \/ EndOpened(c) \/ ContextDone(c)
    PROVE  CarrierInv'
<1>0. PICK z \in Int, u \in Int, m \in Int : z = 0 /\ u = 1 /\ m = -1
  OBVIOUS
<1>1. /\ opens \in [Calls -> OpenType] /\ opens[c] \in OpenType /\ ends \in [Sides -> EndType]
      /\ StreamHasOneHolder /\ "edge" \in Sides /\ SideOf[c] \in Sides
      /\ UNCHANGED <<loop, published, serve, control>>
  BY InvFacts, SideCases, Zenon
     DEF Sides, Reserve, TakeOpening, Opened, CancelOpen, finishCanceledOpen, WritePreface, EndOpened, ContextDone
<1>2. c \in EdgeCalls /\ opens[c].pc \in Holds => ends["edge"].permits > 0
  BY PermitIsHeld, Zenon
<1>3. c \in HostCalls /\ opens[c].pc \in {"permit", "dialing", "canceled"} => far[c] = "none"
  BY <1>1, Zenon DEF StreamHasOneHolder
<1>4. ASSUME NEW pc \in {"permit", "dialing", "canceled", "raw"}, Put(c, pc)
      PROVE  \E r \in OpenType : opens' = [opens EXCEPT ![c] = r] /\ r.pc = pc
  <2>1. PICK r : r = [opens[c] EXCEPT !.pc = pc]
    BY Zenon
  <2>2. r \in OpenType /\ r.pc = pc
    BY <1>1, <2>1, Zenon DEF OpenType
  <2>3. opens' = [opens EXCEPT ![c] = r]
    BY <1>4, <2>1, Zenon DEF Put
  <2> QED  BY <2>2, <2>3, Zenon
<1>5. ASSUME Idle(c)
      PROVE  \E r \in OpenType : opens' = [opens EXCEPT ![c] = r] /\ r.pc = "idle"
  <2>1. PICK r : r = [pc |-> "idle", live |-> TRUE, preface |-> FALSE]
    BY Zenon
  <2>2. r \in OpenType /\ r.pc = "idle"
    BY <2>1, Zenon DEF OpenType
  <2> QED  BY <1>5, <2>1, <2>2, Zenon DEF Idle
<1>6. ASSUME NEW to \in {"idle", "permit", "dialing", "canceled", "raw", "live"}, NEW p \in Int, NEW o \in Int,
             \E r \in OpenType : opens' = [opens EXCEPT ![c] = r] /\ r.pc = to,
             EndShift(ends', c, p, o),
             far' = far \/ (opens[c].pc \in Waits /\ to \notin Waits \cup {"permit"}
                              /\ far' = [far EXCEPT ![c] = "backlog"]),
             c \in HostCalls /\ to \in {"permit", "dialing", "canceled"} => far[c] = "none",
             PcShift(opens[c].pc, to, p, o)
      PROVE  CarrierInv'
  <2>1. PICK r \in OpenType : opens' = [opens EXCEPT ![c] = r] /\ r.pc = to
    BY <1>6, Zenon
  <2> QED  BY <1>1, <1>6, <2>1, ShiftStep, Zenon
<1>7. CASE Reserve(c)
  <2>1. \E r \in OpenType : opens' = [opens EXCEPT ![c] = r] /\ r.pc = "permit"
    BY <1>4, <1>7, Zenon DEF Reserve
  <2>2. opens[c].pc = "idle" /\ far' = far /\ far[c] = "none" /\ ends' = TakesPermit(SideOf[c])
    BY <1>7, Zenon DEF Reserve
  <2>3. EndShift(ends', c, u, z)
    BY <1>0, <1>1, <2>2, Shifts, Zenon
  <2>4. PcShift(opens[c].pc, "permit", u, z)
    BY <1>0, <2>2 DEF PcShift, HoldsOne, WaitsOne, Holds, Waits
  <2> QED  BY <1>6, <2>1, <2>2, <2>3, <2>4, Zenon
<1>8. CASE TakeOpening(c)
  <2>1. opens[c].pc = "permit" /\ far' = far
    BY <1>8, Zenon DEF TakeOpening
  <2>2. CASE ends' = [ends EXCEPT ![SideOf[c]].openings = @ + 1] /\ Put(c, "dialing")
    <3>1. \E r \in OpenType : opens' = [opens EXCEPT ![c] = r] /\ r.pc = "dialing"
      BY <1>4, <2>2, Zenon
    <3>2. EndShift(ends', c, z, u)
      BY <1>0, <1>1, <2>2, Shifts, Zenon
    <3>3. PcShift(opens[c].pc, "dialing", z, u)
      BY <1>0, <2>1 DEF PcShift, HoldsOne, WaitsOne, Holds, Waits
    <3> QED  BY <1>3, <1>6, <2>1, <3>1, <3>2, <3>3, Zenon
  <2>3. CASE ends' = releasePermit(ends, SideOf[c]) /\ Idle(c)
    <3>1. EndShift(ends', c, m, z)
      BY <1>0, <1>1, <1>2, <2>1, <2>3, Releases, Zenon DEF Holds
    <3>2. PcShift(opens[c].pc, "idle", m, z)
      BY <1>0, <2>1 DEF PcShift, HoldsOne, WaitsOne, Holds, Waits
    <3> QED  BY <1>5, <1>6, <2>1, <2>3, <3>1, <3>2, Zenon
  <2> QED  BY <1>8, <2>2, <2>3, Zenon DEF TakeOpening
<1>9. CASE Opened(c) \/ finishCanceledOpen(c)
  <2>1. /\ opens[c].pc \in {"dialing", "canceled"}
        /\ far' = far \/ far' = [far EXCEPT ![c] = "backlog"]
    BY <1>9, Zenon DEF Opened, finishCanceledOpen
  <2>2. CASE Put(c, "raw") /\ ends' = FreesOpening(SideOf[c])
    <3>1. \E r \in OpenType : opens' = [opens EXCEPT ![c] = r] /\ r.pc = "raw"
      BY <1>4, <2>2, Zenon
    <3>2. EndShift(ends', c, z, m)
      BY <1>0, <1>1, <2>2, Shifts, Zenon
    <3>3. PcShift(opens[c].pc, "raw", z, m)
      BY <1>0, <2>1 DEF PcShift, HoldsOne, WaitsOne, Holds, Waits
    <3>4. opens[c].pc \in Waits /\ "raw" \notin Waits \cup {"permit"}
      BY <2>1, Zenon DEF Waits
    <3> QED  BY <1>6, <2>1, <3>1, <3>2, <3>3, <3>4, Zenon
  <2>3. CASE Idle(c) /\ ends' = releasePermit(FreesOpening(SideOf[c]), SideOf[c])
    <3>1. EndShift(ends', c, m, m)
      BY <1>0, <1>1, <1>2, <2>1, <2>3, Releases, Zenon DEF Holds
    <3>2. PcShift(opens[c].pc, "idle", m, m)
      BY <1>0, <2>1 DEF PcShift, HoldsOne, WaitsOne, Holds, Waits
    <3>3. opens[c].pc \in Waits /\ "idle" \notin Waits \cup {"permit"}
      BY <2>1, Zenon DEF Waits
    <3> QED  BY <1>5, <1>6, <2>1, <2>3, <3>1, <3>2, <3>3, Zenon
  <2> QED  BY <1>9, <2>2, <2>3, Zenon DEF Opened, finishCanceledOpen
<1>10. CASE CancelOpen(c)
  <2>1. opens[c].pc = "dialing" /\ far' = far /\ ends' = ends /\ Put(c, "canceled")
    BY <1>10, Zenon DEF CancelOpen
  <2>2. \E r \in OpenType : opens' = [opens EXCEPT ![c] = r] /\ r.pc = "canceled"
    BY <1>4, <2>1, Zenon
  <2>3. EndShift(ends', c, z, z)
    BY <1>0, <1>1, <2>1, Shifts, Zenon
  <2>4. PcShift(opens[c].pc, "canceled", z, z)
    BY <1>0, <2>1 DEF PcShift, HoldsOne, WaitsOne, Holds, Waits
  <2> QED  BY <1>3, <1>6, <2>1, <2>2, <2>3, <2>4, Zenon
<1>11. CASE WritePreface(c) \/ EndOpened(c)
  <2>1. opens[c].pc \in {"raw", "live"} /\ far' = far
    BY <1>11, Zenon DEF WritePreface, EndOpened
  <2>2. CASE Idle(c) /\ ends' = releasePermit(ends, SideOf[c])
    <3>1. EndShift(ends', c, m, z)
      BY <1>0, <1>1, <1>2, <2>1, <2>2, Releases, Zenon DEF Holds
    <3>2. PcShift(opens[c].pc, "idle", m, z)
      BY <1>0, <2>1 DEF PcShift, HoldsOne, WaitsOne, Holds, Waits
    <3> QED  BY <1>5, <1>6, <2>1, <2>2, <3>1, <3>2, Zenon
  <2>3. ASSUME NEW kind, opens' = [opens EXCEPT ![c].pc = "live", ![c].preface = kind # "control"], ends' = ends
        PROVE  CarrierInv'
    <3>1. PICK b \in BOOLEAN : b = (kind # "control")
      BY Zenon
    <3>2. PICK r : r = [opens[c] EXCEPT !.pc = "live", !.preface = b]
      BY Zenon
    <3>3. r \in OpenType /\ r.pc = "live"
      BY <1>1, <3>2, Zenon DEF OpenType
    <3>4. opens' = [opens EXCEPT ![c] = r]
      BY <2>3, <3>1, <3>2, Zenon
    <3>5. EndShift(ends', c, z, z)
      BY <1>0, <1>1, <2>3, Shifts, Zenon
    <3>6. PcShift(opens[c].pc, "live", z, z)
      BY <1>0, <2>1 DEF PcShift, HoldsOne, WaitsOne, Holds, Waits
    <3> QED  BY <1>6, <2>1, <3>3, <3>4, <3>5, <3>6, Zenon
  <2> QED  BY <1>11, <2>2, <2>3, Zenon DEF WritePreface, EndOpened
<1>12. CASE ContextDone(c)
  <2>1. /\ opens[c].pc \in {"permit", "dialing"} /\ far' = far /\ ends' = ends
        /\ opens' = [opens EXCEPT ![c].live = FALSE]
    BY <1>12, Zenon DEF ContextDone
  <2>2. PICK r : r = [opens[c] EXCEPT !.live = FALSE]
    BY Zenon
  <2>3. r \in OpenType /\ r.pc = opens[c].pc
    BY <1>1, <2>2, Zenon DEF OpenType
  <2>4. opens' = [opens EXCEPT ![c] = r]
    BY <2>1, <2>2, Zenon
  <2>5. EndShift(ends', c, z, z)
    BY <1>0, <1>1, <2>1, Shifts, Zenon
  <2>6. PcShift(opens[c].pc, r.pc, z, z)
    BY <1>0, <2>3 DEF PcShift, HoldsOne, WaitsOne
  <2>7. c \in HostCalls /\ r.pc \in {"permit", "dialing", "canceled"} => far[c] = "none"
    BY <1>3, <2>3, Zenon
  <2> QED  BY <1>1, <2>1, <2>3, <2>4, <2>5, <2>6, <2>7, ShiftStep, Zenon
<1> QED  BY <1>7, <1>8, <1>9, <1>10, <1>11, <1>12, Zenon

-----------------------------------------------------------------------------
(* The host's end                                                              *)

(* A step that leaves the edge's end and the host's streams alone.             *)
LEMMA HostStep ==
    ASSUME CarrierInv, UNCHANGED <<opens, serve, control>>,
           ends' \in [Sides -> EndType], ends'["edge"] = ends["edge"],
           far' \in [Calls -> FarStates], \A d \in HostCalls : far'[d] = far[d],
           loop' \in LoopType, loop'.pc = "read" => loop'.stream \in EdgeCalls,
           published' \in Seq(EdgeCalls \cup {Nobody})
    PROVE  CarrierInv'
<1>1. ServedOf(far') = ServedOf(far)
  BY Zenon DEF ServedOf
<1>2. EdgeCounts(ends'["edge"], opens', far', serve', control')
  BY <1>1, InvFacts, Zenon DEF EdgeCounts
<1>3. StreamHasOneHolder'
  BY InvFacts, Zenon DEF StreamHasOneHolder
<1> QED  BY <1>2, <1>3, InvFacts, InvFrom, Zenon

LEMMA FarOfEdgeCall ==
    ASSUME CarrierInv, NEW c \in EdgeCalls, NEW st \in FarStates, far' = [far EXCEPT ![c] = st]
    PROVE  far' \in [Calls -> FarStates] /\ \A d \in HostCalls : far'[d] = far[d]
<1>1. far \in [Calls -> FarStates]
  BY InvFacts, Zenon
<1> QED  BY <1>1, Zenon DEF EdgeCalls, HostCalls

LEMMA HostRelease ==
    ASSUME CarrierInv, ends' = releasePermit(ends, "host") \/ ends' = TakesPermit("host") \/ ends' = ends
    PROVE  ends' \in [Sides -> EndType] /\ ends'["edge"] = ends["edge"]
<1>1. ends \in [Sides -> EndType] /\ "host" \in Sides /\ "edge" \in Sides \ {"host"}
  BY InvFacts, Zenon DEF Sides
<1> QED  BY <1>1, ReleaseFacts, TakeFacts

LEMMA LoopKeeps ==
    ASSUME CarrierInv, (\E c \in Calls : LoopAccepts(c) \/ HostEnds(c)) \/ LoopReads \/ LoopPublishes
                         \/ LoopEnds \/ HostAccepts
    PROVE  CarrierInv'
<1>1. /\ UNCHANGED <<opens, serve, control>>
      /\ loop \in LoopType /\ loop.stream \in EdgeCalls \cup {Nobody}
      /\ published \in Seq(EdgeCalls \cup {Nobody}) /\ far \in [Calls -> FarStates]
      /\ loop.pc = "read" => loop.stream \in EdgeCalls
  BY InvFacts, Zenon DEF LoopAccepts, HostEnds, LoopReads, LoopPublishes, LoopEnds, HostAccepts, LoopType, EndHost
<1>2. /\ {"none", "taken", "queued", "held"} \subseteq FarStates
      /\ [pc |-> "publish", stream |-> Nobody] \in LoopType /\ [pc |-> "accept", stream |-> Nobody] \in LoopType
  BY Zenon DEF FarStates, LoopType
<1>3. ASSUME NEW c \in Calls, LoopAccepts(c)
      PROVE  CarrierInv'
  <2>1. c \in EdgeCalls
    BY <1>3, CallsAssumption, Zenon DEF LoopAccepts, Backlog, EdgeCalls, Sides
  <2>2. ends' = TakesPermit("host") \/ ends' = ends
    BY <1>3, Zenon DEF LoopAccepts
  <2>3. \E st \in FarStates : far' = [far EXCEPT ![c] = st]
    BY <1>2, <1>3, Zenon DEF LoopAccepts
  <2>4. /\ loop' \in LoopType
        /\ loop'.pc = "read" => loop'.stream \in EdgeCalls
        /\ published' = published
    BY <1>2, <1>3, <2>1 DEF LoopAccepts, LoopType
  <2>5. ends' \in [Sides -> EndType] /\ ends'["edge"] = ends["edge"]
    BY <2>2, HostRelease, Zenon
  <2>6. far' \in [Calls -> FarStates] /\ \A d \in HostCalls : far'[d] = far[d]
    BY <2>1, <2>3, FarOfEdgeCall, Zenon
  <2> QED  BY <1>1, <2>4, <2>5, <2>6, HostStep, Zenon
<1>4. ASSUME NEW c \in Calls, HostEnds(c)
      PROVE  CarrierInv'
  <2>1. c \in EdgeCalls
    BY <1>4, Zenon DEF HostEnds, EdgeCalls
  <2>2. /\ ends' = releasePermit(ends, "host") /\ far' = [far EXCEPT ![c] = "none"]
        /\ UNCHANGED <<loop, published>>
    BY <1>4, Zenon DEF HostEnds, EndHost
  <2>3. ends' \in [Sides -> EndType] /\ ends'["edge"] = ends["edge"]
    BY <2>2, HostRelease, Zenon
  <2>4. far' \in [Calls -> FarStates] /\ \A d \in HostCalls : far'[d] = far[d]
    BY <1>2, <2>1, <2>2, FarOfEdgeCall, Zenon
  <2> QED  BY <1>1, <2>2, <2>3, <2>4, HostStep, Zenon
<1>5. CASE LoopReads
  <2>1. loop.stream \in EdgeCalls /\ published' = published
    BY <1>1, <1>5, Zenon DEF LoopReads
  <2>2. ends' = releasePermit(ends, "host") \/ ends' = ends
    BY <1>5, Zenon DEF LoopReads
  <2>3. far' = far \/ far' = [far EXCEPT ![loop.stream] = "none"]
    BY <1>5, Zenon DEF LoopReads
  <2>4. loop' \in LoopType /\ loop'.pc # "read"
    <3>1. PICK r : r = [loop EXCEPT !.pc = "publish"]
      BY Zenon
    <3>2. r \in LoopType /\ r.pc = "publish"
      BY <1>1, <3>1, Zenon DEF LoopType
    <3>3. loop' = r \/ loop' = [pc |-> "publish", stream |-> Nobody]
      BY <1>5, <3>1, Zenon DEF LoopReads
    <3> QED  BY <1>2, <3>2, <3>3
  <2>5. ends' \in [Sides -> EndType] /\ ends'["edge"] = ends["edge"]
    BY <2>2, HostRelease, Zenon
  <2>6. far' \in [Calls -> FarStates] /\ \A d \in HostCalls : far'[d] = far[d]
    BY <1>1, <1>2, <2>1, <2>3, FarOfEdgeCall, Zenon
  <2> QED  BY <1>1, <2>1, <2>4, <2>5, <2>6, HostStep, Zenon
<1>6. CASE LoopPublishes
  <2>1. loop' = [pc |-> "accept", stream |-> Nobody]
    BY <1>6, Zenon DEF LoopPublishes
  <2>2. ends' = releasePermit(ends, "host") \/ ends' = ends
    BY <1>6, Zenon DEF LoopPublishes, EndHost
  <2>3. far' = far \/ (loop.stream \in EdgeCalls /\ \E st \in {"queued", "none"} : far' = [far EXCEPT ![loop.stream] = st])
    BY <1>1, <1>6, Zenon DEF LoopPublishes, EndHost
  <2>4. published' = published \/ published' = Append(published, loop.stream)
    BY <1>6, Zenon DEF LoopPublishes
  <2>5. ends' \in [Sides -> EndType] /\ ends'["edge"] = ends["edge"]
    BY <2>2, HostRelease, Zenon
  <2>6. far' \in [Calls -> FarStates] /\ \A d \in HostCalls : far'[d] = far[d]
    BY <1>1, <1>2, <2>3, FarOfEdgeCall, Zenon
  <2>7. published' \in Seq(EdgeCalls \cup {Nobody})
    BY <1>1, <2>4
  <2> QED  BY <1>1, <1>2, <2>1, <2>5, <2>6, <2>7, HostStep, Zenon
<1>7. CASE LoopEnds
  <2>1. ends' = ends /\ far' = far /\ published' = published /\ loop' = [loop EXCEPT !.pc = "ended"]
    BY <1>7, Zenon DEF LoopEnds
  <2>2. loop' \in LoopType /\ loop'.pc # "read"
    BY <1>1, <2>1, Zenon DEF LoopType
  <2>3. ends' \in [Sides -> EndType] /\ ends'["edge"] = ends["edge"]
    BY <2>1, HostRelease, Zenon
  <2> QED  BY <1>1, <2>1, <2>2, <2>3, HostStep, Zenon
<1>8. CASE HostAccepts
  <2>1. ends' = ends /\ loop' = loop /\ published' = Tail(published) /\ published # <<>>
    BY <1>8, Zenon DEF HostAccepts
  <2>2. PICK c \in EdgeCalls \cup {Nobody} : c = Head(published)
    BY <1>1, <2>1
  <2>3. far' = far \/ (c \in EdgeCalls /\ far' = [far EXCEPT ![c] = "held"])
    BY <1>8, <2>2, Zenon DEF HostAccepts
  <2>4. published' \in Seq(EdgeCalls \cup {Nobody})
    BY <1>1, <2>1
  <2>5. ends' \in [Sides -> EndType] /\ ends'["edge"] = ends["edge"]
    BY <2>1, HostRelease, Zenon
  <2>6. far' \in [Calls -> FarStates] /\ \A d \in HostCalls : far'[d] = far[d]
    BY <1>1, <1>2, <2>3, FarOfEdgeCall, Zenon
  <2> QED  BY <1>1, <2>1, <2>4, <2>5, <2>6, HostStep, Zenon
<1> QED  BY <1>3, <1>4, <1>5, <1>6, <1>7, <1>8, Zenon

-----------------------------------------------------------------------------
(* The streams the edge accepts                                                *)

SvOne(pc) == IF pc \in {"wait", "preface"} THEN 1 ELSE 0
CtOne(pc) == IF pc = "wait" THEN 1 ELSE 0

(* The permits that the streams of the host keep at the edge.                  *)
Kept(fr, sv, ct) == Cardinality(ServedOf(fr)) + SvOne(sv.pc) + CtOne(ct.pc) + ct.accepted

(* Who has the streams that the edge took.                                     *)
HeldBy(fr, sv, ct) ==
    /\ sv.pc = "preface" => sv.stream \in HostCalls /\ fr[sv.stream] = "taken"
    /\ ct.pc = "wrapped" => ct.stream \in HostCalls
    /\ ct.pc = "wrapped" /\ ct.live => fr[ct.stream] = "held"
    /\ ct.slot \in HostCalls => fr[ct.slot] = "held"
    /\ ct.pc # "idle" => ct.slot = Nobody

(* The edge's end with d permits more.                                         *)
EndsBy(d) ==
    /\ ends' \in [Sides -> EndType]
    /\ ends'["edge"].permits = ends["edge"].permits + d
    /\ ends'["edge"].active = ends["edge"].active + d
    /\ ends'["edge"].openings = ends["edge"].openings

KeptBy(d) == Kept(far', serve', control') = Kept(far, serve, control) + d

(* The accepting side lets go of, or moves, a stream it has.                   *)
FarBy ==
    far' = far \/ \E c \in Calls, st \in FarStates : far[c] # "none" /\ far' = [far EXCEPT ![c] = st]

LEMMA KeptFacts ==
    ASSUME CallsAreCounted, CarrierInv
    PROVE  /\ Cardinality(ServedOf(far)) \in Nat
           /\ SvOne(serve.pc) \in Nat /\ CtOne(control.pc) \in Nat /\ control.accepted \in Nat
           /\ Kept(far, serve, control) \in Nat
           /\ Kept(far, serve, control) > 0 => ends["edge"].permits > 0
<1>1. EdgeCounts(ends["edge"], opens, far, serve, control) /\ control \in ControlType
  BY InvFacts, Zenon
<1>2. Cardinality(ServedOf(far)) \in Nat
  <2>1. ServedOf(far) \in SUBSET Calls
    BY Zenon DEF ServedOf, HostCalls
  <2> QED  BY <2>1, Zenon DEF CallsAreCounted
<1>3. Cardinality(OpeningOf(opens)) \in Nat
  <2>1. OpeningOf(opens) \in SUBSET Calls
    BY Zenon DEF OpeningOf, EdgeCalls
  <2> QED  BY <2>1, Zenon DEF CallsAreCounted
<1>4. SvOne(serve.pc) \in Nat /\ CtOne(control.pc) \in Nat /\ control.accepted \in Nat
  BY <1>1, Zenon DEF SvOne, CtOne, ControlType
<1>5. Kept(far, serve, control) \in Nat
  BY <1>2, <1>4 DEF Kept
<1>6. ends["edge"].permits = Cardinality(OpeningOf(opens)) + Kept(far, serve, control)
  BY <1>1, <1>2, <1>3, <1>4 DEF EdgeCounts, Kept, SvOne, CtOne
<1> QED  BY <1>2, <1>3, <1>4, <1>5, <1>6

LEMMA EdgeStep ==
    ASSUME CallsAreCounted, CarrierInv, UNCHANGED <<opens, loop, published>>, FarBy,
           serve' \in ServeType, control' \in ControlType, HeldBy(far', serve', control'),
           NEW d \in Int, EndsBy(d), KeptBy(d)
    PROVE  CarrierInv'
<1>1. /\ EdgeCounts(ends["edge"], opens, far, serve, control) /\ far \in [Calls -> FarStates]
      /\ StreamHasOneHolder /\ ends \in [Sides -> EndType]
  BY InvFacts, Zenon
<1>2. /\ ends' \in [Sides -> EndType] /\ ends["edge"].permits \in Int /\ ends["edge"].active \in Int
      /\ ends["edge"].openings \in Int
  BY <1>1, EndFacts, Zenon DEF EndsBy, Sides
<1>3. far' \in [Calls -> FarStates] /\ \A c \in Calls : far[c] = "none" => far'[c] = "none"
  BY <1>1, Zenon DEF FarBy
<1>4. PICK n \in Nat, x \in Nat, y \in Nat, z \in Nat, a \in Nat :
        /\ n = Cardinality(OpeningOf(opens)) /\ x = Cardinality(ServedOf(far))
        /\ y = SvOne(serve.pc) /\ z = CtOne(control.pc) /\ a = control.accepted
  <2>1. OpeningOf(opens) \in SUBSET Calls
    BY Zenon DEF OpeningOf, EdgeCalls
  <2>2. Cardinality(OpeningOf(opens)) \in Nat
    BY <2>1, Zenon DEF CallsAreCounted
  <2> QED  BY <2>2, KeptFacts, Zenon
<1>5. PICK v \in Nat, w \in Nat, t \in Nat, b \in Nat :
        /\ v = Cardinality(ServedOf(far'))
        /\ w = SvOne(serve'.pc) /\ t = CtOne(control'.pc) /\ b = control'.accepted
  <2>1. ServedOf(far') \in SUBSET Calls
    BY Zenon DEF ServedOf, HostCalls
  <2>2. Cardinality(ServedOf(far')) \in Nat
    BY <2>1, Zenon DEF CallsAreCounted
  <2> QED  BY <2>2, Zenon DEF SvOne, CtOne, ControlType
<1>6. v + w + t + b = x + y + z + a + d
  BY <1>4, <1>5, Zenon DEF KeptBy, Kept
<1>7. /\ ends["edge"].permits = n + x + y + z + a /\ ends["edge"].active = ends["edge"].permits
      /\ ends["edge"].openings = Cardinality(WaitingOf(opens))
  BY <1>1, <1>4, Zenon DEF EdgeCounts, SvOne, CtOne
<1>8. /\ ends'["edge"].permits = n + v + w + t + b /\ ends'["edge"].active = ends'["edge"].permits
      /\ ends'["edge"].openings = Cardinality(WaitingOf(opens))
  BY <1>2, <1>6, <1>7 DEF EndsBy
<1>9. EdgeCounts(ends'["edge"], opens', far', serve', control')
  BY <1>4, <1>5, <1>8, Zenon DEF EdgeCounts, SvOne, CtOne
<1>10. StreamHasOneHolder'
  <2>1. \A c \in HostCalls : opens'[c].pc \in {"permit", "dialing", "canceled"} => far'[c] = "none"
    BY <1>1, <1>3, Zenon DEF StreamHasOneHolder, HostCalls
  <2> QED  BY <2>1, Zenon DEF StreamHasOneHolder, HeldBy, HostCalls
<1> QED  BY <1>2, <1>3, <1>9, <1>10, InvFacts, InvFrom, Zenon

LEMMA EndsMove ==
    ASSUME CallsAreCounted, CarrierInv, NEW d \in Int,
           \/ ends' = ends /\ d = 0
           \/ ends' = TakesPermit("edge") /\ d = 1
           \/ ends' = releasePermit(ends, "edge") /\ d = -1 /\ Kept(far, serve, control) > 0
           \/ d = 0 /\ \E s \in Sides : ends' = [ends EXCEPT ![s].done = TRUE]
    PROVE  EndsBy(d)
<1>1. ends \in [Sides -> EndType] /\ "edge" \in Sides
  BY InvFacts, Zenon DEF Sides
<1>2. ends["edge"].permits \in Int /\ ends["edge"].active \in Int /\ ends["edge"].openings \in Int
  BY <1>1, EndFacts, Zenon
<1>3. CASE ends' = ends /\ d = 0
  BY <1>1, <1>2, <1>3 DEF EndsBy
<1>4. CASE ends' = TakesPermit("edge") /\ d = 1
  <2>1. PICK e : e = TakesPermit("edge")
    BY Zenon
  <2> QED  BY <1>1, <1>2, <1>4, <2>1, TakeFacts, Zenon DEF EndsBy
<1>5. CASE ends' = releasePermit(ends, "edge") /\ d = -1 /\ Kept(far, serve, control) > 0
  <2>1. ends["edge"].permits > 0
    BY <1>5, KeptFacts, Zenon
  <2>2. PICK e : e = releasePermit(ends, "edge")
    BY Zenon
  <2>3. /\ e \in [Sides -> EndType] /\ e["edge"].permits = ends["edge"].permits - 1
        /\ e["edge"].active = ends["edge"].active - 1 /\ e["edge"].openings = ends["edge"].openings
    BY <1>1, <1>2, <2>1, <2>2, ReleaseFacts, Zenon
  <2> QED  BY <1>2, <1>5, <2>2, <2>3, Zenon DEF EndsBy
<1>6. ASSUME d = 0, NEW s \in Sides, ends' = [ends EXCEPT ![s].done = TRUE]
      PROVE  EndsBy(d)
  <2>1. PICK r : r = [ends[s] EXCEPT !.done = TRUE]
    BY Zenon
  <2>2. /\ r \in EndType /\ r.permits = ends[s].permits /\ r.active = ends[s].active
        /\ r.openings = ends[s].openings
    BY <1>1, <2>1, Zenon DEF EndType
  <2>3. ends' = [ends EXCEPT ![s] = r]
    BY <1>6, <2>1, Zenon
  <2>4. ends' \in [Sides -> EndType]
    BY <1>1, <2>2, <2>3, Zenon
  <2>5. /\ ends'["edge"].permits = ends["edge"].permits /\ ends'["edge"].active = ends["edge"].active
        /\ ends'["edge"].openings = ends["edge"].openings
    <3>1. CASE s = "edge"
      BY <1>1, <2>2, <2>3, <3>1, Zenon
    <3>2. CASE s # "edge"
      BY <1>1, <2>3, <3>2, Zenon
    <3> QED  BY <3>1, <3>2, Zenon
  <2> QED  BY <1>2, <1>6, <2>4, <2>5 DEF EndsBy
<1> QED  BY <1>3, <1>4, <1>5, <1>6, Zenon

(* A stream of the host changes hands.                                         *)
LEMMA ServedMove ==
    ASSUME CallsAreCounted, CarrierInv, NEW c \in HostCalls, NEW st \in FarStates, far' = [far EXCEPT ![c] = st]
    PROVE  /\ Cardinality(ServedOf(far')) \in Nat
           /\ Cardinality(ServedOf(far')) = Cardinality(ServedOf(far)) + ServedOne(st) - ServedOne(far[c])
           /\ far'[c] = st /\ \A x \in Calls \ {c} : far'[x] = far[x]
           /\ far[c] \in {"open", "serving"} => Cardinality(ServedOf(far)) > 0
<1>1. c \in Calls /\ far \in [Calls -> FarStates]
  BY InvFacts, Zenon DEF HostCalls
<1>2. far'[c] = st /\ \A x \in Calls \ {c} : far'[x] = far[x]
  BY <1>1, Zenon
<1>3. PICK new : new = far'
  BY Zenon
<1>4. \A x \in Calls \ {c} : new[x] = far[x]
  BY <1>2, <1>3, Zenon
<1>5. PICK A \in SUBSET Calls, B \in SUBSET Calls : A = ServedOf(far) /\ B = ServedOf(new)
  BY Zenon DEF ServedOf, HostCalls
<1>6. \A x \in Calls \ {c} : x \in A <=> x \in B
  BY <1>4, <1>5, Zenon DEF ServedOf, HostCalls
<1>7. /\ Cardinality(A) \in Nat /\ Cardinality(B) \in Nat
      /\ Cardinality(B) = Cardinality(A) + Bit(c \in B) - Bit(c \in A)
      /\ c \in A => Cardinality(A) > 0
  BY <1>1, <1>6, OneMoves, Zenon
<1>8. (c \in A <=> far[c] \in {"open", "serving"}) /\ (c \in B <=> st \in {"open", "serving"})
  BY <1>2, <1>3, <1>5, Zenon DEF ServedOf
<1>9. Cardinality(B) = Cardinality(A) + ServedOne(st) - ServedOne(far[c])
  BY <1>7, <1>8, Zenon DEF Bit, ServedOne
<1> QED  BY <1>2, <1>3, <1>5, <1>7, <1>8, <1>9, Zenon

LEMMA HolderFacts ==
    ASSUME CarrierInv
    PROVE  /\ HeldBy(far, serve, control) /\ far \in [Calls -> FarStates]
           /\ serve \in ServeType /\ control \in ControlType
           /\ Nobody \notin HostCalls /\ Aborted \notin HostCalls
           /\ \A c \in Calls : c \in Backlog("edge") => c \in HostCalls /\ far[c] = "backlog"
<1>1. HeldBy(far, serve, control)
  BY InvFacts, Zenon DEF StreamHasOneHolder, HeldBy
<1> QED  BY <1>1, InvFacts, CallsAssumption, Zenon DEF HostCalls, Backlog, Sides

LEMMA ServeKeeps ==
    ASSUME CallsAreCounted, CarrierInv, \/ ServeAccepts \/ ServeCanceled \/ AcceptAccessStream \/ ServeReturns
                       \/ \E c \in Calls : ServeTakes(c) \/ serveStream(c)
    PROVE  CarrierInv'
<1>0. PICK z \in Int, u \in Int, m \in Int : z = 0 /\ u = 1 /\ m = -1
  OBVIOUS
<1>1. /\ HeldBy(far, serve, control) /\ far \in [Calls -> FarStates]
      /\ serve \in ServeType /\ control \in ControlType
      /\ UNCHANGED <<opens, loop, published>> /\ control' = control
  BY HolderFacts, Zenon DEF ServeAccepts, ServeCanceled, AcceptAccessStream, ServeReturns, ServeTakes, serveStream
<1>2. PICK n \in Nat, y \in Nat, t \in Nat, a \in Nat :
        /\ n = Cardinality(ServedOf(far)) /\ y = SvOne(serve.pc) /\ t = CtOne(control.pc)
        /\ a = control.accepted
  BY KeptFacts, Zenon
<1>3. Kept(far, serve, control) = n + y + t + a
  BY <1>2, Zenon DEF Kept
<1>4. CASE ServeAccepts
  <2>1. far' = far /\ serve.pc = "loop"
    BY <1>4, Zenon DEF ServeAccepts
  <2>2. PICK pc \in {"wait", "returned"} : /\ serve' = [serve EXCEPT !.pc = pc]
                                           /\ pc = "wait" => ends' = TakesPermit("edge")
                                           /\ pc = "returned" => ends' = ends
    BY <1>4, Zenon DEF ServeAccepts
  <2>3. serve' \in ServeType /\ serve'.pc = pc
    BY <1>1, <2>2, Zenon DEF ServeType
  <2>4. HeldBy(far', serve', control') /\ FarBy
    BY <1>1, <2>1, <2>3, Zenon DEF HeldBy, FarBy
  <2>5. CASE pc = "wait"
    <3>1. EndsBy(u)
      BY <1>0, <2>2, <2>5, EndsMove, Zenon
    <3>2. KeptBy(u)
      BY <1>0, <1>1, <1>2, <2>1, <2>3, <2>5 DEF KeptBy, Kept, SvOne
    <3> QED  BY <1>1, <2>3, <2>4, <3>1, <3>2, EdgeStep, Zenon
  <2>6. CASE pc = "returned"
    <3>1. EndsBy(z)
      BY <1>0, <2>2, <2>6, EndsMove, Zenon
    <3>2. KeptBy(z)
      BY <1>0, <1>1, <1>2, <2>1, <2>3, <2>6 DEF KeptBy, Kept, SvOne
    <3> QED  BY <1>1, <2>3, <2>4, <3>1, <3>2, EdgeStep, Zenon
  <2> QED  BY <2>5, <2>6, Zenon
<1>5. CASE ServeCanceled
  <2>1. /\ far' = far /\ serve.pc = "wait" /\ ends' = releasePermit(ends, "edge")
        /\ serve' = [pc |-> "returned", stream |-> Nobody]
    BY <1>5, Zenon DEF ServeCanceled
  <2>2. serve' \in ServeType /\ serve'.pc = "returned"
    BY <2>1, Zenon DEF ServeType
  <2>3. HeldBy(far', serve', control') /\ FarBy
    BY <1>1, <2>1, <2>2, Zenon DEF HeldBy, FarBy
  <2>4. y = 1
    BY <1>2, <2>1, Zenon DEF SvOne
  <2>5. EndsBy(m)
    <3>1. Kept(far, serve, control) > 0
      BY <1>3, <2>4
    <3> QED  BY <1>0, <2>1, <3>1, EndsMove, Zenon
  <2>6. KeptBy(m)
    BY <1>0, <1>1, <1>2, <2>1, <2>2, <2>4 DEF KeptBy, Kept, SvOne
  <2> QED  BY <1>1, <2>2, <2>3, <2>5, <2>6, EdgeStep, Zenon
<1>6. CASE ServeReturns
  <2>1. far' = far /\ serve' = serve /\ ends' = [ends EXCEPT !["edge"].done = TRUE]
    BY <1>6, Zenon DEF ServeReturns
  <2>2. HeldBy(far', serve', control') /\ FarBy /\ KeptBy(z)
    BY <1>0, <1>1, <1>2, <2>1 DEF HeldBy, FarBy, KeptBy, Kept
  <2>3. EndsBy(z)
    BY <1>0, <2>1, EndsMove, Zenon DEF Sides
  <2> QED  BY <1>1, <2>1, <2>2, <2>3, EdgeStep, Zenon
<1>7. ASSUME NEW c \in Calls, ServeTakes(c)
      PROVE  CarrierInv'
  <2>1. /\ serve.pc = "wait" /\ ends' = ends /\ far' = [far EXCEPT ![c] = "taken"]
        /\ serve' = [pc |-> "preface", stream |-> c] /\ c \in HostCalls /\ far[c] = "backlog"
    BY <1>7, HolderFacts, Zenon DEF ServeTakes
  <2>2. serve' \in ServeType /\ serve'.pc = "preface" /\ serve'.stream = c
    BY <2>1, Zenon DEF ServeType
  <2>3. PICK st \in FarStates : st = "taken"
    BY Zenon DEF FarStates
  <2>4. /\ Cardinality(ServedOf(far')) = n + ServedOne(st) - ServedOne(far[c])
        /\ far'[c] = st /\ \A x \in Calls \ {c} : far'[x] = far[x]
    BY <1>2, <2>1, <2>3, ServedMove, Zenon
  <2>5. Cardinality(ServedOf(far')) = n
    BY <2>1, <2>3, <2>4 DEF ServedOne
  <2>6. HeldBy(far', serve', control')
    BY <1>1, <2>1, <2>2, <2>3, <2>4, Zenon DEF HeldBy, HostCalls
  <2>7. FarBy
    BY <2>1, <2>3, Zenon DEF FarBy
  <2>8. EndsBy(z)
    BY <1>0, <2>1, EndsMove, Zenon
  <2>9. KeptBy(z)
    BY <1>0, <1>1, <1>2, <2>1, <2>2, <2>5 DEF KeptBy, Kept, SvOne
  <2> QED  BY <1>1, <2>2, <2>6, <2>7, <2>8, <2>9, EdgeStep, Zenon
<1>8. ASSUME NEW c \in Calls, serveStream(c)
      PROVE  CarrierInv'
  <2>1. /\ serve' = serve /\ c \in HostCalls /\ far[c] \in {"open", "serving"}
    BY <1>8, Zenon DEF serveStream, Served, HostCalls
  <2>2. PICK st \in FarStates : /\ far' = [far EXCEPT ![c] = st] /\ st \in {"serving", "none"}
                                /\ st = "serving" => ends' = ends
                                /\ st = "none" => ends' = releasePermit(ends, "edge")
    BY <1>8, Zenon DEF serveStream, FarStates
  <2>3. /\ Cardinality(ServedOf(far')) = n + ServedOne(st) - ServedOne(far[c]) /\ n > 0
        /\ far'[c] = st /\ \A x \in Calls \ {c} : far'[x] = far[x]
    BY <1>2, <2>1, <2>2, ServedMove, Zenon
  <2>4. HeldBy(far', serve', control')
    BY <1>1, <2>1, <2>3, Zenon DEF HeldBy, HostCalls
  <2>5. FarBy
    BY <2>1, <2>2, Zenon DEF FarBy
  <2>6. CASE st = "serving"
    <3>1. EndsBy(z)
      BY <1>0, <2>2, <2>6, EndsMove, Zenon
    <3>2. Cardinality(ServedOf(far')) = n
      BY <2>1, <2>3, <2>6 DEF ServedOne
    <3>3. KeptBy(z)
      BY <1>0, <1>1, <1>2, <2>1, <3>2 DEF KeptBy, Kept
    <3> QED  BY <1>1, <2>1, <2>4, <2>5, <3>1, <3>3, EdgeStep, Zenon
  <2>7. CASE st = "none"
    <3>1. EndsBy(m)
      <4>1. Kept(far, serve, control) > 0
        BY <1>3, <2>3
      <4> QED  BY <1>0, <2>2, <2>7, <4>1, EndsMove, Zenon
    <3>2. Cardinality(ServedOf(far')) = n - 1
      BY <2>1, <2>3, <2>7 DEF ServedOne
    <3>3. KeptBy(m)
      BY <1>0, <1>1, <1>2, <2>1, <3>2 DEF KeptBy, Kept
    <3> QED  BY <1>1, <2>1, <2>4, <2>5, <3>1, <3>3, EdgeStep, Zenon
  <2> QED  BY <2>2, <2>6, <2>7, Zenon
<1>9. CASE AcceptAccessStream
  <2>1. serve.pc = "preface"
    BY <1>9, Zenon DEF AcceptAccessStream
  <2>2. PICK c \in HostCalls : c = serve.stream /\ far[c] = "taken"
    BY <1>1, <2>1, Zenon DEF HeldBy
  <2>3. PICK st \in FarStates : /\ far' = [far EXCEPT ![c] = st] /\ st \in {"open", "none"}
                                /\ st = "open" => ends' = ends /\ serve' = [pc |-> "loop", stream |-> Nobody]
                                /\ st = "none" => /\ ends' = releasePermit(ends, "edge")
                                                  /\ serve' = [pc |-> "returned", stream |-> Nobody]
    BY <1>9, <2>2, Zenon DEF AcceptAccessStream, FarStates
  <2>4. serve' \in ServeType /\ serve'.pc \in {"loop", "returned"}
    BY <2>3 DEF ServeType
  <2>5. /\ Cardinality(ServedOf(far')) = n + ServedOne(st) - ServedOne(far[c])
        /\ far'[c] = st /\ \A x \in Calls \ {c} : far'[x] = far[x]
    BY <1>2, <2>3, ServedMove, Zenon
  <2>6. HeldBy(far', serve', control')
    BY <1>1, <2>2, <2>4, <2>5, Zenon DEF HeldBy, HostCalls
  <2>7. FarBy
    BY <2>2, <2>3, Zenon DEF FarBy, HostCalls
  <2>8. y = 1 /\ SvOne(serve'.pc) = 0
    BY <1>2, <2>1, <2>4, Zenon DEF SvOne
  <2>9. CASE st = "open"
    <3>1. EndsBy(z)
      BY <1>0, <2>3, <2>9, EndsMove, Zenon
    <3>2. Cardinality(ServedOf(far')) = n + 1
      BY <2>2, <2>5, <2>9, SMTT(30) DEF ServedOne
    <3>3. KeptBy(z)
      BY <1>0, <1>1, <1>2, <2>8, <3>2 DEF KeptBy, Kept
    <3> QED  BY <1>1, <2>4, <2>6, <2>7, <3>1, <3>3, EdgeStep, Zenon
  <2>10. CASE st = "none"
    <3>1. EndsBy(m)
      <4>1. Kept(far, serve, control) > 0
        BY <1>3, <2>8, SMTT(30)
      <4> QED  BY <1>0, <2>3, <2>10, <4>1, EndsMove, Zenon
    <3>2. Cardinality(ServedOf(far')) = n
      BY <2>2, <2>5, <2>10, SMTT(30) DEF ServedOne
    <3>3. KeptBy(m)
      BY <1>0, <1>1, <1>2, <2>8, <3>2 DEF KeptBy, Kept
    <3> QED  BY <1>1, <2>4, <2>6, <2>7, <3>1, <3>3, EdgeStep, Zenon
  <2> QED  BY <2>3, <2>9, <2>10, Zenon
<1> QED  BY <1>4, <1>5, <1>6, <1>7, <1>8, <1>9, Zenon

LEMMA ControlKeeps ==
    ASSUME CallsAreCounted, CarrierInv, \/ ControlReserves \/ ControlContextDone \/ ControlInstalls \/ ControlEnds
                       \/ \E c \in Calls : ControlTakes(c)
    PROVE  CarrierInv'
<1>0. PICK z \in Int, u \in Int, m \in Int : z = 0 /\ u = 1 /\ m = -1
  OBVIOUS
<1>1. /\ HeldBy(far, serve, control) /\ far \in [Calls -> FarStates]
      /\ serve \in ServeType /\ control \in ControlType
      /\ UNCHANGED <<opens, loop, published>> /\ serve' = serve
  BY HolderFacts, Zenon DEF ControlReserves, ControlContextDone, ControlInstalls, ControlEnds, ControlTakes
<1>2. PICK n \in Nat, y \in Nat, t \in Nat, a \in Nat :
        /\ n = Cardinality(ServedOf(far)) /\ y = SvOne(serve.pc) /\ t = CtOne(control.pc)
        /\ a = control.accepted
  BY KeptFacts, Zenon
<1>3. Kept(far, serve, control) = n + y + t + a
  BY <1>2, Zenon DEF Kept
<1>4. Nobody \notin HostCalls /\ Aborted \notin HostCalls
  BY HolderFacts, Zenon
<1>5. ASSUME NEW c \in HostCalls, far[c] = "held" \/ far[c] = "backlog", NEW st \in {"held", "none"},
             far' = [far EXCEPT ![c] = st]
      PROVE  /\ Cardinality(ServedOf(far')) = n /\ FarBy
             /\ far'[c] = st /\ \A x \in Calls \ {c} : far'[x] = far[x]
  <2>1. st \in FarStates
    BY Zenon DEF FarStates
  <2>2. /\ Cardinality(ServedOf(far')) = n + ServedOne(st) - ServedOne(far[c])
        /\ far'[c] = st /\ \A x \in Calls \ {c} : far'[x] = far[x]
    BY <1>2, <1>5, <2>1, ServedMove, Zenon
  <2>3. Cardinality(ServedOf(far')) = n
    BY <1>5, <2>2 DEF ServedOne
  <2>4. FarBy
    BY <1>5, <2>1, Zenon DEF FarBy, HostCalls
  <2> QED  BY <2>2, <2>3, <2>4, Zenon
<1>6. CASE ControlReserves
  <2>1. /\ control.slot = Nobody /\ control.pc = "idle" /\ far' = far /\ ends' = TakesPermit("edge")
        /\ control' = [control EXCEPT !.pc = "wait", !.live = TRUE]
    BY <1>6, Zenon DEF ControlReserves
  <2>2. control' \in ControlType /\ control'.pc = "wait" /\ control'.slot = Nobody /\ control'.accepted = a
    BY <1>1, <1>2, <2>1, Zenon DEF ControlType
  <2>3. HeldBy(far', serve', control') /\ FarBy
    BY <1>1, <1>4, <2>1, <2>2, Zenon DEF HeldBy, FarBy
  <2>4. EndsBy(u)
    BY <1>0, <2>1, EndsMove, Zenon
  <2>5. KeptBy(u)
    BY <1>0, <1>1, <1>2, <2>1, <2>2 DEF KeptBy, Kept, CtOne
  <2> QED  BY <1>1, <2>2, <2>3, <2>4, <2>5, EdgeStep, Zenon
<1>7. ASSUME NEW c \in Calls, ControlTakes(c)
      PROVE  CarrierInv'
  <2>1. /\ control.pc = "wait" /\ ends' = ends /\ far' = [far EXCEPT ![c] = "held"]
        /\ c \in HostCalls /\ far[c] = "backlog"
        /\ control' = [control EXCEPT !.pc = "wrapped", !.stream = c, !.accepted = @ + 1]
    BY <1>7, HolderFacts, Zenon DEF ControlTakes
  <2>2. PICK b \in Nat : b = a + 1
    OBVIOUS
  <2>3. control' = [control EXCEPT !.pc = "wrapped", !.stream = c, !.accepted = b]
    BY <1>2, <2>1, <2>2, Zenon
  <2>4. /\ control' \in ControlType /\ control'.pc = "wrapped" /\ control'.stream = c
        /\ control'.slot = control.slot /\ control'.accepted = b
    BY <1>1, <2>1, <2>3, Zenon DEF ControlType
  <2>5. /\ Cardinality(ServedOf(far')) = n /\ FarBy
        /\ far'[c] = "held" /\ \A x \in Calls \ {c} : far'[x] = far[x]
    BY <1>5, <2>1, Zenon
  <2>6. HeldBy(far', serve', control')
    BY <1>1, <1>4, <2>1, <2>4, <2>5, Zenon DEF HeldBy, HostCalls
  <2>7. EndsBy(z)
    BY <1>0, <2>1, EndsMove, Zenon
  <2>8. KeptBy(z)
    BY <1>0, <1>1, <1>2, <2>1, <2>2, <2>4, <2>5 DEF KeptBy, Kept, CtOne
  <2> QED  BY <1>1, <2>4, <2>5, <2>6, <2>7, <2>8, EdgeStep, Zenon
<1>8. CASE ControlContextDone
  <2>1. control.live
    BY <1>8, Zenon DEF ControlContextDone
  <2>2. CASE /\ control.pc = "wait" /\ control' = [control EXCEPT !.pc = "idle"]
             /\ ends' = releasePermit(ends, "edge") /\ far' = far
    <3>1. /\ control' \in ControlType /\ control'.pc = "idle" /\ control'.slot = control.slot
          /\ control'.accepted = a
      BY <1>1, <1>2, <2>2, Zenon DEF ControlType
    <3>2. HeldBy(far', serve', control') /\ FarBy
      BY <1>1, <2>2, <3>1, Zenon DEF HeldBy, FarBy
    <3>3. t = 1
      BY <1>2, <2>2, Zenon DEF CtOne
    <3>4. EndsBy(m)
      <4>1. Kept(far, serve, control) > 0
        BY <1>3, <3>3
      <4> QED  BY <1>0, <2>2, <4>1, EndsMove, Zenon
    <3>5. KeptBy(m)
      BY <1>0, <1>1, <1>2, <2>2, <3>1, <3>3 DEF KeptBy, Kept, CtOne
    <3> QED  BY <1>1, <3>1, <3>2, <3>4, <3>5, EdgeStep, Zenon
  <2>3. CASE /\ control.pc = "wrapped" /\ control' = [control EXCEPT !.live = FALSE, !.slot = Nobody]
             /\ far' = [far EXCEPT ![control.stream] = "none"] /\ ends' = ends
    <3>1. PICK c \in HostCalls : c = control.stream /\ far[c] = "held"
      BY <1>1, <2>1, <2>3, Zenon DEF HeldBy
    <3>2. /\ control' \in ControlType /\ control'.pc = "wrapped" /\ control'.slot = Nobody
          /\ control'.stream = c /\ ~control'.live /\ control'.accepted = a
      BY <1>1, <1>2, <2>3, <3>1, Zenon DEF ControlType
    <3>3. /\ Cardinality(ServedOf(far')) = n /\ FarBy
          /\ far'[c] = "none" /\ \A x \in Calls \ {c} : far'[x] = far[x]
      BY <1>5, <2>3, <3>1, Zenon
    <3>4. HeldBy(far', serve', control')
      BY <1>1, <1>4, <3>1, <3>2, <3>3, Zenon DEF HeldBy, HostCalls
    <3>5. EndsBy(z)
      BY <1>0, <2>3, EndsMove, Zenon
    <3>6. KeptBy(z)
      BY <1>0, <1>1, <1>2, <2>3, <3>2, <3>3 DEF KeptBy, Kept, CtOne
    <3> QED  BY <1>1, <3>2, <3>3, <3>4, <3>5, <3>6, EdgeStep, Zenon
  <2> QED  BY <1>8, <2>2, <2>3, Zenon DEF ControlContextDone
<1>9. CASE ControlInstalls
  <2>1. control.pc = "wrapped" /\ ends' = ends
    BY <1>9, Zenon DEF ControlInstalls
  <2>2. PICK c \in HostCalls : c = control.stream
    BY <1>1, <2>1, Zenon DEF HeldBy
  <2>3. PICK slot : /\ control' = [control EXCEPT !.pc = "idle", !.stream = Nobody, !.slot = slot]
                    /\ slot \in {Nobody, Aborted, c}
                    /\ slot = c => control.live /\ far' = far
                    /\ far' = far \/ (control.live /\ slot = Nobody /\ far' = [far EXCEPT ![c] = "none"])
    <3>1. CASE ends["edge"].done \/ control.slot # Nobody
      BY <1>9, <2>2, <3>1, <1>4, Zenon DEF ControlInstalls
    <3>2. CASE ~(ends["edge"].done \/ control.slot # Nobody) /\ control.live
      BY <1>9, <2>2, <3>2, Zenon DEF ControlInstalls
    <3>3. CASE ~(ends["edge"].done \/ control.slot # Nobody) /\ ~control.live
      <4>1. c # Aborted
        BY <1>4, Zenon
      <4> QED  BY <1>9, <2>2, <3>3, <4>1, Zenon DEF ControlInstalls
    <3> QED  BY <3>1, <3>2, <3>3, Zenon
  <2>4. /\ control' \in ControlType /\ control'.pc = "idle" /\ control'.slot = slot
        /\ control'.accepted = a
    BY <1>1, <1>2, <2>2, <2>3, Zenon DEF ControlType
  <2>5. control.live => far[c] = "held"
    BY <1>1, <2>1, <2>2, Zenon DEF HeldBy
  <2>6. /\ Cardinality(ServedOf(far')) = n /\ FarBy
        /\ \A x \in Calls \ {c} : far'[x] = far[x]
    <3>1. CASE far' = far
      BY <1>2, <3>1, Zenon DEF FarBy
    <3>2. CASE far' = [far EXCEPT ![c] = "none"] /\ control.live
      BY <1>5, <2>5, <3>2, Zenon
    <3> QED  BY <2>3, <3>1, <3>2, Zenon
  <2>7. HeldBy(far', serve', control')
    <3>1. serve.pc = "preface" => serve.stream \in HostCalls /\ far'[serve.stream] = "taken"
      <4>1. CASE far' = far
        BY <1>1, <4>1, Zenon DEF HeldBy
      <4>2. CASE control.live
        BY <1>1, <2>5, <2>6, <4>2, Zenon DEF HeldBy, HostCalls
      <4> QED  BY <2>3, <4>1, <4>2, Zenon
    <3>2. slot \in HostCalls => far'[slot] = "held"
      BY <1>4, <2>3, <2>5, Zenon
    <3> QED  BY <1>1, <2>4, <3>1, <3>2, Zenon DEF HeldBy
  <2>8. EndsBy(z)
    BY <1>0, <2>1, EndsMove, Zenon
  <2>9. KeptBy(z)
    BY <1>0, <1>1, <1>2, <2>1, <2>4, <2>6 DEF KeptBy, Kept, CtOne
  <2> QED  BY <1>1, <2>4, <2>6, <2>7, <2>8, <2>9, EdgeStep, Zenon
<1>10. CASE ControlEnds
  <2>1. /\ control.slot \in Calls /\ ends' = ends /\ control' = [control EXCEPT !.slot = Nobody]
        /\ far' = [far EXCEPT ![control.slot] = "none"]
    BY <1>10, Zenon DEF ControlEnds
  <2>2. PICK c \in HostCalls : c = control.slot
    BY <1>1, <2>1, CallsAssumption, Zenon DEF ControlType
  <2>3. far[c] = "held" /\ control.pc = "idle"
    BY <1>1, <1>4, <2>2, Zenon DEF HeldBy, ControlType
  <2>4. /\ control' \in ControlType /\ control'.pc = "idle" /\ control'.slot = Nobody /\ control'.accepted = a
    BY <1>1, <1>2, <2>1, <2>3, Zenon DEF ControlType
  <2>5. /\ Cardinality(ServedOf(far')) = n /\ FarBy
        /\ far'[c] = "none" /\ \A x \in Calls \ {c} : far'[x] = far[x]
    BY <1>5, <2>1, <2>2, <2>3, Zenon
  <2>6. HeldBy(far', serve', control')
    BY <1>1, <1>4, <2>3, <2>4, <2>5, Zenon DEF HeldBy, HostCalls
  <2>7. EndsBy(z)
    BY <1>0, <2>1, EndsMove, Zenon
  <2>8. KeptBy(z)
    BY <1>0, <1>1, <1>2, <2>3, <2>4, <2>5 DEF KeptBy, Kept, CtOne
  <2> QED  BY <1>1, <2>4, <2>5, <2>6, <2>7, <2>8, EdgeStep, Zenon
<1> QED  BY <1>6, <1>7, <1>8, <1>9, <1>10, Zenon

(* The carrier closes, and a stream in the backlog goes with it.               *)
LEMMA CloseKeeps ==
    ASSUME CallsAreCounted, CarrierInv, (\E side \in Sides : Shutdown(side)) \/ (\E c \in Calls : BacklogEnds(c))
    PROVE  CarrierInv'
<1>0. PICK z \in Int : z = 0
  OBVIOUS
<1>1. /\ HeldBy(far, serve, control) /\ far \in [Calls -> FarStates]
      /\ serve \in ServeType /\ control \in ControlType
      /\ UNCHANGED <<opens, loop, published, serve, control>>
  BY HolderFacts, Zenon DEF Shutdown, BacklogEnds
<1>2. Kept(far, serve, control) \in Nat
  BY KeptFacts, Zenon
<1>3. ASSUME NEW side \in Sides, Shutdown(side)
      PROVE  CarrierInv'
  <2>1. far' = far /\ ends' = [ends EXCEPT ![side].done = TRUE]
    BY <1>3, Zenon DEF Shutdown
  <2>2. HeldBy(far', serve', control') /\ FarBy
    BY <1>1, <2>1, Zenon DEF HeldBy, FarBy
  <2>3. KeptBy(z)
    BY <1>0, <1>1, <1>2, <2>1 DEF KeptBy
  <2>4. EndsBy(z)
    BY <1>0, <2>1, EndsMove, Zenon
  <2> QED  BY <1>1, <2>2, <2>3, <2>4, EdgeStep, Zenon
<1>4. ASSUME NEW c \in Calls, BacklogEnds(c)
      PROVE  CarrierInv'
  <2>1. ends' = ends /\ far[c] = "backlog" /\ far' = [far EXCEPT ![c] = "none"]
    BY <1>4, Zenon DEF BacklogEnds
  <2>2. far'[c] = "none" /\ \A x \in Calls \ {c} : far'[x] = far[x]
    BY <1>1, <2>1, Zenon
  <2>3. ServedOf(far') = ServedOf(far)
    BY <2>1, <2>2, Zenon DEF ServedOf, HostCalls
  <2>4. FarBy
    BY <2>1, Zenon DEF FarBy, FarStates
  <2>5. HeldBy(far', serve', control')
    BY <1>1, <2>1, <2>2, Zenon DEF HeldBy, HostCalls
  <2>6. KeptBy(z)
    BY <1>0, <1>1, <1>2, <2>3 DEF KeptBy, Kept
  <2>7. EndsBy(z)
    BY <1>0, <2>1, EndsMove, Zenon
  <2> QED  BY <1>1, <2>4, <2>5, <2>6, <2>7, EdgeStep, Zenon
<1> QED  BY <1>3, <1>4, Zenon

-----------------------------------------------------------------------------
(* The theorem                                                                 *)

INSTANCE FiniteSetTheorems

LEMMA TheCallsAreCounted == CallsAreCounted
<1>1. ASSUME NEW A \in SUBSET Calls
      PROVE  IsFiniteSet(A) /\ Cardinality(A) \in Nat
  BY CallsAssumption, FS_Subset, FS_CardinalityType, Zenon
<1>2. ASSUME NEW A \in SUBSET Calls, NEW c \in Calls, c \notin A
      PROVE  Cardinality(A \cup {c}) = Cardinality(A) + 1
  BY <1>1, <1>2, FS_AddElement, Zenon
<1> QED  BY <1>1, <1>2, FS_EmptySet, Zenon DEF CallsAreCounted

LEMMA CarrierStarts == CarrierInit => CarrierInv
<1> SUFFICES ASSUME CarrierInit
             PROVE  CarrierInv
  BY Zenon
<1> USE DEF CarrierInit
<1>1. NewEnd \in EndType /\ NewEnd.permits = 0 /\ NewEnd.active = 0 /\ NewEnd.openings = 0
  BY DEF NewEnd, EndType
<1>2. ends \in [Sides -> EndType] /\ ends["edge"] = NewEnd
  BY <1>1, Zenon DEF Sides
<1>3. opens \in [Calls -> OpenType] /\ \A c \in Calls : opens[c].pc = "idle"
  BY Zenon DEF OpenType
<1>4. far \in [Calls -> FarStates] /\ \A c \in Calls : far[c] = "none"
  BY Zenon DEF FarStates
<1>5. loop \in LoopType /\ loop.pc = "accept" /\ published \in Seq(EdgeCalls \cup {Nobody})
  BY DEF LoopType
<1>6. /\ serve \in ServeType /\ serve.pc = "loop"
      /\ control \in ControlType /\ control.pc = "idle" /\ control.slot = Nobody /\ control.accepted = 0
  BY Zenon DEF ServeType, ControlType
<1>7. OpeningOf(opens) = {} /\ WaitingOf(opens) = {} /\ ServedOf(far) = {}
  BY <1>3, <1>4, Zenon DEF OpeningOf, WaitingOf, ServedOf, EdgeCalls, HostCalls, Holds, Waits
<1>8. EdgeCounts(ends["edge"], opens, far, serve, control)
  <2>1. Cardinality(OpeningOf(opens)) = 0 /\ Cardinality(WaitingOf(opens)) = 0 /\ Cardinality(ServedOf(far)) = 0
    BY <1>7, FS_EmptySet, Zenon
  <2> HIDE DEF CarrierInit
  <2> QED  BY <1>1, <1>2, <1>6, <2>1 DEF EdgeCounts
<1>9. EdgePermitsAreHeld
  BY <1>8, EdgeCountsIsInv, Zenon
<1>10. Nobody \notin HostCalls
  BY CallsAssumption, Zenon DEF HostCalls
<1>11. StreamHasOneHolder
  BY <1>3, <1>4, <1>6, <1>10, Zenon DEF StreamHasOneHolder, HostCalls
<1> QED  BY <1>2, <1>3, <1>4, <1>5, <1>6, <1>9, <1>11, Zenon
         DEF CarrierInv, StreamTypes, EndType, OpenType, FarStates, LoopType, ServeType, ControlType

(* The inductive invariant of a data carrier: every stream of the host that    *)
(* the edge took has one holder, and the edge's permits are accounted for.     *)
THEOREM CarrierInvariant == CarrierSpec => []CarrierInv
<1>1. CarrierInit => CarrierInv
  BY CarrierStarts, Zenon
<1>2. CarrierInv /\ [CarrierNext]_carrierVars => CarrierInv'
  <2>1. SUFFICES ASSUME CarrierInv, [CarrierNext]_carrierVars
                 PROVE  CarrierInv'
    BY Zenon
  <2>2. CASE UNCHANGED carrierVars
    <3>1. /\ UNCHANGED <<opens, loop, published, serve, control, far, ends>>
      BY <2>2, Zenon DEF carrierVars
    <3>2. ends' \in [Sides -> EndType] /\ ends'["edge"] = ends["edge"] /\ far' \in [Calls -> FarStates]
      BY <2>1, <3>1, InvFacts, Zenon
    <3>3. loop' \in LoopType /\ published' \in Seq(EdgeCalls \cup {Nobody})
      BY <2>1, <3>1, InvFacts, Zenon
    <3>4. loop'.pc = "read" => loop'.stream \in EdgeCalls
      BY <2>1, <3>1, InvFacts, Zenon
    <3> QED  BY <2>1, <3>1, <3>2, <3>3, <3>4, HostStep, Zenon
  <2>3. ASSUME NEW c \in Calls, \/ Reserve(c) \/ OpenStep(c) \/ WritePreface(c) \/ EndOpened(c)
                                \/ ContextDone(c)
        PROVE  CarrierInv'
    BY <2>1, <2>3, CallKeeps, TheCallsAreCounted, Zenon DEF OpenStep
  <2>4. ASSUME (\E c \in Calls : LoopAccepts(c) \/ HostEnds(c)) \/ LoopReads \/ LoopPublishes
                  \/ LoopEnds \/ HostAccepts
        PROVE  CarrierInv'
    BY <2>1, <2>4, LoopKeeps, Zenon
  <2>5. ASSUME \/ ServeAccepts \/ ServeCanceled \/ AcceptAccessStream \/ ServeReturns
               \/ \E c \in Calls : ServeTakes(c) \/ serveStream(c)
        PROVE  CarrierInv'
    BY <2>1, <2>5, ServeKeeps, TheCallsAreCounted, Zenon
  <2>6. ASSUME \/ ControlReserves \/ ControlContextDone \/ ControlInstalls \/ ControlEnds
               \/ \E c \in Calls : ControlTakes(c)
        PROVE  CarrierInv'
    BY <2>1, <2>6, ControlKeeps, TheCallsAreCounted, Zenon
  <2>7. ASSUME (\E side \in Sides : Shutdown(side)) \/ (\E c \in Calls : BacklogEnds(c))
        PROVE  CarrierInv'
    BY <2>1, <2>7, CloseKeeps, TheCallsAreCounted, Zenon
  <2> QED  BY <2>1, <2>2, <2>3, <2>4, <2>5, <2>6, <2>7, Zenon DEF CarrierNext
<1> QED  BY <1>1, <1>2, PTL DEF CarrierSpec

(* openRaw, acceptRaw, finishCanceledOpen and releasePermit: for any number of *)
(* calls and any limits, the edge's permits and its count of active streams    *)
(* are what the opening calls, the accepting calls, the served streams and the *)
(* accepted control streams hold, and its opening slots are the calls that     *)
(* wait for the session.                                                       *)
THEOREM PermitsAreHeld == CarrierSpec => []EdgePermitsAreHeld
<1>1. CarrierInv => EdgePermitsAreHeld
  BY Zenon DEF CarrierInv
<1> QED  BY <1>1, CarrierInvariant, PTL
=============================================================================
