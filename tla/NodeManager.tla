---------------------------- MODULE NodeManager ----------------------------
(* internal/node and NodeWorker of internal/runtime: the phase of the node,   *)
(* the connectors it owns with the streams of their current and retired       *)
(* generations, Drain, and the heartbeats that tell the control plane. One    *)
(* action is one critical section of the manager's mutex: the phase it reads  *)
(* has a lock of its own, so Drain's BeginDrain is a step before its first    *)
(* look at the streams.                                                       *)
EXTENDS Naturals, FiniteSets

CONSTANTS
    Ids,           \* connector ids
    Generations,   \* bound: connector generations, positive
    Streams,       \* streams of clients
    Drainers,      \* callers of Drain
    Capacity,      \* capacity of the node
    MaxUint,       \* the largest uint32
    MaxBeats       \* bound: heartbeats of the node worker, the first and the last included

Absent == 0

ASSUME NodeAssumption ==
    /\ IsFiniteSet(Ids) /\ IsFiniteSet(Streams) /\ IsFiniteSet(Generations)
    /\ Generations \subseteq Nat \ {Absent}
    /\ Capacity \in Nat /\ MaxUint \in Nat \ {0} /\ MaxBeats \in Nat \ {0, 1}

VARIABLES
    phase, ready,  \* State.snapshot
    conn,          \* connectors: generation, streams and retired, by id
    stream,        \* each stream: its place and whether the client still has it
    drain,         \* each Drain call
    beat,          \* the node worker: where it is, in which call, and what it has observed
    stopping,      \* the service is shutting down
    late,          \* heartbeats the worker gave up on that may still arrive
    observed       \* the control plane's record of the node

nodeVars == <<phase, ready>>
ownVars == <<conn, stream, drain>>
beatVars == <<beat, stopping, late, observed>>
vars == <<phase, ready, conn, stream, drain, beat, stopping, late, observed>>

Observations == [at : 0..MaxBeats, ready : BOOLEAN, draining : BOOLEAN, streams : 0..MaxUint]
Unobserved == [at |-> 0, ready |-> FALSE, draining |-> FALSE, streams |-> 0]

NoConnector == [gen |-> Absent, streams |-> 0, retired |-> [g \in Generations |-> 0]]
FreeStream == [st |-> "free", id |-> Absent, gen |-> Absent]
NoDrain == [pc |-> "idle", woken |-> FALSE]

Owned == {i \in Ids : conn[i].gen # Absent}

TypeOK ==
    /\ phase \in {"starting", "ready", "draining", "stopped"}
    /\ ready \in BOOLEAN
    /\ conn \in [Ids -> [gen : Generations \cup {Absent}, streams : 0..MaxUint,
                         retired : [Generations -> 0..MaxUint]]]
    /\ Cardinality(Owned) <= Capacity
    /\ stream \in [Streams -> [st : {"free", "open", "closed"}, id : Ids \cup {Absent},
                               gen : Generations \cup {Absent}]]
    /\ drain \in [Drainers -> [pc : {"idle", "look", "wait", "drained", "forced"}, woken : BOOLEAN]]
    /\ beat \in [pc : {"streams", "phase", "send", "idle", "stopped", "failed"},
                 call : {"start", "tick", "again", "last"}, obs : Observations]
    /\ stopping \in BOOLEAN
    /\ late \subseteq Observations
    /\ observed \in Observations

Init ==
    /\ phase = "starting"
    /\ ready = FALSE
    /\ conn = [i \in Ids |-> NoConnector]
    /\ stream = [s \in Streams |-> FreeStream]
    /\ drain = [d \in Drainers |-> NoDrain]
    /\ beat = [pc |-> "streams", call |-> "start", obs |-> [Unobserved EXCEPT !.at = 1]]
    /\ stopping = FALSE
    /\ late = {}
    /\ observed = Unobserved

-----------------------------------------------------------------------------
(* State *)

(* The service marks the node ready once its components have started. *)
MarkReady ==
    /\ phase = "starting"
    /\ ~stopping
    /\ beat.call # "start" \/ beat.pc = "idle"
    /\ phase' = "ready"
    /\ ready' = TRUE
    /\ UNCHANGED <<ownVars, beatVars>>

BeginDrain ==
    IF phase \in {"draining", "stopped"}
      THEN UNCHANGED <<phase, ready>>
      ELSE phase' = "draining" /\ ready' = FALSE

SetControlAvailable(b) ==
    /\ phase = "ready"
    /\ ready' = b
    /\ UNCHANGED <<phase, ownVars, beatVars>>

(* Mutant: the components are shut down before the node drains. *)
ServiceShutdownUndrained ==
    /\ ~stopping
    /\ beat.call = "start" => beat.pc \in {"idle", "failed"}
    /\ stopping' = TRUE
    /\ UNCHANGED <<nodeVars, ownVars, beat, late, observed>>

(* The service drains the node itself before its components, in the middle of *)
(* a heartbeat or not; its Start and Shutdown exclude each other.             *)
ServiceShutdown ==
    /\ ~stopping
    /\ beat.call = "start" => beat.pc \in {"idle", "failed"}
    /\ stopping' = TRUE
    /\ BeginDrain
    /\ UNCHANGED <<ownVars, beat, late, observed>>

(* Whether or not the components stopped without an error. *)
MarkStopped ==
    /\ stopping
    /\ beat.pc \in {"stopped", "failed"}
    /\ phase # "stopped"
    /\ phase' = "stopped"
    /\ ready' = FALSE
    /\ UNCHANGED <<ownVars, beatVars>>

-----------------------------------------------------------------------------
(* Connectors and streams *)

(* A connector that is owned already is left as it is. *)
AdmitConnector(i, g) ==
    /\ phase = "ready"
    /\ conn[i].gen = Absent
    /\ Cardinality(Owned) < Capacity
    /\ conn' = [conn EXCEPT ![i] = [NoConnector EXCEPT !.gen = g]]
    /\ UNCHANGED <<phase, ready, stream, drain, beatVars>>

ReplaceConnector(i, g) ==
    /\ phase = "ready"
    /\ conn[i].gen # Absent
    /\ g > conn[i].gen
    /\ conn' = [conn EXCEPT ![i] = [gen |-> g, streams |-> 0,
                                    retired |-> [conn[i].retired EXCEPT ![conn[i].gen] = @ + conn[i].streams]]]
    /\ UNCHANGED <<phase, ready, stream, drain, beatVars>>

(* close(m.wake): every Drain that waits is woken. *)
Signal == [d \in Drainers |-> [drain[d] EXCEPT !.woken = @ \/ drain[d].pc = "wait"]]

RemoveConnector(i) ==
    /\ conn[i].gen # Absent
    /\ conn[i].streams = 0
    /\ \A g \in Generations : conn[i].retired[g] = 0
    /\ conn' = [conn EXCEPT ![i] = NoConnector]
    /\ drain' = Signal
    /\ UNCHANGED <<phase, ready, stream, beatVars>>

OpenStream(s, i) ==
    /\ stream[s].st = "free"
    /\ phase = "ready"
    /\ conn[i].gen # Absent
    /\ conn[i].streams < MaxUint
    /\ conn' = [conn EXCEPT ![i].streams = @ + 1]
    /\ stream' = [stream EXCEPT ![s] = [st |-> "open", id |-> i, gen |-> conn[i].gen]]
    /\ UNCHANGED <<phase, ready, drain, beatVars>>

(* A stream of the current generation or of a retired one; after a forced     *)
(* drain its connector is unknown and nothing changes.                        *)
CloseStream(s) ==
    LET i == stream[s].id
        g == stream[s].gen
        current == conn[i].gen = g /\ conn[i].streams > 0
        retired == ~current /\ conn[i].gen # Absent /\ conn[i].retired[g] > 0
    IN  /\ stream[s].st = "open"
        /\ stream' = [stream EXCEPT ![s].st = "closed"]
        /\ conn' = CASE current -> [conn EXCEPT ![i].streams = @ - 1]
                     [] retired -> [conn EXCEPT ![i].retired[g] = @ - 1]
                     [] OTHER -> conn
        /\ drain' = IF current \/ retired THEN Signal ELSE drain
        /\ UNCHANGED <<phase, ready, beatVars>>

-----------------------------------------------------------------------------
(* Drain *)

(* The streams of one generation of a connector, in its current count or in   *)
(* its retired one.                                                           *)
Counted(i, g) == conn[i].retired[g] + (IF conn[i].gen = g THEN conn[i].streams ELSE 0)

(* One element for every stream that is counted: the sum over the connectors  *)
(* and over their generations is its cardinality.                             *)
Units == {u \in (Ids \X Generations) \X (1..MaxUint) : u[2] <= Counted(u[1][1], u[1][2])}

(* Mutant: the sum wraps around. *)
TotalStreamsWrapping == Cardinality(Units) % (MaxUint + 1)

saturatingUint32(n) == IF n > MaxUint THEN MaxUint ELSE n

(* totalStreamsLocked: the saturating sum. *)
TotalStreams == saturatingUint32(Cardinality(Units))

DrainBegins(d) ==
    /\ drain[d].pc = "idle"
    /\ BeginDrain
    /\ drain' = [drain EXCEPT ![d].pc = "look"]
    /\ UNCHANGED <<conn, stream, beatVars>>

DrainLooks(d) ==
    /\ drain[d].pc = "look"
    /\ drain' = [drain EXCEPT ![d] = [pc |-> IF TotalStreams = 0 THEN "drained" ELSE "wait", woken |-> FALSE]]
    /\ UNCHANGED <<phase, ready, conn, stream, beatVars>>

DrainWakes(d) ==
    /\ drain[d].pc = "wait"
    /\ drain[d].woken
    /\ drain' = [drain EXCEPT ![d].pc = "look"]
    /\ UNCHANGED <<phase, ready, conn, stream, beatVars>>

(* The deadline or the end of the context: ownership is given up. *)
DrainForced(d) ==
    /\ drain[d].pc = "wait"
    /\ conn' = [i \in Ids |-> NoConnector]
    /\ drain' = [Signal EXCEPT ![d] = [pc |-> "forced", woken |-> FALSE]]
    /\ UNCHANGED <<phase, ready, stream, beatVars>>

-----------------------------------------------------------------------------
(* The node worker. Observation reads the streams, then the phase; the        *)
(* request carries what was read.                                             *)

(* A tick of the run loop, which has not seen its context end. *)
Tick ==
    /\ beat.pc = "idle"
    /\ beat.obs.at < MaxBeats - 1
    /\ beat' = [beat EXCEPT !.pc = "streams", !.call = "tick", !.obs.at = @ + 1]
    /\ UNCHANGED <<nodeVars, ownVars, stopping, late, observed>>

(* Shutdown, once the loop has ended: one more heartbeat. *)
ShutdownWorker ==
    /\ stopping
    /\ beat.pc = "idle"
    /\ beat' = [beat EXCEPT !.pc = "streams", !.call = "last", !.obs.at = @ + 1]
    /\ UNCHANGED <<nodeVars, ownVars, stopping, late, observed>>

(* Shutdown's own context ends while the loop is in a heartbeat; a request    *)
(* that is out may still arrive.                                              *)
ShutdownTimesOut ==
    /\ stopping
    /\ beat.pc \in {"streams", "phase", "send"}
    /\ beat.call \in {"tick", "again"}
    /\ late' \in {late} \cup (IF beat.pc = "send" THEN {late \cup {beat.obs}} ELSE {})
    /\ beat' = [beat EXCEPT !.pc = "failed"]
    /\ UNCHANGED <<nodeVars, ownVars, stopping, observed>>

ObserveStreams ==
    /\ beat.pc = "streams"
    /\ beat' = [beat EXCEPT !.pc = "phase", !.obs.streams = TotalStreams]
    /\ UNCHANGED <<nodeVars, ownVars, stopping, late, observed>>

ObservePhase ==
    /\ beat.pc = "phase"
    /\ beat' = [beat EXCEPT !.pc = "send", !.obs.ready = phase = "ready", !.obs.draining = phase = "draining"]
    /\ UNCHANGED <<nodeVars, ownVars, stopping, late, observed>>

(* The control plane: an observation older than its record is stale. *)
AcceptsObservation(o) == o.at >= observed.at

HeartbeatAccepted ==
    /\ beat.pc = "send"
    /\ AcceptsObservation(beat.obs)
    /\ observed' = beat.obs
    /\ beat' = [beat EXCEPT !.pc = IF beat.call = "last" THEN "stopped" ELSE "idle"]
    /\ UNCHANGED <<nodeVars, ownVars, stopping, late>>

(* A conflict: the run loop registers the node again and observes it anew,    *)
(* under the same time; the other calls report an error.                      *)
HeartbeatStale ==
    /\ beat.pc = "send"
    /\ beat' = [beat EXCEPT !.pc = CASE beat.call = "tick" -> "streams"
                                     [] beat.call = "again" -> "idle"
                                     [] OTHER -> "failed",
                            !.call = IF @ = "tick" THEN "again" ELSE @]
    /\ UNCHANGED <<nodeVars, ownVars, stopping, late, observed>>

(* No answer: the request is lost, or arrives after the worker gave it up.    *)
HeartbeatUnanswered ==
    /\ beat.pc = "send"
    /\ late' \in {late, late \cup {beat.obs}}
    /\ beat' = [beat EXCEPT !.pc = IF beat.call \in {"tick", "again"} THEN "idle" ELSE "failed"]
    /\ UNCHANGED <<nodeVars, ownVars, stopping, observed>>

LateHeartbeat(o) ==
    /\ late' = late \ {o}
    /\ observed' = IF AcceptsObservation(o) THEN o ELSE observed
    /\ UNCHANGED <<nodeVars, ownVars, beat, stopping>>

-----------------------------------------------------------------------------

Next ==
    \/ MarkReady
    \/ \E b \in BOOLEAN : SetControlAvailable(b)
    \/ ServiceShutdown \/ MarkStopped
    \/ \E i \in Ids, g \in Generations : AdmitConnector(i, g) \/ ReplaceConnector(i, g)
    \/ \E i \in Ids : RemoveConnector(i)
    \/ \E s \in Streams, i \in Ids : OpenStream(s, i)
    \/ \E s \in Streams : CloseStream(s)
    \/ \E d \in Drainers : DrainBegins(d) \/ DrainLooks(d) \/ DrainWakes(d) \/ DrainForced(d)
    \/ Tick \/ ShutdownWorker \/ ShutdownTimesOut
    \/ ObserveStreams \/ ObservePhase
    \/ HeartbeatAccepted \/ HeartbeatStale \/ HeartbeatUnanswered
    \/ \E o \in late : LateHeartbeat(o)

Spec == Init /\ [][Next]_vars

(* Streams end and a woken Drain goes on. The deadline is not fair here: what *)
(* is asked is whether Drain needs it.                                        *)
Fairness ==
    /\ \A s \in Streams : WF_vars(CloseStream(s))
    /\ \A d \in Drainers : WF_vars(DrainLooks(d)) /\ WF_vars(DrainWakes(d))

FairSpec == Spec /\ Fairness

-----------------------------------------------------------------------------

Open == {s \in Streams : stream[s].st = "open"}
Held(i, g) == {s \in Open : stream[s].id = i /\ stream[s].gen = g}
Forced == \E d \in Drainers : drain[d].pc = "forced"

(* While no drain was forced, every connector generation counts exactly the   *)
(* streams its clients hold, whatever was replaced, removed and closed, and   *)
(* so does the sum.                                                           *)
StreamConservation ==
    ~Forced => /\ \A i \in Ids, g \in Generations : Counted(i, g) = Cardinality(Held(i, g))
               /\ Cardinality(Units) = Cardinality(Open)

(* Drain "fences new assignments, waits for existing streams": when it        *)
(* returns unforced nothing is held, and nothing is held afterwards.          *)
DrainedIsEmpty ==
    (\E d \in Drainers : drain[d].pc = "drained") =>
        Forced \/ \A s \in Streams : stream[s].st # "open"

(* A forced drain gives up ownership for good: a late CloseStream of a stream *)
(* it cut counts nothing.                                                     *)
ForcedIsFinal ==
    Forced => TotalStreams = 0 /\ Owned = {}

(* When NodeWorker.Shutdown has returned without an error, the control plane  *)
(* knows the node as not ready and, unless a drain was forced, with no fewer  *)
(* streams than are held, whatever heartbeat was in flight when the service   *)
(* began to drain and whichever arrives late.                                 *)
LastHeartbeatStands ==
    beat.pc = "stopped" =>
        /\ ~observed.ready
        /\ Forced \/ observed.streams >= saturatingUint32(Cardinality(Open))

(* Drain returns once the streams have ended, without the deadline: no wakeup *)
(* is lost between its look at the streams and its wait.                      *)
DrainEnds == \A d \in Drainers : (drain[d].pc = "look") ~> (drain[d].pc \in {"drained", "forced"})

-----------------------------------------------------------------------------
(* The connectors: one that is not owned counts nothing, a retired generation *)
(* is older than the current one, an open stream names its connector, and a   *)
(* node that is drained takes nothing new.                                    *)
Fenced == phase \in {"draining", "stopped"}
ConnectorInv ==
    /\ \A i \in Ids : conn[i].gen = Absent => conn[i] = NoConnector
    /\ \A i \in Ids, g \in Generations : conn[i].retired[g] > 0 => g < conn[i].gen
    /\ \A s \in Open : stream[s].id \in Ids /\ stream[s].gen \in Generations
    /\ \A d \in Drainers : drain[d].pc # "idle" => Fenced
    /\ Forced => \A i \in Ids : conn[i] = NoConnector
    /\ StreamConservation
    /\ DrainedIsEmpty

(* The heartbeats: the last one is newer than all that may arrive late, and   *)
(* tells what held when the node no longer took streams.                      *)
HeartbeatInv ==
    /\ stopping => Fenced
    /\ \A o \in late \cup {observed} : o.at <= beat.obs.at
    /\ beat.call # "last" => beat.obs.at < MaxBeats /\ beat.pc # "stopped"
    /\ beat.call = "last" =>
        /\ stopping /\ beat.pc # "idle"
        /\ beat.pc # "failed" => \A o \in late : o.at < beat.obs.at
        /\ beat.pc \in {"send", "stopped"} => ~beat.obs.ready
        /\ beat.pc \in {"phase", "send", "stopped"} =>
            Forced \/ beat.obs.streams >= saturatingUint32(Cardinality(Open))
        /\ beat.pc = "stopped" => observed = beat.obs

(* The inductive invariant. *)
NodeInv == TypeOK /\ ConnectorInv /\ HeartbeatInv
=============================================================================
