-------------------------- MODULE ConnectorSession --------------------------
(* One established control session of internal/connectorprotocol: a            *)
(* ServerSession and a ClientSession that stage, promote and drain             *)
(* configurations over an ordered frame stream. The stream, the applier and    *)
(* the drainer are outside this repository. A generation has one content, so   *)
(* a generation stands for the pair (generation, content hash), and 0 for "no  *)
(* snapshot". Leases are in ConnectorLease: here a session may close at any    *)
(* time, which is what ensureActiveLocked does when it finds one expired.      *)
(*                                                                             *)
(* The client runs one frame handler at a time. Prepare, Activate and          *)
(* StopNewStreams run without its mutex, so each is a pair of steps; applyMu   *)
(* keeps applies, promotion and Close apart, but not drains.                   *)
EXTENDS Naturals, Sequences

CONSTANTS
    MaxGeneration,      \* bound: configuration generations
    MaxQueue,           \* bound: frames in flight before neither side sends a new one
    MaxFailures         \* bound: refusals by the applier or the drainer

ASSUME SessionAssumption == MaxGeneration \in Nat \ {0} /\ MaxQueue \in Nat /\ MaxFailures \in Nat

VARIABLES
    server,         \* ServerSession
    client,         \* ClientSession
    runtime,        \* what the applier and the drainer have done
    toClient,       \* frames sent by the server, in order
    toServer,       \* frames sent by the client, in order
    desired         \* newest generation the control plane can offer

sessionVars == <<server, client, runtime, toClient, toServer, desired>>

DrainStatuses == {"none", "accepted", "progress", "completed", "forced", "rejected"}

(* Accept and AcceptWelcome have run: the first snapshot is on its way.        *)
SessionInit ==
    /\ server = [state |-> "awaiting_snapshot", pendingSnapshot |-> 1, pendingDelta |-> 0,
                 active |-> 0, candidate |-> 0, readyGeneration |-> 0, needsSnapshot |-> FALSE,
                 drain |-> 0, drainStatus |-> "none", drainCompleted |-> FALSE]
    /\ client = [state |-> "awaiting_snapshot", active |-> 0, candidate |-> 0, prepared |-> 0,
                 needsSnapshot |-> FALSE, readyGeneration |-> 0,
                 drain |-> 0, drainStatus |-> "none", drainCompleted |-> FALSE,
                 applying |-> [kind |-> "none", generation |-> 0],
                 activating |-> 0, stopping |-> "no", heartbeat |-> 0]
    /\ runtime = [serving |-> 0, staged |-> {}, promoted |-> {}, admitting |-> TRUE,
                  streams |-> 0, failures |-> 0]
    /\ toClient = <<[type |-> "snapshot", generation |-> 1]>>
    /\ toServer = <<>>
    /\ desired = 1

Snap(g) == [type |-> "snapshot", generation |-> g]
Delt(g) == [type |-> "delta", generation |-> g]
Drn(g) == [type |-> "drain", generation |-> g]
Ack(kind, status, g) == [type |-> "ack", kind |-> kind, status |-> status, generation |-> g]
Ready(g) == [type |-> "ready", generation |-> g]
Beat(g) == [type |-> "heartbeat", generation |-> g]
DrainAck(status, g) == [type |-> "drain_ack", status |-> status, generation |-> g]

Room == Len(toClient) + Len(toServer) < MaxQueue
Reply(m) == toServer' = Append(toServer, m)

-----------------------------------------------------------------------------
(* ServerSession. A frame that a handler refuses is consumed without effect.   *)

activeIsReady(s) == s.active # 0 /\ s.readyGeneration = s.active

restoreState(s) ==
    [s EXCEPT !.state = IF activeIsReady(s) /\ ~s.needsSnapshot THEN "ready" ELSE "awaiting_snapshot"]

DesiredAdvances ==
    /\ desired < MaxGeneration
    /\ desired' = desired + 1
    /\ UNCHANGED <<server, client, runtime, toClient, toServer>>

(* OfferSnapshot, and the frame its caller sends. The source may be behind the *)
(* newest generation; what is already offered, staged or active is sent again. *)
OfferSnapshot ==
    \E g \in 1..desired :
        LET again == g \in {server.candidate, server.active, server.pendingSnapshot}
        IN  /\ server.state # "closed" /\ Room
            /\ g >= server.active
            /\ server' = IF again THEN server
                         ELSE [server EXCEPT !.pendingDelta = 0, !.pendingSnapshot = g,
                                             !.state = IF server.active = 0 THEN "awaiting_snapshot" ELSE @]
            /\ toClient' = Append(toClient, Snap(g))
            /\ UNCHANGED <<client, runtime, toServer, desired>>

OfferDelta ==
    /\ server.state # "closed" /\ Room
    /\ activeIsReady(server) /\ ~server.needsSnapshot
    /\ server.pendingSnapshot = 0 /\ server.pendingDelta = 0 /\ server.candidate = 0
    /\ server.active < desired
    /\ server' = [server EXCEPT !.pendingDelta = server.active + 1]
    /\ toClient' = Append(toClient, Delt(server.active + 1))
    /\ UNCHANGED <<client, runtime, toServer, desired>>

(* HandleAck's three branches: a pending snapshot, a pending delta, nothing    *)
(* pending (only a duplicate is confirmed, and that changes nothing).          *)
ackActivates(s, g) == [s EXCEPT !.active = g]

ackStages(s, g) ==
    [s EXCEPT !.candidate = g, !.state = IF activeIsReady(s) THEN @ ELSE "awaiting_ready"]

ackSnapshot(m) ==
    IF m.kind = "snapshot" /\ m.generation = server.pendingSnapshot
    THEN LET taken == [server EXCEPT !.pendingSnapshot = 0]
         IN  IF m.status \in {"snapshot_required", "rejected"}
             THEN restoreState([taken EXCEPT !.needsSnapshot = TRUE])
             ELSE ackStages([taken EXCEPT !.needsSnapshot = FALSE], m.generation)
    ELSE server

ackDelta(m) ==
    IF m.kind = "delta" /\ m.generation = server.pendingDelta
    THEN LET taken == [server EXCEPT !.pendingDelta = 0]
         IN  IF m.status \in {"snapshot_required", "rejected"}
             THEN restoreState([taken EXCEPT !.needsSnapshot = TRUE])
             ELSE IF m.generation # server.active + 1 THEN taken
             ELSE ackStages(taken, m.generation)
    ELSE server

FromClient(type) ==
    /\ toServer # <<>> /\ Head(toServer).type = type
    /\ server.state # "closed"
    /\ toServer' = Tail(toServer)

HandleAck ==
    /\ FromClient("ack")
    /\ LET m == Head(toServer)
       IN  server' = IF server.pendingSnapshot # 0 THEN ackSnapshot(m)
                     ELSE IF server.pendingDelta # 0 THEN ackDelta(m) ELSE server
    /\ UNCHANGED <<client, runtime, toClient, desired>>

readied(s, g) ==
    [s EXCEPT !.active = g, !.candidate = 0, !.needsSnapshot = FALSE,
              !.readyGeneration = g, !.state = "ready"]

HandleReadiness ==
    /\ FromClient("ready")
    /\ LET g == Head(toServer).generation
           expected == IF server.candidate # 0 THEN server.candidate ELSE server.active
       IN  server' = IF g = expected THEN readied(server, g) ELSE server
    /\ UNCHANGED <<client, runtime, toClient, desired>>

HandleHeartbeat ==
    /\ FromClient("heartbeat")
    /\ server' = IF server.active # 0 /\ Head(toServer).generation # server.active
                 THEN [server EXCEPT !.needsSnapshot = TRUE, !.readyGeneration = 0,
                                     !.state = "awaiting_snapshot"]
                 ELSE server
    /\ UNCHANGED <<client, runtime, toClient, desired>>

BeginDrain ==
    /\ server.drain = 0 /\ server.state = "ready" /\ Room
    /\ activeIsReady(server) /\ ~server.needsSnapshot
    /\ server' = [server EXCEPT !.drain = server.active, !.drainStatus = "accepted",
                                !.drainCompleted = FALSE, !.state = "draining"]
    /\ toClient' = Append(toClient, Drn(server.active))
    /\ UNCHANGED <<client, runtime, toServer, desired>>

(* BeginDrain with the same drain ID returns the request to be sent again.     *)
BeginDrainAgain ==
    /\ server.drain # 0 /\ ~server.drainCompleted
    /\ server.state # "closed" /\ Room
    /\ toClient' = Append(toClient, Drn(server.drain))
    /\ UNCHANGED <<server, client, runtime, toServer, desired>>

HandleDrainAck ==
    /\ FromClient("drain_ack")
    /\ LET m == Head(toServer)
           told == [server EXCEPT !.drainStatus = m.status,
                                  !.drainCompleted = m.status \in {"completed", "forced", "rejected"}]
       IN  server' = CASE m.generation # server.drain \/ server.drainCompleted -> server
                       [] m.generation = server.drain /\ ~server.drainCompleted ->
                            IF m.status = "rejected" THEN restoreState(told) ELSE told
    /\ UNCHANGED <<client, runtime, toClient, desired>>

(* Close, or any handler that finds the session replaced or expired.           *)
ServerCloses ==
    /\ server.state # "closed"
    /\ server' = [server EXCEPT !.state = "closed"]
    /\ UNCHANGED <<client, runtime, toClient, toServer, desired>>

-----------------------------------------------------------------------------
(* ClientSession, behind Consumer.HandleFrame: every snapshot or delta is      *)
(* answered by an acknowledgement, a rejection when the apply returns none.    *)

applyMuFree == client.applying.kind = "none" /\ client.activating = 0
handlerFree == client.applying.kind = "none" /\ client.stopping = "no"

FromServer(type) ==
    /\ toClient # <<>> /\ Head(toClient).type = type
    /\ handlerFree /\ client.state # "closed"
    /\ toClient' = Tail(toClient)

Fails == runtime.failures < MaxFailures
Failed(r) == [r EXCEPT !.failures = @ + 1]
Abort(r, g) == [r EXCEPT !.staged = @ \ {g}]

current == IF client.candidate # 0 THEN client.candidate ELSE client.active

ApplySnapshot ==
    /\ FromServer("snapshot") /\ applyMuFree
    /\ LET g == Head(toClient).generation
       IN  \/ /\ g <= current
              /\ Reply(Ack("snapshot", IF g = current THEN "duplicate" ELSE "rejected", g))
              /\ UNCHANGED client
           \/ /\ g > current
              /\ client' = [client EXCEPT !.applying = [kind |-> "snapshot", generation |-> g]]
              /\ UNCHANGED toServer
    /\ UNCHANGED <<server, runtime, desired>>

ApplyDelta ==
    /\ FromServer("delta") /\ applyMuFree
    /\ LET g == Head(toClient).generation
           gap == g > client.active + 1
       IN  IF client.active = 0 \/ client.needsSnapshot \/ client.candidate # 0
           THEN Reply(Ack("delta", "snapshot_required", g)) /\ UNCHANGED client
           ELSE IF gap
           THEN Reply(Ack("delta", "snapshot_required", g)) /\ client' = [client EXCEPT !.needsSnapshot = TRUE]
           ELSE IF g <= client.active
           THEN Reply(Ack("delta", "rejected", g)) /\ UNCHANGED client
           ELSE client' = [client EXCEPT !.applying = [kind |-> "delta", generation |-> g]] /\ UNCHANGED toServer
    /\ UNCHANGED <<server, runtime, desired>>

(* Prepare returns: refused; staged but the session has closed meanwhile; a    *)
(* candidate is already staged; staged as the candidate.                       *)
notApplying == [client EXCEPT !.applying = [kind |-> "none", generation |-> 0]]

PrepareReturns ==
    LET kind == client.applying.kind
        g == client.applying.generation
        rejected == client' = notApplying /\ Reply(Ack(kind, "rejected", g))
    IN  /\ kind # "none"
        /\ \/ Fails /\ runtime' = Failed(runtime) /\ rejected
           \/ /\ client.state = "closed"
              /\ runtime' = Abort([runtime EXCEPT !.staged = @ \cup {g}], g)
              /\ client' = notApplying /\ UNCHANGED toServer
           \/ /\ client.state # "closed" /\ client.prepared # 0
              /\ runtime' = Abort([runtime EXCEPT !.staged = @ \cup {g}], g)
              /\ rejected
           \/ /\ client.state # "closed" /\ client.prepared = 0
              /\ runtime' = [runtime EXCEPT !.staged = @ \cup {g}]
              /\ client' = [notApplying EXCEPT !.candidate = g, !.prepared = g, !.readyGeneration = 0,
                                !.needsSnapshot = IF kind = "snapshot" THEN FALSE ELSE @,
                                !.state = "awaiting_ready"]
              /\ Reply(Ack(kind, "applied", g))
        /\ UNCHANGED <<server, toClient, desired>>

restoreClientState(c) ==
    [c EXCEPT !.state = IF c.active # 0 /\ c.readyGeneration = c.active /\ ~c.needsSnapshot THEN "ready"
                        ELSE IF c.candidate # 0 THEN "awaiting_ready" ELSE "awaiting_snapshot"]

(* MarkReadyContext with edge, route and origin ready, up to Activate.         *)
MarkReadyContext ==
    /\ client.state # "closed" /\ applyMuFree
    /\ client.prepared # 0
    /\ client' = [client EXCEPT !.activating = client.prepared]
    /\ UNCHANGED <<server, runtime, toClient, toServer, desired>>

ActivateReturns ==
    LET g == client.activating
        done == [client EXCEPT !.activating = 0]
        dropped == [done EXCEPT !.candidate = 0, !.prepared = 0, !.needsSnapshot = TRUE]
        serves == [runtime EXCEPT !.serving = g, !.staged = @ \ {g}]
    IN  /\ g # 0
        /\ \/ /\ Fails
              /\ runtime' = Abort(Failed(runtime), g)
              /\ client' = restoreClientState(dropped)
              /\ UNCHANGED toServer
           \/ /\ client.state = "closed"
              /\ runtime' = serves
              /\ client' = done /\ UNCHANGED toServer
           \/ /\ client.state # "closed"
              /\ runtime' = [serves EXCEPT !.promoted = @ \cup {g}]
              /\ client' = [done EXCEPT !.active = g, !.candidate = 0, !.prepared = 0,
                                        !.needsSnapshot = FALSE, !.readyGeneration = g, !.state = "ready"]
              /\ Reply(Ready(g))
        /\ UNCHANGED <<server, toClient, desired>>

(* Heartbeat builds the frame; another goroutine may write one of its own      *)
(* before this one is on the stream.                                           *)
Heartbeat ==
    /\ client.state # "closed" /\ client.heartbeat = 0 /\ current # 0
    /\ client' = [client EXCEPT !.heartbeat = IF client.active # 0 THEN client.active ELSE client.candidate]
    /\ UNCHANGED <<server, runtime, toClient, toServer, desired>>

SendHeartbeat ==
    /\ client.heartbeat # 0 /\ Room
    /\ client' = [client EXCEPT !.heartbeat = 0]
    /\ Reply(Beat(client.heartbeat))
    /\ UNCHANGED <<server, runtime, toClient, desired>>

HandleDrain ==
    /\ FromServer("drain")
    /\ LET g == Head(toClient).generation
           refused == Reply(DrainAck("rejected", g)) /\ UNCHANGED client
       IN  IF client.drain # 0
           THEN (IF g = client.drain
                 THEN Reply(DrainAck(client.drainStatus, g)) /\ UNCHANGED client
                 ELSE refused)
           ELSE IF client.needsSnapshot \/ client.readyGeneration # client.active \/ g # client.active
           THEN refused
           ELSE /\ client' = [client EXCEPT !.drain = g, !.drainStatus = "accepted",
                                            !.drainCompleted = FALSE, !.state = "draining",
                                            !.stopping = "stop"]
                /\ UNCHANGED toServer
    /\ UNCHANGED <<server, runtime, desired>>

drainRefused(c) ==
    restoreClientState([c EXCEPT !.drainStatus = "rejected", !.drainCompleted = TRUE, !.stopping = "no"])

StopNewStreams ==
    /\ client.stopping = "stop"
    /\ \/ /\ Fails /\ runtime' \in {Failed(runtime), Failed([runtime EXCEPT !.admitting = FALSE])}
          /\ client' = drainRefused(client)
          /\ Reply(DrainAck("rejected", client.drain))
       \/ /\ runtime' = [runtime EXCEPT !.admitting = FALSE]
          /\ client' = [client EXCEPT !.stopping = "count"]
          /\ UNCHANGED toServer
    /\ UNCHANGED <<server, toClient, desired>>

CountActiveStreams ==
    /\ client.stopping = "count"
    /\ \/ /\ Fails /\ runtime' = Failed(runtime)
          /\ client' = drainRefused(client)
          /\ Reply(DrainAck("rejected", client.drain))
       \/ /\ client' = [client EXCEPT !.stopping = "no"]
          /\ Reply(DrainAck("accepted", client.drain))
          /\ UNCHANGED runtime
    /\ UNCHANGED <<server, toClient, desired>>

(* CompleteDrain through DrainProgress. Its caller has seen the acceptance.    *)
drainOutcome(force) ==
    IF force THEN "forced" ELSE IF runtime.streams = 0 THEN "completed" ELSE "progress"

CompleteDrain(force) ==
    /\ client.drain # 0 /\ client.stopping = "no" /\ ~client.drainCompleted
    /\ client.state # "closed" /\ Room
    /\ runtime' = IF force THEN [runtime EXCEPT !.streams = 0] ELSE runtime
    /\ client' = [client EXCEPT !.drainStatus = drainOutcome(force),
                                !.drainCompleted = drainOutcome(force) # "progress"]
    /\ Reply(DrainAck(drainOutcome(force), client.drain))
    /\ UNCHANGED <<server, toClient, desired>>

(* Close takes applyMu and aborts the candidate.                               *)
ClientCloses ==
    /\ client.state # "closed" /\ applyMuFree
    /\ client' = [client EXCEPT !.state = "closed", !.candidate = 0, !.prepared = 0]
    /\ runtime' = Abort(runtime, client.prepared)
    /\ UNCHANGED <<server, toClient, toServer, desired>>

(* ensureActiveLocked finds the lease or the heartbeat deadline passed. It     *)
(* takes no applyMu, and the candidate stays as it is.                         *)
ClientExpires ==
    /\ client.state # "closed"
    /\ client' = [client EXCEPT !.state = "closed"]
    /\ UNCHANGED <<server, runtime, toClient, toServer, desired>>

(* The data plane opens and closes streams.                                    *)
StreamChanges ==
    /\ runtime' \in {[runtime EXCEPT !.streams = 1 - @]}
    /\ runtime.streams = 0 => runtime.admitting /\ runtime.serving # 0
    /\ UNCHANGED <<server, client, toClient, toServer, desired>>

SessionNext ==
    \/ DesiredAdvances \/ OfferSnapshot \/ OfferDelta \/ HandleAck \/ HandleReadiness
    \/ HandleHeartbeat \/ BeginDrain \/ BeginDrainAgain \/ HandleDrainAck \/ ServerCloses
    \/ ApplySnapshot \/ ApplyDelta \/ PrepareReturns \/ MarkReadyContext \/ ActivateReturns
    \/ Heartbeat \/ SendHeartbeat \/ HandleDrain \/ StopNewStreams \/ CountActiveStreams
    \/ CompleteDrain(TRUE) \/ CompleteDrain(FALSE) \/ ClientCloses \/ ClientExpires \/ StreamChanges

SessionSpec == SessionInit /\ [][SessionNext]_sessionVars

-----------------------------------------------------------------------------
Generations == 0..MaxGeneration
SessionStates == {"awaiting_snapshot", "awaiting_ready", "ready", "draining", "closed"}

ServerRecords ==
    [state : SessionStates, pendingSnapshot : Generations, pendingDelta : Generations,
     active : Generations, candidate : Generations, readyGeneration : Generations,
     needsSnapshot : BOOLEAN, drain : Generations, drainStatus : DrainStatuses,
     drainCompleted : BOOLEAN]
ClientRecords ==
    [state : SessionStates, active : Generations, candidate : Generations,
     prepared : Generations, needsSnapshot : BOOLEAN, readyGeneration : Generations,
     drain : Generations, drainStatus : DrainStatuses, drainCompleted : BOOLEAN,
     applying : [kind : {"none", "snapshot", "delta"}, generation : Generations],
     activating : Generations, stopping : {"no", "stop", "count"}, heartbeat : Generations]
RuntimeRecords ==
    [serving : Generations, staged : SUBSET Generations, promoted : SUBSET Generations,
     admitting : BOOLEAN, streams : 0..1, failures : 0..MaxFailures]
ServerFrames == [type : {"snapshot", "delta", "drain"}, generation : Generations \ {0}]
ClientFrames ==
    [type : {"ack"}, kind : {"snapshot", "delta"},
     status : {"applied", "duplicate", "rejected", "snapshot_required"}, generation : Generations]
    \cup [type : {"ready", "heartbeat"}, generation : Generations]
    \cup [type : {"drain_ack"}, status : DrainStatuses, generation : Generations]

(* The two sessions, the runtime and the frames have the fields session.go     *)
(* gives them.                                                                 *)
SessionTypeOK ==
    /\ server \in ServerRecords /\ client \in ClientRecords /\ runtime \in RuntimeRecords
    /\ toClient \in Seq(ServerFrames) /\ toServer \in Seq(ClientFrames)
    /\ desired \in Generations

(* "Only an all-true `ready` for the exact candidate hash may activate and     *)
(* promote it": the generation a server session holds active, and the base of  *)
(* every delta it sends, has been activated and promoted by the connector.     *)
ActiveWasPromoted ==
    /\ server.active # 0 => server.active \in runtime.promoted
    /\ \A i \in DOMAIN toClient :
        toClient[i].type = "delta" => toClient[i].generation - 1 \in runtime.promoted

(* Neither side's active generation, nor the one the applier serves, ever goes *)
(* back, whatever is offered late, rejected or superseded.                     *)
GenerationsAdvance ==
    [][/\ server'.active >= server.active
       /\ client'.active >= client.active
       /\ runtime'.serving >= runtime.serving]_sessionVars

(* "A failed prepare or activation aborts the candidate and preserves the LKG":*)
(* while a session is open, traffic is served from its active generation, and  *)
(* the only configuration left staged is its candidate.                        *)
ServesActive ==
    client.state # "closed" =>
        /\ runtime.serving = client.active
        /\ runtime.staged \subseteq {client.prepared} \ {0}

(* "The connector must stop admitting new streams before counting existing     *)
(* streams": a drain the server takes as completed or forced has left no       *)
(* stream, and none can be opened.                                             *)
DrainedConnectorIsEmpty ==
    server.drainStatus \in {"completed", "forced"} => runtime.streams = 0 /\ ~runtime.admitting

(* A ready frame follows the promotion it tells of.                            *)
ReadyFollowsPromotion ==
    \A i \in DOMAIN toServer :
        toServer[i].type = "ready" => toServer[i].generation \in runtime.promoted

(* applyMu: an apply and an activation exclude each other, an activation is of *)
(* the candidate, a candidate is not ready, and a drain is handled only when   *)
(* there is none.                                                              *)
HandlersExclude ==
    /\ client.applying.kind # "none" => client.activating = 0 /\ client.applying.generation # 0
    /\ client.activating # 0 => client.activating = client.prepared
    /\ client.prepared # 0 => client.readyGeneration = 0
    /\ client.stopping # "no" =>
           client.drain # 0 /\ client.prepared = 0 /\ client.applying.kind = "none"

(* What ServesActive says also holds of a closed session that a handler may    *)
(* still open again.                                                           *)
ServesWhatItMayRestore ==
    client.state # "closed" \/ client.stopping # "no" \/ client.activating # 0 =>
        /\ runtime.serving = client.active
        /\ runtime.staged \subseteq {client.prepared} \ {0}

(* A drain that is counted or under way has stopped new streams, and an        *)
(* outcome that is recorded or sent is true.                                   *)
DrainsAreTrue ==
    /\ client.stopping = "count" => ~runtime.admitting
    /\ client.drain # 0 /\ client.stopping = "no" /\ ~client.drainCompleted => ~runtime.admitting
    /\ client.drainStatus \in {"completed", "forced"} => runtime.streams = 0 /\ ~runtime.admitting
    /\ \A i \in DOMAIN toServer :
        toServer[i].type = "drain_ack" /\ toServer[i].status \in {"completed", "forced"} =>
            runtime.streams = 0 /\ ~runtime.admitting

(* The inductive invariant of a control session.                               *)
SessionInv ==
    /\ SessionTypeOK
    /\ ActiveWasPromoted /\ ReadyFollowsPromotion
    /\ HandlersExclude /\ ServesWhatItMayRestore
    /\ DrainsAreTrue /\ DrainedConnectorIsEmpty
=============================================================================
