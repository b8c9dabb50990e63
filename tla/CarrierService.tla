--------------------------- MODULE CarrierService ---------------------------
(* Who owns a carrier: the HTTPService of internal/datacarrier/http_carrier.go *)
(* admits a peer, creates its Server and queues it; the CarrierAssembly of     *)
(* internal/runtime/carrier_assembly.go takes it from the queue and runs its   *)
(* handler. Shutdown closes the service and waits for the accept loop and for  *)
(* the handlers. Authentication of a peer is not part of the state.            *)
EXTENDS Naturals, Sequences, FiniteSets

CONSTANTS
    Peers, NoPeer,
    PeerQueue,          \* QueueDepth: admissions, and servers waiting in the queue
    MaximumHandlers

ASSUME ServiceAssumption == NoPeer \notin Peers

VARIABLES
    peers,              \* per peer: where its request is, its Server, its handler
    service,            \* HTTPService.Close: "open", "done", "closed"
    queue,              \* HTTPService.accepted
    assembly            \* the accept loop, its peer, the run context, Shutdown

serviceVars == <<peers, service, queue, assembly>>

NewPeer == [pc |-> "none", server |-> "none", request |-> TRUE, handler |-> "none"]

ServiceInit ==
    /\ peers = [p \in Peers |-> NewPeer]
    /\ service = "open" /\ queue = <<>>
    /\ assembly = [loop |-> "accept", peer |-> NoPeer, canceled |-> FALSE, shutdown |-> "no"]

AdmittedPeers == {p \in Peers : peers[p].pc \in {"created", "tracked", "waiting"}}
Handling == {p \in Peers : peers[p].handler = "running"}

-----------------------------------------------------------------------------
(* HTTPService.handler up to NewServer.                                        *)
AdmitPeer(p) ==
    /\ peers[p].pc = "none" /\ service = "open"
    /\ Cardinality(AdmittedPeers) < PeerQueue
    /\ peers' = [peers EXCEPT ![p].pc = "created", ![p].server = "open"]
    /\ UNCHANGED <<service, queue, assembly>>

(* The server is tracked, or the service is already done.                      *)
TrackPeer(p) ==
    /\ peers[p].pc = "created"
    /\ peers' = IF service = "open" THEN [peers EXCEPT ![p].pc = "tracked"]
                ELSE [peers EXCEPT ![p].pc = "gone", ![p].server = "closed"]
    /\ UNCHANGED <<service, queue, assembly>>

QueuePeer(p) ==
    /\ peers[p].pc = "tracked"
    /\ \/ /\ Len(queue) < PeerQueue
          /\ queue' = Append(queue, p)
          /\ peers' = [peers EXCEPT ![p].pc = "waiting"]
       \/ /\ service # "open"
          /\ peers' = [peers EXCEPT ![p].pc = "waiting", ![p].server = "closed"]
          /\ UNCHANGED queue
    /\ UNCHANGED <<service, assembly>>

(* The request stays until the server is done, the request or the service.     *)
ForgetPeer(p) ==
    /\ peers[p].pc = "waiting"
    /\ peers[p].server = "closed" \/ ~peers[p].request \/ service # "open"
    /\ peers' = [peers EXCEPT ![p].pc = "gone", ![p].server = "closed"]
    /\ UNCHANGED <<service, queue, assembly>>

(* The peer goes away: its request ends, or its session.                       *)
PeerLeaves(p) ==
    /\ peers[p].server = "open" /\ peers[p].request
    /\ \/ peers' = [peers EXCEPT ![p].request = FALSE]
       \/ peers' = [peers EXCEPT ![p].server = "closed"]
    /\ UNCHANGED <<service, queue, assembly>>

(* Close: done and the context first, then every tracked server.               *)
ServiceDone ==
    /\ service = "open" /\ assembly.shutdown = "canceled"
    /\ service' = "done"
    /\ UNCHANGED <<peers, queue, assembly>>

CloseServers ==
    /\ service = "done"
    /\ service' = "closed"
    /\ peers' = [p \in Peers |-> IF peers[p].pc \in {"tracked", "waiting"}
                                 THEN [peers[p] EXCEPT !.server = "closed"] ELSE peers[p]]
    /\ UNCHANGED <<queue, assembly>>

-----------------------------------------------------------------------------
(* CarrierAssembly.acceptLoop. A select with several ready cases takes any.    *)
LoopAcceptsPeer ==
    /\ assembly.loop = "accept" /\ queue # <<>>
    /\ assembly' = [assembly EXCEPT !.loop = "slot", !.peer = Head(queue)]
    /\ queue' = Tail(queue)
    /\ UNCHANGED <<peers, service>>

LoopRetries ==
    /\ assembly.loop = "accept" /\ (assembly.canceled \/ service # "open")
    /\ UNCHANGED serviceVars

LoopStops ==
    /\ assembly.loop = "accept" /\ (assembly.canceled \/ service # "open")
    /\ assembly' = [assembly EXCEPT !.loop = "done"]
    /\ UNCHANGED <<peers, service, queue>>

StartHandler ==
    /\ assembly.loop = "slot"
    /\ \/ /\ Cardinality(Handling) < MaximumHandlers
          /\ peers' = [peers EXCEPT ![assembly.peer].handler = "running"]
          /\ assembly' = [assembly EXCEPT !.loop = "accept", !.peer = NoPeer]
       \/ /\ assembly.canceled
          /\ peers' = [peers EXCEPT ![assembly.peer].server = "closed"]
          /\ assembly' = [assembly EXCEPT !.loop = "done", !.peer = NoPeer]
    /\ UNCHANGED <<service, queue>>

(* The handler returns when its server or the context is done, or with an      *)
(* error; its server is closed.                                                *)
EndHandler(p) ==
    /\ peers[p].handler = "running"
    /\ peers' = [peers EXCEPT ![p].handler = "ended", ![p].server = "closed"]
    /\ UNCHANGED <<service, queue, assembly>>
EndedHandler(p) == EndHandler(p) /\ (peers[p].server = "closed" \/ assembly.canceled)

-----------------------------------------------------------------------------
(* Shutdown: cancel, close the service, wait for the loop, then for the        *)
(* handlers. The wait may also end with the caller's context.                  *)
CancelAssembly ==
    /\ assembly.shutdown = "no"
    /\ assembly' = [assembly EXCEPT !.canceled = TRUE, !.shutdown = "canceled"]
    /\ UNCHANGED <<peers, service, queue>>

AwaitNothing ==
    /\ assembly.shutdown = "canceled" /\ service = "closed"
    /\ assembly' = [assembly EXCEPT !.shutdown = "returned"]
    /\ UNCHANGED <<peers, service, queue>>

AwaitHandlers ==
    /\ assembly.shutdown = "canceled" /\ service = "closed"
    /\ assembly.loop = "done" /\ Handling = {}
    /\ assembly' = [assembly EXCEPT !.shutdown = "returned"]
    /\ UNCHANGED <<peers, service, queue>>

ShutdownTimesOut ==
    /\ assembly.shutdown = "canceled" /\ service = "closed"
    /\ assembly' = [assembly EXCEPT !.shutdown = "late"]
    /\ UNCHANGED <<peers, service, queue>>

ServiceNext ==
    \/ \E p \in Peers : \/ AdmitPeer(p) \/ TrackPeer(p) \/ QueuePeer(p) \/ ForgetPeer(p)
                        \/ PeerLeaves(p) \/ EndHandler(p)
    \/ LoopAcceptsPeer \/ LoopStops \/ StartHandler
    \/ CancelAssembly \/ ServiceDone \/ CloseServers \/ AwaitHandlers \/ ShutdownTimesOut

(* The goroutines of the requests, the handlers, the loop and Shutdown run; a  *)
(* handler returns once its server or its context is done. Peers and callers   *)
(* promise nothing.                                                            *)
ServiceFairness ==
    /\ \A p \in Peers : /\ WF_serviceVars(TrackPeer(p) \/ QueuePeer(p) \/ ForgetPeer(p))
                        /\ WF_serviceVars(EndedHandler(p))
    /\ WF_serviceVars(LoopAcceptsPeer \/ LoopStops \/ StartHandler)
    /\ WF_serviceVars(ServiceDone \/ CloseServers \/ AwaitHandlers)

ServiceSpec == ServiceInit /\ [][ServiceNext]_serviceVars /\ ServiceFairness

-----------------------------------------------------------------------------
(* The channels and semaphores keep to their sizes: admissions and the queue   *)
(* of http_carrier.go, and the handlers of carrier_assembly.go.                *)
ServiceTypeOK ==
    /\ Cardinality(AdmittedPeers) <= PeerQueue /\ Len(queue) <= PeerQueue
    /\ Cardinality(Handling) <= MaximumHandlers

(* HTTPService.Close and the check of done under serversMu: once Close has     *)
(* returned, a server that is open is one whose request has yet to find the    *)
(* service done; it is never queued or handled.                                *)
ClosedServiceOwnsNothing ==
    service = "closed" =>
        \A p \in Peers : peers[p].server = "open" => peers[p].pc = "created" /\ peers[p].handler = "none"

PeerRecords ==
    [pc : {"none", "created", "tracked", "waiting", "gone"}, server : {"none", "open", "closed"},
     request : BOOLEAN, handler : {"none", "running", "ended"}]

AssemblyRecords ==
    [loop : {"accept", "slot", "done"}, peer : Peers \cup {NoPeer}, canceled : BOOLEAN,
     shutdown : {"no", "canceled", "returned", "late"}]

(* A server stays tracked until its request forgets it, closed; only a queued  *)
(* peer reaches the loop and a handler; a loop that holds a slot holds a peer. *)
PeersAreOwned ==
    /\ peers \in [Peers -> PeerRecords]
    /\ assembly \in AssemblyRecords /\ service \in {"open", "done", "closed"}
    /\ queue \in Seq(Peers)
    /\ \A p \in Peers :
        /\ peers[p].pc = "none" => peers[p].server = "none"
        /\ peers[p].pc = "gone" => peers[p].server = "closed"
        /\ peers[p].handler # "none" => peers[p].pc \in {"waiting", "gone"}
    /\ \A i \in 1..Len(queue) : peers[queue[i]].pc \in {"waiting", "gone"}
    /\ assembly.loop = "slot" => assembly.peer \in Peers /\ peers[assembly.peer].pc \in {"waiting", "gone"}
    /\ service = "closed" =>
        \A p \in Peers : peers[p].pc \in {"tracked", "waiting"} => peers[p].server = "closed"
    /\ assembly.shutdown = "returned" => service = "closed"

(* CarrierAssembly.Shutdown: when it returns without an error no handler runs, *)
(* none will be started, and every server the loop took is closed.             *)
ShutdownLeavesNoHandler ==
    assembly.shutdown = "returned" =>
        /\ Handling = {} /\ assembly.loop = "done"
        /\ \A p \in Peers : peers[p].pc \in {"tracked", "waiting"} => peers[p].server = "closed"

(* The inductive invariant.                                                    *)
ServiceInv == PeersAreOwned /\ ShutdownLeavesNoHandler

(* Shutdown returns: the accept loop and every handler see the cancelled       *)
(* context.                                                                    *)
CarrierShutdownReturns == assembly.shutdown = "canceled" ~> assembly.shutdown \in {"returned", "late"}
=============================================================================
