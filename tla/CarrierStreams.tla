--------------------------- MODULE CarrierStreams ---------------------------
(* The two ends of one data carrier, internal/datacarrier/carrier.go and       *)
(* access_stream.go: the edge's Server and the host's Client over one session. *)
(* A call that opens a stream takes a permit and an opening slot, waits for    *)
(* the session, writes the preface and hands out the stream; a call that is    *)
(* cancelled leaves a goroutine behind that gives both back. The far end       *)
(* accepts the stream in its accept loop. The edge also accepts streams that   *)
(* the host opens: the access streams of the private access bridge             *)
(* (internal/edgehttp/private_access_stream.go) and the control stream.        *)
EXTENDS Integers, Sequences, FiniteSets

CONSTANTS
    Calls,              \* calls of OpenStream and OpenControlStream
    SideOf,             \* the end that makes the call
    KindsOf,            \* what it may open: "data", "access", "control"
    KeyOf,              \* session and request identity of the stream
    Nobody, Aborted,    \* no stream; a control stream that was closed before it was installed
    MaximumStreams, CarrierQueue, BridgeMaximum,
    MaxControls         \* bound: control streams accepted

Sides == {"edge", "host"}
otherSide(side) == IF side = "edge" THEN "host" ELSE "edge"

ASSUME CallsAssumption ==
    IsFiniteSet(Calls) /\ SideOf \in [Calls -> Sides] /\ Nobody \notin Calls /\ Aborted \notin Calls

VARIABLES
    ends,               \* per end: done, permits, openings, active
    opens,              \* per call: where it is, whether its context is live
    far,                \* per call: what the accepting end holds of its stream
    loop,               \* Client.acceptLoop: where it is, and its stream
    published,          \* Client.accepted: streams, and Nobody for an error
    requests,           \* Client.requests
    serve,              \* Serve and AcceptAccessStream of the edge
    control             \* Server.control, controlOpening, the accepting call, the permits kept

carrierVars == <<ends, opens, far, loop, published, requests, serve, control>>

NewEnd == [done |-> FALSE, permits |-> 0, openings |-> 0, active |-> 0]

CarrierInit ==
    /\ ends = [s \in Sides |-> NewEnd]
    /\ opens = [c \in Calls |-> [pc |-> "idle", live |-> TRUE, preface |-> FALSE]]
    /\ far = [c \in Calls |-> "none"]
    /\ loop = [pc |-> "accept", stream |-> Nobody]
    /\ published = <<>> /\ requests = {}
    /\ serve = [pc |-> "loop", stream |-> Nobody]
    /\ control = [slot |-> Nobody, pc |-> "idle", stream |-> Nobody, live |-> TRUE, accepted |-> 0]

-----------------------------------------------------------------------------
(* The permits and the opening slots of one end.                               *)
TakesPermit(s) == [ends EXCEPT ![s].permits = @ + 1, ![s].active = @ + 1]
HasPermit(s) == ~ends[s].done /\ ends[s].permits < MaximumStreams[s]

releasePermit(e, s) ==
    [e EXCEPT ![s].permits = IF @ > 0 THEN @ - 1 ELSE @,
              ![s].active = IF s = "host" /\ e[s].done THEN @ ELSE @ - 1]

FreesOpening(s) == [ends EXCEPT ![s].openings = @ - 1]

Put(c, pc) == opens' = [opens EXCEPT ![c].pc = pc]
Idle(c) == opens' = [opens EXCEPT ![c] = [pc |-> "idle", live |-> TRUE, preface |-> FALSE]]

(* openRaw: the permit is taken or the call is refused at once.                *)
Reserve(c) ==
    /\ opens[c].pc = "idle" /\ far[c] = "none" /\ HasPermit(SideOf[c])
    /\ ends' = TakesPermit(SideOf[c])
    /\ Put(c, "permit")
    /\ UNCHANGED <<far, loop, published, requests, serve, control>>

(* Only the opening slot is waited for.                                        *)
TakeOpening(c) ==
    LET s == SideOf[c]
    IN  /\ opens[c].pc = "permit"
        /\ \/ /\ ends[s].openings < CarrierQueue
              /\ ends' = [ends EXCEPT ![s].openings = @ + 1]
              /\ Put(c, "dialing")
           \/ /\ ends[s].done \/ ~opens[c].live
              /\ ends' = releasePermit(ends, s)
              /\ Idle(c)
        /\ UNCHANGED <<far, loop, published, requests, serve, control>>

(* The session's answer: the stream is in the far end's backlog, or an error.  *)
Opened(c) ==
    LET s == SideOf[c]
    IN  /\ opens[c].pc = "dialing"
        /\ \/ /\ ~ends["edge"].done /\ ~ends["host"].done
              /\ far' = [far EXCEPT ![c] = "backlog"]
              /\ IF opens[c].live
                    THEN Put(c, "raw") /\ ends' = FreesOpening(s)
                    ELSE Idle(c) /\ ends' = releasePermit(FreesOpening(s), s)
           \/ /\ Idle(c) /\ ends' = releasePermit(FreesOpening(s), s)
              /\ UNCHANGED far
        /\ UNCHANGED <<loop, published, requests, serve, control>>

(* The call is cancelled: it returns, and finishCanceledOpen stays behind.     *)
CancelOpen(c) ==
    /\ opens[c].pc = "dialing" /\ (ends[SideOf[c]].done \/ ~opens[c].live)
    /\ Put(c, "canceled")
    /\ UNCHANGED <<ends, far, loop, published, requests, serve, control>>

CancelLosesPermit(c) ==
    /\ opens[c].pc = "canceled"
    /\ Idle(c) /\ ends' = FreesOpening(SideOf[c])
    /\ UNCHANGED <<far, loop, published, requests, serve, control>>

finishCanceledOpen(c) ==
    LET s == SideOf[c]
    IN  /\ opens[c].pc = "canceled"
        /\ Idle(c) /\ ends' = releasePermit(FreesOpening(s), s)
        /\ \/ UNCHANGED far
           \/ ~ends["edge"].done /\ ~ends["host"].done /\ far' = [far EXCEPT ![c] = "backlog"]
        /\ UNCHANGED <<loop, published, requests, serve, control>>

(* writeStreamOpen, which a control stream does not have. A context that ends  *)
(* from here on makes it fail.                                                 *)
WritePreface(c) ==
    /\ opens[c].pc = "raw"
    /\ \/ /\ \E kind \in KindsOf[c] :
                opens' = [opens EXCEPT ![c].pc = "live", ![c].preface = kind # "control"]
          /\ UNCHANGED ends
       \/ /\ KindsOf[c] # {"control"}
          /\ Idle(c) /\ ends' = releasePermit(ends, SideOf[c])
    /\ UNCHANGED <<far, loop, published, requests, serve, control>>

(* Close or the cancelled lifetime, whichever is first: closeOnce.             *)
EndOpened(c) ==
    /\ opens[c].pc = "live"
    /\ Idle(c) /\ ends' = releasePermit(ends, SideOf[c])
    /\ UNCHANGED <<far, loop, published, requests, serve, control>>

ContextDone(c) ==
    /\ opens[c].pc \in {"permit", "dialing"} /\ opens[c].live
    /\ opens' = [opens EXCEPT ![c].live = FALSE]
    /\ UNCHANGED <<ends, far, loop, published, requests, serve, control>>

-----------------------------------------------------------------------------
(* Client.acceptLoop and the host's AcceptStream.                              *)
Backlog(side) == {c \in Calls : far[c] = "backlog" /\ SideOf[c] # side}

LoopAccepts(c) ==
    /\ loop.pc = "accept" /\ c \in Backlog("host") /\ ~ends["host"].done
    /\ IF ends["host"].permits < MaximumStreams["host"]
          THEN /\ ends' = TakesPermit("host") /\ loop' = [pc |-> "read", stream |-> c]
               /\ far' = [far EXCEPT ![c] = "taken"]
          ELSE /\ loop' = [pc |-> "publish", stream |-> Nobody] /\ far' = [far EXCEPT ![c] = "none"]
               /\ UNCHANGED ends
    /\ UNCHANGED <<opens, published, requests, serve, control>>

reserveRequest(key) == key \notin requests

(* The preface, the identity, the authorizer and the request.                  *)
LoopReads ==
    LET c == loop.stream
    IN  /\ loop.pc = "read"
        /\ \/ /\ opens[c].preface /\ reserveRequest(KeyOf[c])
              /\ requests' = requests \cup {KeyOf[c]}
              /\ loop' = [loop EXCEPT !.pc = "publish"]
              /\ UNCHANGED <<ends, far>>
           \/ /\ loop' = [pc |-> "publish", stream |-> Nobody]
              /\ ends' = releasePermit(ends, "host")
              /\ far' = [far EXCEPT ![c] = "none"]
              /\ UNCHANGED requests
        /\ UNCHANGED <<opens, published, serve, control>>

EndHost(c) ==
    /\ ends' = releasePermit(ends, "host")
    /\ requests' = requests \ {KeyOf[c]}
    /\ far' = [far EXCEPT ![c] = "none"]

LoopPublishes ==
    LET c == loop.stream
    IN  /\ loop.pc = "publish"
        /\ loop' = [pc |-> "accept", stream |-> Nobody]
        /\ \/ /\ Len(published) < CarrierQueue
              /\ published' = Append(published, c)
              /\ far' = IF c = Nobody THEN far ELSE [far EXCEPT ![c] = "queued"]
              /\ UNCHANGED <<ends, requests>>
           \/ /\ ends["host"].done
              /\ IF c = Nobody THEN UNCHANGED <<ends, requests, far>> ELSE EndHost(c)
              /\ UNCHANGED published
        /\ UNCHANGED <<opens, serve, control>>

LoopEnds ==
    /\ loop.pc = "accept" /\ ends["host"].done
    /\ loop' = [loop EXCEPT !.pc = "ended"]
    /\ UNCHANGED <<ends, opens, far, published, requests, serve, control>>

HostAccepts ==
    LET c == Head(published)
    IN  /\ published # <<>>
        /\ published' = Tail(published)
        /\ far' = IF c = Nobody THEN far ELSE [far EXCEPT ![c] = "held"]
        /\ UNCHANGED <<ends, opens, loop, requests, serve, control>>

HostEnds(c) ==
    /\ SideOf[c] = "edge" /\ far[c] = "held"
    /\ EndHost(c)
    /\ UNCHANGED <<opens, loop, published, serve, control>>

-----------------------------------------------------------------------------
(* Server.acceptRaw for the private access bridge: Serve accepts one stream    *)
(* after another, and returns, which closes the carrier, on the first error.   *)
Served == {c \in Calls : SideOf[c] = "host" /\ far[c] \in {"open", "serving"}}

ServeAccepts ==
    /\ serve.pc = "loop" /\ Cardinality(Served) < BridgeMaximum
    /\ IF HasPermit("edge")
          THEN ends' = TakesPermit("edge") /\ serve' = [serve EXCEPT !.pc = "wait"]
          ELSE ends' = ends /\ serve' = [serve EXCEPT !.pc = "returned"]
    /\ UNCHANGED <<opens, far, loop, published, requests, control>>

ServeTakes(c) ==
    /\ serve.pc = "wait" /\ c \in Backlog("edge")
    /\ serve' = [pc |-> "preface", stream |-> c]
    /\ far' = [far EXCEPT ![c] = "taken"]
    /\ UNCHANGED <<ends, opens, loop, published, requests, control>>

(* The carrier is done while AcceptStream waits: finishCanceledAccept.         *)
ServeCanceled ==
    /\ serve.pc = "wait" /\ ends["edge"].done
    /\ serve' = [pc |-> "returned", stream |-> Nobody]
    /\ ends' = releasePermit(ends, "edge")
    /\ UNCHANGED <<opens, far, loop, published, requests, control>>

AcceptAccessStream ==
    LET c == serve.stream
    IN  /\ serve.pc = "preface"
        /\ \/ /\ opens[c].preface /\ "access" \in KindsOf[c]
              /\ serve' = [pc |-> "loop", stream |-> Nobody]
              /\ far' = [far EXCEPT ![c] = "open"]
              /\ UNCHANGED ends
           \/ /\ serve' = [pc |-> "returned", stream |-> Nobody]
              /\ far' = [far EXCEPT ![c] = "none"]
              /\ ends' = releasePermit(ends, "edge")
        /\ UNCHANGED <<opens, loop, published, requests, control>>

(* serveStream: the grant is authorized and the target opened, or the stream   *)
(* is answered and closed.                                                     *)
serveStream(c) ==
    /\ c \in Served
    /\ \/ far[c] = "open" /\ far' = [far EXCEPT ![c] = "serving"] /\ UNCHANGED ends
       \/ far' = [far EXCEPT ![c] = "none"] /\ ends' = releasePermit(ends, "edge")
    /\ UNCHANGED <<opens, loop, published, requests, serve, control>>

(* Serve waits for the streams it serves; the carrier handler then returns its *)
(* error, which closes the Server.                                             *)
ServeReturns ==
    /\ serve.pc = "returned" /\ ~ends["edge"].done /\ Served = {}
    /\ ends' = [ends EXCEPT !["edge"].done = TRUE]
    /\ UNCHANGED <<opens, far, loop, published, requests, serve, control>>

-----------------------------------------------------------------------------
(* AcceptControlStream: the slot is reserved, a stream is accepted, wrapped    *)
(* with clearControl and put in the slot.                                      *)
ControlReserves ==
    /\ control.slot = Nobody /\ control.pc = "idle" /\ HasPermit("edge")
    /\ control.accepted < MaxControls
    /\ control' = [control EXCEPT !.pc = "wait", !.live = TRUE]
    /\ ends' = TakesPermit("edge")
    /\ UNCHANGED <<opens, far, loop, published, requests, serve>>

ControlTakes(c) ==
    /\ control.pc = "wait" /\ c \in Backlog("edge")
    /\ control' = [control EXCEPT !.pc = "wrapped", !.stream = c, !.accepted = @ + 1]
    /\ far' = [far EXCEPT ![c] = "held"]
    /\ UNCHANGED <<ends, opens, loop, published, requests, serve>>

(* The context of the call ends: acceptRaw returns the permit, and a wrapped   *)
(* stream is aborted and cleared from the slot.                                *)
ControlContextDone ==
    /\ control.live
    /\ \/ /\ control.pc = "wait"
          /\ control' = [control EXCEPT !.pc = "idle"]
          /\ ends' = releasePermit(ends, "edge")
          /\ UNCHANGED far
       \/ /\ control.pc = "wrapped"
          /\ control' = [control EXCEPT !.live = FALSE, !.slot = Nobody]
          /\ far' = [far EXCEPT ![control.stream] = "none"]
          /\ UNCHANGED ends
    /\ UNCHANGED <<opens, loop, published, requests, serve>>

ControlInstalls ==
    LET c == control.stream
        closing == ends["edge"].done \/ control.slot # Nobody
    IN  /\ control.pc = "wrapped"
        /\ control' = [control EXCEPT !.pc = "idle", !.stream = Nobody,
                                         !.slot = IF closing THEN Nobody
                                                  ELSE IF control.live THEN c ELSE Aborted]
        /\ far' = IF closing /\ control.live THEN [far EXCEPT ![c] = "none"] ELSE far
        /\ UNCHANGED <<ends, opens, loop, published, requests, serve>>

(* The control stream is closed or its context ends: clearControl alone.       *)
ControlEnds ==
    /\ control.slot \in Calls
    /\ control' = [control EXCEPT !.slot = Nobody]
    /\ far' = [far EXCEPT ![control.slot] = "none"]
    /\ UNCHANGED <<ends, opens, loop, published, requests, serve>>

-----------------------------------------------------------------------------
(* Close and the watch of the context; the session tells the other end.        *)
Shutdown(side) ==
    /\ ~ends[side].done
    /\ ends' = [ends EXCEPT ![side].done = TRUE]
    /\ UNCHANGED <<opens, far, loop, published, requests, serve, control>>

(* A stream that nobody accepts goes with the session.                         *)
BacklogEnds(c) ==
    /\ far[c] = "backlog" /\ ends[otherSide(SideOf[c])].done
    /\ far' = [far EXCEPT ![c] = "none"]
    /\ UNCHANGED <<ends, opens, loop, published, requests, serve, control>>

OpenStep(c) == TakeOpening(c) \/ Opened(c) \/ CancelOpen(c) \/ finishCanceledOpen(c)

CarrierNext ==
    \/ \E c \in Calls : \/ Reserve(c) \/ OpenStep(c) \/ WritePreface(c) \/ EndOpened(c) \/ ContextDone(c)
                        \/ LoopAccepts(c) \/ HostEnds(c) \/ ServeTakes(c) \/ serveStream(c)
                        \/ ControlTakes(c) \/ BacklogEnds(c)
    \/ LoopReads \/ LoopPublishes \/ LoopEnds \/ HostAccepts
    \/ ServeAccepts \/ ServeCanceled \/ AcceptAccessStream \/ ServeReturns
    \/ ControlReserves \/ ControlContextDone \/ ControlInstalls \/ ControlEnds
    \/ \E side \in Sides : Shutdown(side)

-----------------------------------------------------------------------------
(* No end has more streams, openings or queued results than it allows.         *)
CarrierTypeOK ==
    /\ \A s \in Sides : /\ ends[s].permits \in 0..MaximumStreams[s]
                        /\ ends[s].openings \in 0..CarrierQueue
    /\ Len(published) <= CarrierQueue

Opening(s) == {c \in Calls : SideOf[c] = s /\ opens[c].pc \in {"permit", "dialing", "canceled", "raw", "live"}}

(* openRaw, acceptRaw, finishCanceledOpen and releasePermit: the edge's permits *)
(* are held by the calls that open a stream, the streams they handed out, the  *)
(* accepting calls, the access streams that are served, and every control      *)
(* stream that was ever accepted; its opening slots by the calls that wait for *)
(* the session, cancelled or not. ActiveStreams counts the same.               *)
EdgePermitsAreHeld ==
    LET e == ends["edge"]
    IN  /\ e.permits = Cardinality(Opening("edge")) + Cardinality(Served)
                       + (IF serve.pc \in {"wait", "preface"} THEN 1 ELSE 0)
                       + (IF control.pc = "wait" THEN 1 ELSE 0) + control.accepted
        /\ e.active = e.permits
        /\ e.openings = Cardinality({c \in Opening("edge") : opens[c].pc \in {"dialing", "canceled"}})

(* acceptLoop and publish: the host's permits are held by its own calls and by *)
(* the streams it read, queued or handed out, and until it is closed its count *)
(* of active streams is that number.                                           *)
HostHolds == {c \in Calls : SideOf[c] = "edge" /\ far[c] \in {"taken", "queued", "held"}}
HostPermitsAreHeld ==
    LET h == ends["host"]
    IN  /\ h.permits = Cardinality(Opening("host")) + Cardinality(HostHolds)
        /\ ~h.done => h.active = h.permits

(* reserveRequest and releaseRequest: two streams of one request are never     *)
(* with the host at once, and a request is reserved exactly while its stream   *)
(* is.                                                                         *)
RequestsAreReserved ==
    LET reserved == {c \in HostHolds : ~(loop.pc = "read" /\ loop.stream = c)}
    IN  /\ requests = {KeyOf[c] : c \in reserved}
        /\ \A c, d \in reserved : KeyOf[c] = KeyOf[d] => c = d

-----------------------------------------------------------------------------
EdgeCalls == {c \in Calls : SideOf[c] = "edge"}
HostCalls == {c \in Calls : SideOf[c] = "host"}

StreamTypes ==
    /\ ends \in [Sides -> [done : BOOLEAN, permits : Int, openings : Int, active : Int]]
    /\ opens \in [Calls -> [pc : {"idle", "permit", "dialing", "canceled", "raw", "live"},
                            live : BOOLEAN, preface : BOOLEAN]]
    /\ far \in [Calls -> {"none", "backlog", "taken", "queued", "held", "open", "serving"}]
    /\ loop \in [pc : {"accept", "read", "publish", "ended"}, stream : EdgeCalls \cup {Nobody}]
    /\ published \in Seq(EdgeCalls \cup {Nobody})
    /\ loop.pc = "read" => loop.stream \in EdgeCalls
    /\ serve \in [pc : {"loop", "wait", "preface", "returned"}, stream : HostCalls \cup {Nobody}]
    /\ control \in [slot : HostCalls \cup {Nobody, Aborted}, pc : {"idle", "wait", "wrapped"},
                    stream : HostCalls \cup {Nobody}, live : BOOLEAN, accepted : Nat]

(* What the accepting end has of a stream of the host, whoever has it: nothing *)
(* before the session opened it, and one holder from then on.                  *)
StreamHasOneHolder ==
    /\ \A c \in HostCalls : opens[c].pc \in {"permit", "dialing", "canceled"} => far[c] = "none"
    /\ serve.pc = "preface" => serve.stream \in HostCalls /\ far[serve.stream] = "taken"
    /\ control.pc = "wrapped" => control.stream \in HostCalls
    /\ control.pc = "wrapped" /\ control.live => far[control.stream] = "held"
    /\ control.slot \in HostCalls => far[control.slot] = "held"
    /\ control.pc # "idle" => control.slot = Nobody

(* The inductive invariant. *)
CarrierInv == StreamTypes /\ StreamHasOneHolder /\ EdgePermitsAreHeld

CarrierSpec == CarrierInit /\ [][CarrierNext]_carrierVars
=============================================================================
