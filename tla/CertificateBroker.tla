------------------------- MODULE CertificateBroker -------------------------
(* The certificate broker of internal/runtime/certificate_broker.go: Start and*)
(* Shutdown, the accept loop, one handler per connection, and the requests for*)
(* an exact certificate that handlers of one name share. The registry it asks*)
(* is seen through what GetCertificate and RequiresExactCertificate tell apart*)
(* (a missing and an expired certificate are handled alike).                 *)
EXTENDS Naturals, FiniteSets

CONSTANTS
    BrokerConns, BrokerNames,
    NoLeader,
    MaximumChoices,         \* values of MaximumConnections
    MaximumDemandCalls

VARIABLES
    leaf, parent,           \* the registry: exact certificate by name, the wildcard
    maximumConnections,
    start, shut, acceptLoop, socket,
    handler,                \* connection -> step, name, exact, leader, answer
    call,                   \* leading connection -> its request
    demand                  \* name -> the connection that leads its request

sourceVars == <<leaf, parent>>
lifeVars == <<maximumConnections, start, shut, acceptLoop, socket>>
brokerVars == <<sourceVars, lifeVars, handler, call, demand>>

Away == [step |-> "away", name |-> NoLeader, exact |-> FALSE, leader |-> NoLeader, answer |-> "none"]
NoCall == [state |-> "none", base |-> "none", cancelled |-> FALSE]

BrokerInit ==
    /\ leaf = [n \in BrokerNames |-> FALSE] /\ parent = "none"
    /\ maximumConnections \in MaximumChoices
    /\ start = "none" /\ shut = "none" /\ acceptLoop = "none" /\ socket = FALSE
    /\ handler = [c \in BrokerConns |-> Away]
    /\ call = [c \in BrokerConns |-> NoCall]
    /\ demand = [n \in BrokerNames |-> NoLeader]

ShutSteps == <<"none", "marked", "cancelled", "undemanded", "unlistened", "returned", "expired">>
Past(step) == \E i, j \in DOMAIN ShutSteps : i <= j /\ ShutSteps[i] = step /\ ShutSteps[j] = shut

brokerClosed == shut # "none"
runCancelled == Past("cancelled")

(* Connections that hold a place of the semaphore and are counted by wg.     *)
Handled == {c \in BrokerConns : handler[c].step \notin {"away", "done"}}

-----------------------------------------------------------------------------
(* Start: the check, net.Listen, and the publication under the lock.         *)
StartChecks ==
    /\ start = "none" /\ start' = IF brokerClosed THEN "failed" ELSE "checked"
    /\ UNCHANGED <<sourceVars, maximumConnections, shut, acceptLoop, socket, handler, call, demand>>

StartListens ==
    /\ start = "checked"
    /\ \/ start' = "bound" /\ socket' = TRUE
       \/ start' = "failed" /\ UNCHANGED socket
    /\ UNCHANGED <<sourceVars, maximumConnections, shut, acceptLoop, handler, call, demand>>

StartPublishes ==
    /\ start = "bound"
    /\ IF brokerClosed THEN start' = "failed" /\ socket' = FALSE /\ UNCHANGED acceptLoop
       ELSE start' = "running" /\ acceptLoop' = "running" /\ UNCHANGED socket
    /\ UNCHANGED <<sourceVars, maximumConnections, shut, handler, call, demand>>

-----------------------------------------------------------------------------
Step(c, step) == handler' = [handler EXCEPT ![c].step = step]
End(c, answer) ==
    handler' = [handler EXCEPT ![c] = [Away EXCEPT !.step = "done", !.answer = answer,
                                                   !.exact = handler[c].exact /\ answer = "wildcard"]]

(* acceptLoop: a place of the semaphore, or the busy answer. The loop tracks a*)
(* connection before it accepts the next.                                    *)
LoopIsFree == acceptLoop = "running" /\ \A c \in BrokerConns : handler[c].step # "accepted"

Accept(c) ==
    /\ LoopIsFree /\ ~Past("unlistened") /\ handler[c].step = "away"
    /\ IF Cardinality(Handled) < maximumConnections THEN Step(c, "accepted") ELSE End(c, "error")
    /\ UNCHANGED <<sourceVars, lifeVars, call, demand>>

(* track refuses a connection that Shutdown would not close.                 *)
Track(c) ==
    /\ handler[c].step = "accepted"
    /\ IF brokerClosed THEN End(c, "none") ELSE Step(c, "reading")
    /\ UNCHANGED <<sourceVars, lifeVars, call, demand>>

(* Accept fails: the listener is closed, or an error ends the loop for good. *)
AcceptFails ==
    /\ LoopIsFree /\ acceptLoop' = "ended"
    /\ UNCHANGED <<sourceVars, maximumConnections, start, shut, socket, handler, call, demand>>

(* handle: the request, within the deadline of the connection.               *)
ReadRequest(c) ==
    /\ handler[c].step = "reading"
    /\ \/ End(c, "error")
       \/ /\ ~runCancelled
          /\ \E n \in BrokerNames : handler' = [handler EXCEPT ![c].step = "matching", ![c].name = n]
    /\ UNCHANGED <<sourceVars, lifeVars, call, demand>>

(* lookupCertificate asks the matcher, and the registry after it.            *)
RequiresExact(c) ==
    /\ handler[c].step = "matching"
    /\ handler' = [handler EXCEPT ![c].step = "looking",
                                  ![c].exact = ~leaf[handler[c].name] /\ parent = "on_demand"]
    /\ UNCHANGED <<sourceVars, lifeVars, call, demand>>

(* GetCertificate of the registry, and which results are good enough: for a  *)
(* name under the policy only a certificate without a wildcard.              *)
Found(c) ==
    IF leaf[handler[c].name] THEN "leaf" ELSE IF parent = "plain" THEN "wildcard" ELSE "none"
Covered(c) == Found(c) = "leaf" \/ (Found(c) = "wildcard" /\ ~handler[c].exact)

(* The registry may be closed by then; a request is not made once the deadline*)
(* is over or the broker is cancelled.                                       *)
LookFirst(c) ==
    /\ handler[c].step = "looking"
    /\ \/ Covered(c) /\ End(c, Found(c))
       \/ ~Covered(c) /\ ~runCancelled /\ Step(c, "asking")
       \/ End(c, "error")
    /\ UNCHANGED <<sourceVars, lifeVars, call, demand>>

LookAgain(c) ==
    /\ handler[c].step = "again"
    /\ \/ Covered(c) /\ End(c, Found(c))
       \/ End(c, "error")
    /\ UNCHANGED <<sourceVars, lifeVars, call, demand>>

-----------------------------------------------------------------------------
CallsOf(known) == Cardinality({n \in BrokerNames : known[n] # NoLeader})
Answered == {n \in BrokerNames : demand[n] # NoLeader /\ call[demand[n]].state = "answered"}

(* requestOnDemand, from the lock to the registration of the call. A request *)
(* that succeeded is remembered for the timeout of the broker. Without a run *)
(* context the call is bound to nothing.                                     *)
Lead(c, known) ==
    /\ CallsOf(known) < MaximumDemandCalls
    /\ demand' = [known EXCEPT ![handler[c].name] = c]
    /\ call' = [call EXCEPT ![c] = [state |-> "open", cancelled |-> FALSE,
                                    base |-> IF brokerClosed THEN "none" ELSE "run"]]
    /\ Step(c, "leading")

Follow(c, known) ==
    /\ handler' = [handler EXCEPT ![c].step = "following", ![c].leader = known[handler[c].name]]
    /\ demand' = known /\ UNCHANGED call

Demand(c) ==
    /\ handler[c].step = "asking"
    /\ \E aged \in SUBSET Answered :
        LET known == [n \in BrokerNames |-> IF n \in aged THEN NoLeader ELSE demand[n]]
        IN  \/ known[handler[c].name] # NoLeader /\ Follow(c, known)
            \/ /\ known[handler[c].name] = NoLeader
               /\ CallsOf(known) >= MaximumDemandCalls \/ brokerClosed
               /\ End(c, "error") /\ demand' = known /\ UNCHANGED call
            \/ known[handler[c].name] = NoLeader /\ ~brokerClosed /\ Lead(c, known)
    /\ UNCHANGED <<sourceVars, lifeVars>>

(* RequestCertificate of the control plane returns to the leader: a failure  *)
(* is forgotten at once.                                                     *)
LeadSucceeds(c) ==
    /\ handler[c].step = "leading" /\ Step(c, "again")
    /\ call' = [call EXCEPT ![c].state = "answered"]
    /\ UNCHANGED <<sourceVars, lifeVars, demand>>

(* A request without a timeout of its own: a mutant.                           *)
LeadFailsWhenCancelled(c) ==
    /\ call[c].cancelled /\ handler[c].step = "leading" /\ End(c, "error")
    /\ call' = [call EXCEPT ![c].state = "failed"]
    /\ demand' = [demand EXCEPT ![handler[c].name] = NoLeader]
    /\ UNCHANGED <<sourceVars, lifeVars>>

LeadFails(c) ==
    /\ handler[c].step = "leading" /\ End(c, "error")
    /\ call' = [call EXCEPT ![c].state = "failed"]
    /\ demand' = [demand EXCEPT ![handler[c].name] = NoLeader]
    /\ UNCHANGED <<sourceVars, lifeVars>>

FollowReturns(c) ==
    /\ handler[c].step = "following"
    /\ \/ call[handler[c].leader].state = "answered" /\ Step(c, "again")
       \/ call[handler[c].leader].state = "failed" /\ End(c, "error")
    /\ UNCHANGED <<sourceVars, lifeVars, call, demand>>

(* The deadline of the follower's own handshake, or the end of the broker.   *)
FollowGivesUp(c) ==
    /\ handler[c].step = "following" /\ End(c, "error")
    /\ UNCHANGED <<sourceVars, lifeVars, call, demand>>

-----------------------------------------------------------------------------
(* Shutdown: closed and the connections under the lock, the run context, the *)
(* calls, the listener (which removes its socket), and the wait for the      *)
(* handlers, which the context of the caller may cut short.                  *)
ShutTo(from, to) == shut = from /\ shut' = to
onlyShut == <<sourceVars, maximumConnections, start, acceptLoop, handler, demand>>

ShutMarks == ShutTo("none", "marked") /\ UNCHANGED <<onlyShut, socket, call>>
ShutCancels == ShutTo("marked", "cancelled") /\ UNCHANGED <<onlyShut, socket, call>>
ShutCancelsCalls ==
    /\ ShutTo("cancelled", "undemanded")
    /\ call' = [c \in BrokerConns |-> [call[c] EXCEPT !.cancelled = \E n \in BrokerNames : demand[n] = c]]
    /\ UNCHANGED <<onlyShut, socket>>
ShutUnlistens ==
    /\ ShutTo("undemanded", "unlistened")
    /\ socket' = IF start = "running" THEN FALSE ELSE socket
    /\ UNCHANGED <<onlyShut, call>>
(* Shutdown that does not wait: a mutant.                                      *)
ShutReturnsEarly ==
    /\ ShutTo("unlistened", "returned") /\ socket' = FALSE /\ UNCHANGED <<onlyShut, call>>
ShutReturns ==
    /\ ShutTo("unlistened", "returned")
    /\ acceptLoop # "running" /\ Handled = {}
    /\ socket' = FALSE
    /\ UNCHANGED <<onlyShut, call>>
ShutExpires == ShutTo("unlistened", "expired") /\ UNCHANGED <<onlyShut, socket, call>>

(* What the distribution worker does to the registry.                        *)
Redistribute ==
    /\ \/ \E n \in BrokerNames : leaf' = [leaf EXCEPT ![n] = ~@] /\ UNCHANGED parent
       \/ \E p \in {"none", "plain", "on_demand"} : parent' = p /\ UNCHANGED leaf
    /\ UNCHANGED <<lifeVars, handler, call, demand>>

Handle(c) ==
    \/ Track(c) \/ ReadRequest(c) \/ RequiresExact(c) \/ LookFirst(c) \/ Demand(c)
    \/ FollowReturns(c) \/ FollowGivesUp(c) \/ LookAgain(c)
ShutdownGoesOn == ShutCancels \/ ShutCancelsCalls \/ ShutUnlistens \/ ShutReturns

BrokerNext ==
    \/ StartChecks \/ StartListens \/ StartPublishes
    \/ AcceptFails \/ ShutMarks \/ ShutdownGoesOn \/ ShutExpires \/ Redistribute
    \/ \E c \in BrokerConns : Accept(c) \/ Handle(c) \/ LeadSucceeds(c) \/ LeadFails(c)

(* Handlers and Shutdown go on; the call of a leader ends with its timeout at*)
(* the latest, and a closed listener ends the accept loop.                   *)
BrokerFairness ==
    /\ \A c \in BrokerConns : WF_brokerVars(Handle(c)) /\ WF_brokerVars(LeadFails(c))
    /\ WF_brokerVars(ShutdownGoesOn)
    /\ WF_brokerVars(AcceptFails /\ Past("unlistened"))

BrokerSpec == BrokerInit /\ [][BrokerNext]_brokerVars /\ BrokerFairness

-----------------------------------------------------------------------------
HandlerSteps ==
    {"away", "accepted", "reading", "matching", "looking", "asking", "leading", "following", "again", "done"}
Handlers ==
    [step : HandlerSteps, name : BrokerNames \cup {NoLeader}, exact : BOOLEAN,
     leader : BrokerConns \cup {NoLeader}, answer : {"none", "error", "leaf", "wildcard"}]
CallsMade ==
    [state : {"none", "open", "answered", "failed"}, base : {"none", "run"}, cancelled : BOOLEAN]

(* The broker's state has the shape certificate_broker.go gives it.          *)
BrokerTypeOK ==
    /\ handler \in [BrokerConns -> Handlers] /\ call \in [BrokerConns -> CallsMade]
    /\ demand \in [BrokerNames -> BrokerConns \cup {NoLeader}]
    /\ start \in {"none", "checked", "bound", "running", "failed"}
    /\ acceptLoop \in {"none", "running", "ended"} /\ socket \in BOOLEAN
    /\ \E i \in DOMAIN ShutSteps : shut = ShutSteps[i]

(* A name that the matcher marked for an exact certificate is never answered *)
(* with the wildcard, whatever the registry was given between the check, the *)
(* request and the second lookup.                                            *)
MarkedNameIsExact ==
    \A c \in BrokerConns : handler[c].exact => handler[c].answer # "wildcard"

(* No request to the control plane outlives Shutdown's cancellation: a call  *)
(* that is open once the calls were cancelled has a cancelled context.       *)
NoCallOutlivesShutdown ==
    Past("undemanded") =>
        \A c \in BrokerConns : call[c].state = "open" => call[c].base = "run" \/ call[c].cancelled

(* Shutdown that returned without error left no handler, no accept loop and no*)
(* call behind, and no socket unless a Start is still on its way.            *)
ShutdownIsQuiet ==
    shut = "returned" =>
        /\ Handled = {} /\ acceptLoop # "running"
        /\ \A c \in BrokerConns : call[c].state # "open"
        /\ start \notin {"checked", "bound"} => ~socket

(* A request under way has its leader, a socket its Start, an answer is given*)
(* at the end of a handshake, and until then a read request has its name.    *)
CallHasItsLeader == \A c \in BrokerConns : call[c].state = "open" => handler[c].step = "leading"
SocketHasItsStart == socket => start \in {"bound", "running"}
Unread == {"away", "accepted", "reading"}
AnswerEnds ==
    \A c \in BrokerConns :
        handler[c].step # "done" =>
            handler[c].answer = "none" /\ (handler[c].step \notin Unread => handler[c].name \in BrokerNames)

(* The inductive invariant.                                                  *)
BrokerInv ==
    /\ BrokerTypeOK /\ CallHasItsLeader /\ SocketHasItsStart /\ AnswerEnds
    /\ MarkedNameIsExact /\ ShutdownIsQuiet

(* Every accepted handshake is answered or closed, even when the control plane*)
(* never answers the request that its name waits for.                        *)
HandshakeEnds ==
    \A c \in BrokerConns : handler[c].step # "away" ~> handler[c].step = "done"

(* Shutdown returns: nothing it waits for waits for something else.          *)
BrokerShutdownEnds == shut = "marked" ~> shut \in {"returned", "expired"}
=============================================================================
