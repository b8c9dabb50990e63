------------------------------ MODULE MCGateway ------------------------------
(* What stands between a request and its carrier, each part alone: the         *)
(* attachment registry, the admission journal, the FRP adapter over both, the  *)
(* route matcher, the two ends of a data carrier, the ingress decisions, the   *)
(* public TCP sockets and the certificate broker; and the node they run on.    *)
(* `part` is the one whose steps a behaviour takes.                            *)
EXTENDS FrpAdapter, RouteMatcher, CarrierStreams, IngressAuthority, TCPListeners,
        CertificateBroker, NodeManager, TLC

CONSTANTS e1, e2, h1    \* calls of the edge and of the host

VARIABLE part

(* Two logins of one connector; the third request repeats the operation of the *)
(* first and the credential of the second, and is refused at its last route    *)
(* while the first is attached.                                                *)
Attachment(i, r, h) == [id |-> i, revision |-> r, generation |-> 1, host |-> h, preview |-> ""]
Asks(o, j, c, rs) == [op |-> o, jti |-> j, connector |-> c, routes |-> rs]
RequestsMC == <<Asks(1, 1, 1, <<Attachment(1, 1, 1)>>), Asks(2, 2, 1, <<Attachment(1, 1, 1)>>),
                Asks(1, 2, 2, <<Attachment(2, 1, 2), Attachment(3, 1, 1)>>)>>

(* Rules that tie, that differ in one criterion, and that are disabled.        *)
Rule(n, t, h, p, o, e) == [id |-> n, type |-> t, host |-> h, path |-> p, priority |-> o, enabled |-> e]
RulesMC ==
    {Rule(1, "exact", <<1, 2, 3>>, <<>>, 1, TRUE), Rule(2, "exact", <<1, 2, 3>>, <<1>>, 2, TRUE),
     Rule(3, "exact", <<1, 2, 3>>, <<1>>, 1, FALSE), Rule(4, "exact", <<1, 2, 3>>, <<1>>, 2, TRUE),
     Rule(5, "wildcard", <<2, 3>>, <<>>, 1, TRUE), Rule(6, "wildcard", <<2, 3>>, <<1>>, 2, TRUE),
     Rule(7, "wildcard", <<2, 3>>, <<1>>, 2, TRUE), Rule(8, "wildcard", <<2, 3>>, <<>>, 2, TRUE),
     Rule(9, "wildcard", <<1, 2, 3>>, <<>>, 1, TRUE), Rule(10, "catch_all", <<>>, <<>>, 1, TRUE),
     Rule(11, "catch_all", <<>>, <<1>>, 1, TRUE), Rule(12, "catch_all", <<>>, <<2>>, 1, TRUE)}
HostsMC == {<<1, 2, 3>>, <<4, 2, 3>>, <<5, 1, 2, 3>>}
PathsMC == {<<>>, <<1>>, <<1, 2>>}

(* Two calls of the edge for one request; the host opens an access stream or a *)
(* control stream. The edge's two names also serve as connectors, streams and  *)
(* drains of the node.                                                         *)
TwoOfEach == {e1, e2}
SidesMC == e1 :> "edge" @@ e2 :> "edge" @@ h1 :> "host"
KindsMC == e1 :> {"data"} @@ e2 :> {"data"} @@ h1 :> {"access", "control"}
KeysMC == e1 :> 1 @@ e2 :> 1 @@ h1 :> 2
LimitsMC == [edge |-> 2, host |-> 2]
(* Tables of up to two attachments.                                            *)
TablesMC == {{a, b} : a, b \in BoundedAttachments} \cup {{}}
CallSymmetry == Permutations(TwoOfEach)

(* A forwarded TCP connection and a browser's request.                         *)
PublicationMC == <<1, 2>>
ConnKindMC == <<"tcp", "browser">>

(* A listener that moves to the port another one wants.                        *)
Decision(i, p, g) == [id |-> i, port |-> p, gen |-> g]
DecisionsMC == {Decision(1, 1, 1), Decision(1, 2, 2), Decision(2, 2, 1)}

frpOnly == <<sessions, resumes, partial, detaching, users>>
routingVars == <<journalVars, registry, frpOnly>>
edgeVars == <<matcherVars, carrierVars, ingressVars>>
others == <<edgeVars, tcpVars, brokerVars, vars>>

GatewayInit ==
    /\ part \in {"routes", "journal", "frp", "matcher", "carrier", "ingress", "tcp", "broker", "node"}
    /\ JournalInit /\ FrpInit /\ MatcherInit /\ CarrierInit /\ IngressInit
    /\ TcpInit /\ BrokerInit /\ (maximumConnections = 2 \/ part = "broker") /\ Init

RoutesPart == part = "routes" /\ RoutesNext /\ UNCHANGED <<part, journalVars, frpOnly, others>>
JournalPart == part = "journal" /\ JournalNext /\ UNCHANGED <<part, registry, frpOnly, others>>
FrpPart == part = "frp" /\ FrpNext /\ UNCHANGED <<part, others>>
MatcherPart ==
    /\ part = "matcher" /\ MatcherNext
    /\ UNCHANGED <<part, routingVars, carrierVars, ingressVars, tcpVars, brokerVars, vars>>
CarrierPart ==
    /\ part = "carrier" /\ CarrierNext
    /\ UNCHANGED <<part, routingVars, matcherVars, ingressVars, tcpVars, brokerVars, vars>>
IngressPart ==
    /\ part = "ingress" /\ IngressNext
    /\ UNCHANGED <<part, routingVars, matcherVars, carrierVars, tcpVars, brokerVars, vars>>
TcpPart ==
    part = "tcp" /\ TcpNext /\ UNCHANGED <<part, routingVars, edgeVars, brokerVars, vars>>
BrokerPart ==
    part = "broker" /\ BrokerNext /\ UNCHANGED <<part, routingVars, edgeVars, tcpVars, vars>>
NodePart ==
    part = "node" /\ Next /\ UNCHANGED <<part, routingVars, edgeVars, tcpVars, brokerVars>>

GatewayNext ==
    \/ RoutesPart \/ JournalPart \/ FrpPart \/ MatcherPart \/ CarrierPart \/ IngressPart
    \/ TcpPart \/ BrokerPart \/ NodePart

GatewaySpec == GatewayInit /\ [][GatewayNext]_<<part, routingVars, others>>

(* In the adapter, every attachment has a session that holds it, a detach on   *)
(* its way to it, or was left over by a login that was refused.                *)
AdapterHoldsItsRoutes == part = "frp" => RoutesAreHeld
=============================================================================
