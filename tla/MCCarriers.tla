----------------------------- MODULE MCCarriers -----------------------------
(* The peer relay, peer signaling, the durable routes and the carrier service, *)
(* each alone and under its own fairness. `part` is the one whose steps a      *)
(* behaviour takes. A component in its initial state has no fair step to take, *)
(* so the fairness of the others does not constrain it.                        *)
EXTENDS PeerRelay, PeerSignaling, DurableRoutes, CarrierService

CONSTANTS k1, k2

VARIABLE part

LegsMC == {1, 2, 3}
BindingsMC == {k1, k2}
LapsingMC == {k1}
Leg(k, r) == [binding |-> k, role |-> r]
(* Two legs that pair and a third: a repeated one, or one of another binding.  *)
AdmissionsMC == {<<Leg(k1, "initiator"), Leg(k1, "host"), Leg(k1, "initiator")>>,
                 <<Leg(k1, "initiator"), Leg(k1, "host"), Leg(k2, "host")>>}

AttachmentsMC == {1, 2, 3}
Credential(i, k, r, e, p) == [id |-> i, key |-> k, role |-> r, endpoint |-> e, peer |-> p]
(* Two peers that name each other, and a credential presented again; a peer    *)
(* the first has not named, and a credential of another session.               *)
PresentedMC ==
    LET x == Credential(1, 1, "controlling", 1, 2)
        y == Credential(2, 1, "controlled", 2, 1)
        z == Credential(3, 1, "controlled", 3, 1)
        v == Credential(4, 2, "controlling", 1, 2)
    IN  {<<x, y, x>>, <<x, z, v>>}

(* Two sessions of one identity, of which the second replaces the first, and   *)
(* an identity that has no session here.                                       *)
I1 == [host |-> 1, id |-> 1]
I2 == [host |-> 1, id |-> 2]
IdentitiesMC == {I1}
IdentityOfMC == <<I1, I1>>
Row(i, g, state) == [identity |-> i, route |-> 1, generation |-> g, revision |-> g, state |-> state]
(* A route in a first and a second generation, and draining, and a table with  *)
(* more rows than the registry takes.                                          *)
TablesMC == {{Row(I1, 1, "active")},
             {Row(I1, 2, "staged"), Row(I2, 2, "active")},
             {Row(I1, 2, "draining")},
             {Row(I1, 2, "draining"), Row(I2, 2, "active"),
              [Row(I2, 2, "active") EXCEPT !.route = 2]}}
Rule(v, exact, i) == [route |-> 1, revision |-> v, exact |-> exact, identity |-> i]
RulesMC == {Rule(2, FALSE, I1), Rule(2, TRUE, I1)}

CarriersInit ==
    /\ part \in {"relay", "signaling", "durable", "service"}
    /\ RelayInit /\ SignalingInit /\ DurableInit /\ ServiceInit
    /\ part # "relay" => legs[3].binding = k1
    /\ part # "signaling" => calls[3].admission.id = 1

RelayPart ==
    part = "relay" /\ RelayNext /\ UNCHANGED <<part, signalingVars, durableVars, serviceVars>>
SignalingPart ==
    part = "signaling" /\ SignalingNext /\ UNCHANGED <<part, relayVars, durableVars, serviceVars>>
DurablePart ==
    part = "durable" /\ DurableNext /\ UNCHANGED <<part, relayVars, signalingVars, serviceVars>>
ServicePart ==
    part = "service" /\ ServiceNext /\ UNCHANGED <<part, relayVars, signalingVars, durableVars>>

CarriersNext == RelayPart \/ SignalingPart \/ DurablePart \/ ServicePart

CarriersSpec ==
    /\ CarriersInit /\ [][CarriersNext]_<<part, relayVars, signalingVars, durableVars, serviceVars>>
    /\ RelayFairness /\ SignalingFairness /\ DurableFairness /\ ServiceFairness
=============================================================================
