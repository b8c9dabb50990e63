---------------------------- MODULE MCConnector ----------------------------
(* The three models of internal/connectorprotocol and the certificate registry *)
(* share no state. One run checks all of them: `part` picks one, and the       *)
(* others stay at their initial states, so the state space is their sum.       *)
EXTENDS CredentialRotation, ConnectorSession, ConnectorLease, CertificateRegistry, TLC

CONSTANTS
    c1, c2              \* connectors of the rotation plan

VARIABLE part

BothTargets == {c1, c2}
Interchangeable == Permutations(BothTargets)
TwoProcesses == 1..2
OldProcess == {1}
ShortAndLong == {[credential |-> 2, lease |-> 2], [credential |-> 4, lease |-> 4]}

(* A host renewed by its own domain, wanted by a preview of another domain     *)
(* whose lease is renewed, and under an on-demand wildcard; one certificate    *)
(* expires within the clock.                                                   *)
Target(kind, domain, lease, host, dem, cgen, until) ==
    [kind |-> kind, domain |-> domain, lease |-> lease, host |-> host, onDemand |-> dem,
     dgen |-> 1, cgen |-> cgen, agen |-> 1, until |-> until]
BindingsMC ==
    {Target("durable_route", 1, 0, "a", FALSE, 1, 0), Target("durable_route", 1, 0, "a", FALSE, 2, 0),
     Target("preview_lease", 2, 1, "a", FALSE, 2, 1), Target("preview_lease", 2, 2, "a", FALSE, 2, 2),
     Target("durable_route", 1, 0, "w", TRUE, 1, 0)}
NotAfterMC == "x" :> 1 @@ "y" :> 3
CertNamesMC == "x" :> {"a"} @@ "y" :> {"a", "w"}
ParentMC == "a" :> "w"

Init ==
    /\ part \in {"rotation", "session", "lease", "certificates"}
    /\ RotationInit /\ SessionInit /\ LeaseInit /\ CertInit

Next ==
    /\ \/ part = "rotation" /\ RotationNext /\ UNCHANGED <<sessionVars, leaseVars, certVars>>
       \/ part = "session" /\ SessionNext /\ UNCHANGED <<rotationVars, leaseVars, certVars>>
       \/ part = "lease" /\ LeaseNext /\ UNCHANGED <<rotationVars, sessionVars, certVars>>
       \/ part = "certificates" /\ CertNext /\ UNCHANGED <<rotationVars, sessionVars, leaseVars>>
    /\ UNCHANGED part

Spec == Init /\ [][Next]_<<rotationVars, sessionVars, leaseVars, certVars, part>>
=============================================================================
