------------------------- MODULE CredentialRotation -------------------------
(* Credential rotation of internal/connectorprotocol: RotationCoordinator over *)
(* a durable store, the rotation part of the connector's Consumer, and frames *)
(* that may be lost, repeated and reordered. The coordinator holds its mutex  *)
(* across the store call, so an operation is one step with three outcomes: it *)
(* is recorded and applied, the store refuses it, or the process dies between *)
(* the record and the answer. A session is named by its process generation,   *)
(* a replacement key by the nonce of the challenge it was proved for.         *)
EXTENDS Naturals, FiniteSets

CONSTANTS
    Targets,        \* connectors of the plan
    MaxNonce,       \* bound: challenges
    MaxProcess      \* bound: process generations of a connector

ASSUME RotationAssumption == MaxNonce \in Nat /\ MaxProcess \in Nat \ {0} /\ Targets # {}

VARIABLES
    coordinator,    \* RotationCoordinator: started, and the state of every target
    db,             \* what the store has recorded
    connector,      \* each connector: process, keys, what it has done
    wire,           \* frames ever sent: each may arrive late, again or never
    expired,        \* nonces of challenges whose ExpiresAt has passed
    nonce           \* the last challenge nonce handed out

rotationVars == <<coordinator, db, connector, wire, expired, nonce>>

NoRecord == [nonce |-> 0, proc |-> 0]
NoReady == [proc |-> 0, prev |-> 0]
TargetStates == {"pending", "challenged", "installed", "ready", "revoking", "revoked", "failed"}

FreshTarget == [state |-> "pending", challenge |-> NoRecord, install |-> NoRecord,
                ready |-> NoReady, revoke |-> 0]

NewRotationCoordinator ==
    [started |-> FALSE, targets |-> [t \in Targets |-> FreshTarget], finished |-> FALSE]

RotationInit ==
    /\ coordinator = NewRotationCoordinator
    /\ db = [started |-> FALSE,
             challenges |-> [t \in Targets |-> {}],
             installs |-> [t \in Targets |-> NoRecord],
             readiness |-> [t \in Targets |-> NoReady],
             revocations |-> [t \in Targets |-> 0],
             result |-> [t \in Targets |-> "none"],
             succeeded |-> FALSE]
    /\ connector = [t \in Targets |-> [proc |-> 1, key |-> 0, install |-> NoRecord,
                                       readied |-> FALSE, revoked |-> FALSE]]
    /\ wire = {}
    /\ expired = {}
    /\ nonce = 0

(* Frames that have passed Validate, which refuses any whose fields disagree.  *)
Frame(type, t, proc, prev, n) == [type |-> type, to |-> t, proc |-> proc, prev |-> prev, nonce |-> n]
RotationChallenge(t, c) == Frame("challenge", t, c.proc, 0, c.nonce)
RotationProof(t, m) == Frame("proof", t, m.proc, 0, m.nonce)
RotationInstall(t, proof) == Frame("install", t, proof.proc, 0, proof.nonce)
RotationReady(t, proc, prev, n) == Frame("ready", t, proc, prev, n)
RotationRevoke(t, proc) == Frame("revoke", t, proc, 0, 0)
RotationAck(status, t, proc) == Frame(status, t, proc, 0, 0)
Received(type, t) == {m \in wire : m.type = type /\ m.to = t}

states == [t \in Targets |-> coordinator.targets[t].state]

summaryLocked(s) ==
    IF \E t \in Targets : s[t] = "failed" THEN "failed"
    ELSE IF \A t \in Targets : s[t] = "revoked" THEN "succeeded" ELSE "pending"

allInstalled == \A t \in Targets : states[t] \in {"installed", "ready", "revoking", "revoked"}
allReadyLocked == \A t \in Targets : states[t] \in {"ready", "revoking", "revoked"}

-----------------------------------------------------------------------------
(* The outcomes of an operation that records `stored` and then applies `entry` *)
(* to target t and sends `frames`.                                             *)

RecordedOrNot(t, stored, entry, frames) ==
    /\ db' \in {db, stored}
    /\ coordinator' = [coordinator EXCEPT !.targets[t] = entry]
    /\ wire' = wire \cup frames

Recorded(t, stored, entry, frames) ==
    /\ db' = stored
    /\ coordinator' = [coordinator EXCEPT !.targets[t] = entry]
    /\ wire' = wire \cup frames

CrashAfter(stored) ==
    /\ db' = stored
    /\ coordinator' = NewRotationCoordinator
    /\ UNCHANGED wire

FailTarget(t) ==
    /\ coordinator' = [coordinator EXCEPT !.targets[t].state = "failed"]
    /\ UNCHANGED <<db, wire>>

-----------------------------------------------------------------------------
(* RotationCoordinator                                                         *)

Start ==
    /\ ~coordinator.started /\ ~db.started
    /\ db' = [db EXCEPT !.started = TRUE]
    /\ coordinator' \in {coordinator, [coordinator EXCEPT !.started = TRUE]}
    /\ UNCHANGED <<connector, wire, expired, nonce>>

latestChallenge(t) ==
    IF db.challenges[t] = {} THEN NoRecord
    ELSE CHOOSE c \in db.challenges[t] : \A d \in db.challenges[t] : d.nonce <= c.nonce

LoadCredentialRotation(t) ==
    [state |-> CASE db.revocations[t] # 0 ->
                        IF db.result[t] = "none" THEN "revoking" ELSE db.result[t]
                 [] db.readiness[t] # NoReady /\ db.revocations[t] = 0 -> "ready"
                 [] db.installs[t] # NoRecord /\ db.readiness[t] = NoReady -> "installed"
                 [] db.challenges[t] # {} /\ db.installs[t] = NoRecord -> "challenged"
                 [] OTHER -> "pending",
     challenge |-> latestChallenge(t), install |-> db.installs[t],
     ready |-> db.readiness[t], revoke |-> db.revocations[t]]

validateRotationResumeTarget(e) ==
    LET challenged == e.challenge # NoRecord
        installed == e.install # NoRecord
        ready == e.ready # NoReady
        revoke == e.revoke # 0
    IN  /\ installed => challenged /\ e.install = e.challenge
        /\ ready => installed /\ e.ready.prev = e.install.proc /\ e.ready.proc > e.install.proc
        /\ revoke => ready /\ e.revoke >= e.ready.proc
        /\ CASE e.state = "pending" -> ~challenged
             [] e.state = "challenged" -> challenged /\ ~installed
             [] e.state = "installed" -> installed /\ ~ready
             [] e.state = "ready" -> ready /\ ~revoke
             [] e.state \in {"revoking", "revoked"} -> revoke
             [] OTHER -> TRUE

Resumable ==
    LET loaded == [t \in Targets |-> LoadCredentialRotation(t)]
    IN  /\ \A t \in Targets : validateRotationResumeTarget(loaded[t])
        /\ db.succeeded => \/ \E t \in Targets : loaded[t].state = "failed"
                           \/ \A t \in Targets : loaded[t].state = "revoked"

Resume ==
    /\ ~coordinator.started /\ db.started
    /\ Resumable
    /\ coordinator' = [started |-> TRUE,
                       targets |-> [t \in Targets |-> LoadCredentialRotation(t)],
                       finished |-> db.succeeded]
    /\ UNCHANGED <<db, connector, wire, expired, nonce>>

Challenge(t) ==
    LET entry == coordinator.targets[t]
        challenge == [nonce |-> nonce + 1, proc |-> connector[t].proc]
        stored == [db EXCEPT !.challenges[t] = @ \cup {challenge}]
    IN  /\ coordinator.started /\ nonce < MaxNonce
        /\ \/ entry.state = "pending"
           \/ entry.state = "challenged" /\ entry.challenge.nonce \in expired
        /\ nonce' = nonce + 1
        /\ \/ Recorded(t, stored, [entry EXCEPT !.state = "challenged", !.challenge = challenge],
                       {RotationChallenge(t, challenge)})
           \/ CrashAfter(stored)
        /\ UNCHANGED <<connector, expired>>

rotationProofMatchesChallenge(proof, challenge) ==
    proof.nonce = challenge.nonce /\ proof.proc = challenge.proc

AcceptProof(t) ==
    LET entry == coordinator.targets[t]
    IN  \E proof \in Received("proof", t) :
            LET install == [nonce |-> proof.nonce, proc |-> proof.proc]
                stored == [db EXCEPT !.installs[t] = install]
            IN  /\ entry.state = "challenged"
                /\ rotationProofMatchesChallenge(proof, entry.challenge)
                /\ \/ Recorded(t, stored, [entry EXCEPT !.state = "installed", !.install = install],
                               {RotationInstall(t, proof)})
                   \/ FailTarget(t)
                   \/ CrashAfter(stored)
                /\ UNCHANGED <<connector, expired, nonce>>

MarkReady(t) ==
    LET entry == coordinator.targets[t]
    IN  \E m \in Received("ready", t) :
            LET ready == [proc |-> m.proc, prev |-> m.prev]
                stored == [db EXCEPT !.readiness[t] = ready]
            IN  /\ entry.state = "installed"
                /\ m.prev = entry.install.proc /\ m.proc >= entry.install.proc + 1
                /\ m.nonce = entry.install.nonce
                /\ \/ Recorded(t, stored, [entry EXCEPT !.state = "ready", !.ready = ready], {})
                   \/ FailTarget(t)
                   \/ CrashAfter(stored)
                /\ UNCHANGED <<connector, expired, nonce>>

Revoke(t) ==
    LET entry == coordinator.targets[t]
        stored == [db EXCEPT !.revocations[t] = entry.ready.proc]
    IN  /\ summaryLocked(states) # "failed" /\ allReadyLocked
        /\ entry.state = "ready"
        /\ \/ Recorded(t, stored, [entry EXCEPT !.state = "revoking", !.revoke = entry.ready.proc],
                       {RotationRevoke(t, entry.ready.proc)})
           \/ FailTarget(t)
           \/ CrashAfter(stored)
        /\ UNCHANGED <<connector, expired, nonce>>

(* A target that is revoking already gets the recorded revoke again.           *)
ReissueRevoke(t) ==
    /\ summaryLocked(states) # "failed" /\ allReadyLocked
    /\ states[t] = "revoking"
    /\ wire' = wire \cup {RotationRevoke(t, coordinator.targets[t].revoke)}
    /\ UNCHANGED <<coordinator, db, connector, expired, nonce>>

RecordResult(s) ==
    [db EXCEPT !.result = s, !.succeeded = @ \/ summaryLocked(s) = "succeeded"]

rotationNegativeAckMatches(entry, ack) ==
    \/ entry.state \in {"challenged", "installed"} /\ ack.proc = entry.challenge.proc
    \/ entry.state = "ready" /\ ack.proc = entry.ready.proc
    \/ entry.state = "revoking" /\ ack.proc = entry.revoke

(* Fail, and HandleAck of a rejected or failed acknowledgement: if the store   *)
(* refuses the result, the state is put back.                                  *)
TargetFails(t) ==
    LET stored == RecordResult([states EXCEPT ![t] = "failed"])
    IN  /\ \/ Recorded(t, stored, [coordinator.targets[t] EXCEPT !.state = "failed"], {})
           \/ CrashAfter(stored)
        /\ UNCHANGED <<connector, expired, nonce>>

Fail(t) ==
    /\ coordinator.started /\ states[t] \notin {"revoked", "failed"}
    /\ TargetFails(t)

HandleNegativeAck(t) ==
    /\ \E ack \in Received("rejected", t) : rotationNegativeAckMatches(coordinator.targets[t], ack)
    /\ TargetFails(t)

(* HandleAck of installed and ready acknowledgements changes nothing.          *)
HandleRevokedAck(t) ==
    LET entry == coordinator.targets[t]
        after == [states EXCEPT ![t] = "revoked"]
        stored == RecordResult(after)
        finished == coordinator.finished \/ summaryLocked(after) = "succeeded"
    IN  /\ entry.state = "revoking"
        /\ \E ack \in Received("revoked", t) : ack.proc = entry.revoke
        /\ \/ /\ db' = stored
              /\ coordinator' = [coordinator EXCEPT !.targets[t].state = "revoked", !.finished = finished]
              /\ UNCHANGED wire
           \/ /\ coordinator' = [coordinator EXCEPT !.targets[t].state = "failed", !.finished = finished]
              /\ UNCHANGED <<db, wire>>
           \/ CrashAfter(stored)
        /\ UNCHANGED <<connector, expired, nonce>>

Crash ==
    /\ coordinator.started
    /\ coordinator' = NewRotationCoordinator
    /\ UNCHANGED <<db, connector, wire, expired, nonce>>

ChallengeExpires ==
    /\ \E n \in (1..nonce) \ expired : expired' = expired \cup {n}
    /\ UNCHANGED <<coordinator, db, connector, wire, nonce>>

-----------------------------------------------------------------------------
(* Consumer: the connector's side. RotationRuntime (key custody, starting the  *)
(* replacement process) is outside this repository and may refuse anything.    *)

validateRotationIdentity(t, m) == m.proc = connector[t].proc

rotationAckError(t, m) ==
    /\ wire' = wire \cup {RotationAck("rejected", t, m.proc)}
    /\ UNCHANGED connector

HandleChallenge(t) ==
    /\ \E m \in Received("challenge", t) :
        \/ /\ validateRotationIdentity(t, m)
           /\ wire' = wire \cup {RotationProof(t, m)}
           /\ UNCHANGED connector
        \/ rotationAckError(t, m)
    /\ UNCHANGED <<coordinator, db, expired, nonce>>

HandleInstall(t) ==
    /\ \E m \in Received("install", t) :
        \/ /\ validateRotationIdentity(t, m)
           /\ connector' = [connector EXCEPT ![t].install = [nonce |-> m.nonce, proc |-> m.proc]]
           /\ UNCHANGED wire
        \/ rotationAckError(t, m)
    /\ UNCHANGED <<coordinator, db, expired, nonce>>

HandleRevoke(t) ==
    /\ \E m \in Received("revoke", t) :
        \/ /\ validateRotationIdentity(t, m)
           /\ connector' = [connector EXCEPT ![t].revoked = TRUE]
           /\ wire' = wire \cup {RotationAck("revoked", t, m.proc)}
        \/ rotationAckError(t, m)
    /\ UNCHANGED <<coordinator, db, expired, nonce>>

(* The connector starts its next process: the replacement, once a key is       *)
(* installed, or a restart of the old one.                                     *)
NextProcess(t) ==
    /\ connector[t].proc < MaxProcess
    /\ \E key \in {connector[t].key, connector[t].install.nonce} :
        connector' = [connector EXCEPT ![t].proc = @ + 1, ![t].key = key]
    /\ UNCHANGED <<coordinator, db, wire, expired, nonce>>

(* The replacement session reports edge, route and origin ready.               *)
SendReady(t) ==
    LET c == connector[t]
    IN  /\ c.key # 0 /\ c.key = c.install.nonce
        /\ connector' = [connector EXCEPT ![t].readied = TRUE]
        /\ wire' = wire \cup {RotationReady(t, c.proc, c.install.proc, c.key)}
        /\ UNCHANGED <<coordinator, db, expired, nonce>>

RotationNext ==
    \/ Start \/ Resume \/ Crash \/ ChallengeExpires
    \/ \E t \in Targets :
        \/ Challenge(t) \/ AcceptProof(t) \/ MarkReady(t) \/ Revoke(t) \/ ReissueRevoke(t)
        \/ Fail(t) \/ HandleNegativeAck(t) \/ HandleRevokedAck(t)
        \/ HandleChallenge(t) \/ HandleInstall(t) \/ HandleRevoke(t)
        \/ NextProcess(t) \/ SendReady(t)

RotationSpec == RotationInit /\ [][RotationNext]_rotationVars

-----------------------------------------------------------------------------
Records == [nonce : 0..MaxNonce, proc : 0..MaxProcess]
Readies == [proc : 0..MaxProcess, prev : 0..MaxProcess]

(* The coordinator, the store, the connectors and the frames have the shape    *)
(* rotation.go gives them, and no nonce or process passes its bound.           *)
RotationTypeOK ==
    /\ coordinator \in [started : BOOLEAN, finished : BOOLEAN,
                        targets : [Targets -> [state : TargetStates, challenge : Records,
                                               install : Records, ready : Readies,
                                               revoke : 0..MaxProcess]]]
    /\ db \in [started : BOOLEAN, succeeded : BOOLEAN,
               challenges : [Targets -> SUBSET Records], installs : [Targets -> Records],
               readiness : [Targets -> Readies], revocations : [Targets -> 0..MaxProcess],
               result : [Targets -> TargetStates \cup {"none"}]]
    /\ connector \in [Targets -> [proc : 1..MaxProcess, key : 0..MaxNonce, install : Records,
                                  readied : BOOLEAN, revoked : BOOLEAN]]
    /\ wire \subseteq [type : {"challenge", "proof", "install", "ready", "revoke", "revoked", "rejected"},
                       to : Targets, proc : 1..MaxProcess, prev : 0..MaxProcess, nonce : 0..MaxNonce]
    /\ expired \subseteq 1..MaxNonce
    /\ nonce \in 0..MaxNonce

(* rotation.go:530-533: the old generation is revoked only after every target  *)
(* is ready. A connector gives up its old credential only when every connector *)
(* of the plan has had a replacement session ready with its installed key.     *)
RevokedAfterAllReady ==
    (\E t \in Targets : connector[t].revoked) => \A t \in Targets : connector[t].readied

(* rotation.go:1176-1179: no frame and no in-memory phase runs ahead of the    *)
(* durable write it rests on, through refused writes and crashes.              *)
WriteBeforeTell ==
    /\ \A m \in wire :
        /\ m.type = "install" => db.installs[m.to] # NoRecord
        /\ m.type = "revoke" => db.revocations[m.to] = m.proc
    /\ \A t \in Targets :
        LET e == coordinator.targets[t]
        IN  /\ e.state = "installed" => e.install = db.installs[t]
            /\ e.state = "ready" => e.ready = db.readiness[t] /\ e.ready # NoReady
            /\ e.state = "revoking" => e.revoke = db.revocations[t] /\ e.revoke # 0

(* rotation.go:544-546: a restart orphans no installed key. The key a connector *)
(* holds is the one the store has recorded for it, however often the server    *)
(* restarts and challenges again.                                              *)
NoOrphanedKey ==
    \A t \in Targets :
        connector[t].install # NoRecord => db.installs[t] = connector[t].install

(* rotation.go:545-546: a restart issues no second challenge. Of the challenges *)
(* recorded for a target at most one has not expired.                          *)
OneLiveChallenge ==
    \A t \in Targets :
        Cardinality({c \in db.challenges[t] : c.nonce \notin expired}) <= 1

(* Summary: success is reported only when every old credential is revoked at   *)
(* its connector and the store knows it.                                       *)
SuccessIsReal ==
    summaryLocked(states) = "succeeded" =>
        db.succeeded /\ \A t \in Targets : connector[t].revoked

(* What the store holds and what connectors have done and said back each other. *)
RecordsAreBacked ==
    /\ \A m \in wire :
        /\ m.type = "install" => db.installs[m.to] = [nonce |-> m.nonce, proc |-> m.proc]
        /\ m.type = "ready" => connector[m.to].readied
        /\ m.type = "revoked" => connector[m.to].revoked
    /\ \A t \in Targets :
        /\ db.readiness[t] # NoReady => db.readiness[t].proc # 0 /\ connector[t].readied
        /\ db.revocations[t] # 0 => \A u \in Targets : db.readiness[u] # NoReady
        /\ connector[t].revoked => db.revocations[t] # 0
        /\ db.result[t] = "revoked" => connector[t].revoked
        /\ ~db.started => db.installs[t] = NoRecord /\ db.revocations[t] = 0
    /\ (\A t \in Targets : db.result[t] = "revoked") => db.succeeded

(* A running coordinator is in a phase that its records allow.                 *)
PhasesAreRecorded ==
    /\ IF coordinator.started THEN db.started ELSE coordinator = NewRotationCoordinator
    /\ coordinator.started => \A t \in Targets :
        LET s == coordinator.targets[t].state
        IN  /\ s \in {"pending", "challenged"} => db.installs[t] = NoRecord
            /\ s \in {"pending", "challenged", "installed", "ready"} => db.revocations[t] = 0
            /\ s \in {"revoking", "revoked"} => db.revocations[t] # 0
            /\ s = "revoked" => connector[t].revoked

(* The inductive invariant.                                                    *)
RotationInv ==
    /\ RotationTypeOK /\ RecordsAreBacked /\ PhasesAreRecorded
    /\ WriteBeforeTell /\ NoOrphanedKey /\ SuccessIsReal

(* Resume: what the store has recorded is never refused when the server comes  *)
(* back.                                                                       *)
RecordedIsResumable == db.started => Resumable
=============================================================================
