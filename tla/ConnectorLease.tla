--------------------------- MODULE ConnectorLease ---------------------------
(* Who owns a connector's control session, and for how long: SessionRegistry,  *)
(* Server.Accept, heartbeats and credential renewal of                         *)
(* internal/connectorprotocol. A connector's successive processes are numbered *)
(* by their process generation; two of them may be alive at once (a partition, *)
(* a replaced host). Accept and Renew call the authenticator without a lock    *)
(* and go on with the time they read before, so each is a pair of steps.       *)
(* Frames are delayed, repeated, reordered and lost.                           *)
(*                                                                             *)
(* The code compares instants with the clock only through how long ago or how  *)
(* far ahead they are. The model keeps just that: an expiry is the time left   *)
(* until it (0: passed), an earlier instant is its age, and time is unbounded. *)
EXTENDS Integers, FiniteSets

CONSTANTS
    Processes,          \* process generations of one connector: 1..n
    HeartbeatInterval, LeaseDuration, MaxClockSkew,
    Grants,             \* what the authenticator grants: credential life, lease life
    Horizon,            \* ages are told apart up to here
    Talkative,          \* bound: the processes that send heartbeats and renewals
    MaxMail,            \* bound: frames in flight; a frame sent beyond it is lost
    MaxRenewals         \* bound: renewal requests

ASSUME LeaseAssumption ==
    /\ Processes \subseteq Nat \ {0} /\ Horizon \in Nat
    /\ HeartbeatInterval \in Nat \ {0} /\ LeaseDuration \in Nat
    /\ 2 * HeartbeatInterval < LeaseDuration        \* NewServer
    /\ MaxClockSkew \in Nat /\ MaxMail \in Nat /\ MaxRenewals \in Nat
    /\ Horizon > 2 * HeartbeatInterval + MaxClockSkew
    /\ Grants \subseteq [credential : 1..Horizon, lease : 1..Horizon]

VARIABLES
    registry,       \* process generation of the registered session, 0 for none
    sessions,       \* ServerSession per process
    clients,        \* ClientSession per process
    renewing,       \* renewals inside Authenticator.Renew
    mail,           \* frames in flight: each may arrive, arrive twice or be lost
    renewals,       \* renewal requests built so far
    silence         \* how long ago each process last built a frame

leaseVars == <<registry, sessions, clients, renewing, mail, renewals, silence>>

(* A closed session's times are never read again: only its state and what its  *)
(* connector may still be holding are kept.                                    *)
IdleSession(state, generation) ==
    [state |-> state, started |-> 0, generation |-> generation, version |-> 0,
     credential |-> 0, lease |-> 0, lastHeartbeat |-> 0, lastSent |-> 0]
IdleClient(state) ==
    [state |-> state, generation |-> 0, credential |-> 0, lease |-> 0, lastAck |-> 0]

LeaseInit ==
    /\ registry = 0
    /\ sessions = [p \in Processes |-> IdleSession("none", 0)]
    /\ clients = [p \in Processes |-> IdleClient("none")]
    /\ renewing = {}
    /\ mail = {}
    /\ renewals = 0
    /\ silence = [p \in Processes |-> 0]

earlier(a, b) == IF a < b THEN a ELSE b
Older(age) == earlier(age + 1, Horizon)
Left(remaining, age) == IF remaining > age THEN remaining - age ELSE 0

(* AuthResult.Validate: the lease lies within the credential.                  *)
AuthResults == {g \in Grants : g.lease <= g.credential}

AnyAge(m) == TRUE
Fresh(m) == m.age <= MaxClockSkew

Send(m) == mail' = IF Cardinality(mail) < MaxMail THEN mail \cup {m} ELSE mail
Mail(type, p) == {m \in mail : m.type = type /\ m.from = p}
Message(type, p, lease, credential, generation) ==
    [type |-> type, from |-> p, age |-> 0, lease |-> lease, credential |-> credential,
     generation |-> generation]

Tick ==
    /\ sessions' = [p \in Processes |->
            CASE sessions[p].state = "accepting" -> [sessions[p] EXCEPT !.started = Older(@)]
              [] sessions[p].state = "open" ->
                    [sessions[p] EXCEPT !.credential = Left(@, 1), !.lease = Left(@, 1),
                                        !.lastHeartbeat = Older(@), !.lastSent = Older(@)]
              [] OTHER -> sessions[p]]
    /\ clients' = [p \in Processes |->
            IF clients[p].state = "open"
            THEN [clients[p] EXCEPT !.credential = Left(@, 1), !.lease = Left(@, 1), !.lastAck = Older(@)]
            ELSE clients[p]]
    /\ renewing' = {[r EXCEPT !.now = Older(@)] : r \in renewing}
    /\ mail' = {[m EXCEPT !.age = Older(@), !.lease = Left(@, 1), !.credential = Left(@, 1)] : m \in mail}
    /\ silence' = [p \in Processes |-> Older(silence[p])]
    /\ UNCHANGED <<registry, renewals>>

Lose ==
    /\ \E m \in mail : mail' = mail \ {m}
    /\ UNCHANGED <<registry, sessions, clients, renewing, renewals, silence>>

-----------------------------------------------------------------------------
(* Server and ServerSession                                                    *)

(* A process connects; Accept reads the clock and calls the authenticator.     *)
AcceptBegins(p) ==
    /\ sessions[p].state = "none"
    /\ sessions' = [sessions EXCEPT ![p].state = "accepting"]
    /\ clients' = [clients EXCEPT ![p].state = "new"]
    /\ silence' = [silence EXCEPT ![p] = 0]
    /\ UNCHANGED <<registry, renewing, mail, renewals>>

Attach(p) == registry < p

Accepted(p, g) ==
    LET lease == earlier(g.lease, LeaseDuration)
        age == sessions[p].started
    IN  /\ HeartbeatInterval < lease        \* Lease.Validate
        /\ Attach(p)
        /\ registry' = p
        /\ sessions' = [sessions EXCEPT ![p] =
                [@ EXCEPT !.state = "open", !.started = 0, !.generation = 1, !.credential = Left(g.credential, age),
                          !.lease = Left(lease, age), !.lastHeartbeat = age, !.lastSent = Horizon]]
        /\ Send(Message("welcome", p, Left(lease, age), Left(g.credential, age), 1))

(* The rest of Accept: the session is attached, or the process is refused.     *)
AcceptEnds(p) ==
    /\ sessions[p].state = "accepting"
    /\ \/ \E g \in AuthResults : Accepted(p, g)
       \/ /\ sessions' = [sessions EXCEPT ![p] = IdleSession("closed", 0)]
          /\ UNCHANGED <<registry, mail>>
    /\ UNCHANGED <<clients, renewing, renewals, silence>>

ensureActiveLocked(p) ==
    LET s == sessions[p]
    IN  /\ s.state = "open"
        /\ registry = p
        /\ s.credential > 0 /\ s.lease > 0
        /\ s.lastHeartbeat <= 2 * HeartbeatInterval

CloseUnowned(p) ==
    /\ sessions[p].state = "open"
    /\ sessions' = [sessions EXCEPT ![p] = IdleSession("closed", @.generation)]
    /\ registry' = 0
    /\ UNCHANGED <<clients, renewing, mail, renewals, silence>>

(* Close and CheckLease, and every handler that finds the session not active.  *)
SessionCloses(p) ==
    /\ sessions[p].state = "open"
    /\ sessions' = [sessions EXCEPT ![p] = IdleSession("closed", @.generation)]
    /\ registry' = IF registry = p THEN 0 ELSE registry
    /\ UNCHANGED <<clients, renewing, mail, renewals, silence>>

heartbeatLease(p) == earlier(LeaseDuration, sessions[p].credential)

(* HandleHeartbeat of a frame for the generation the session holds.            *)
RenewLease(p) ==
    \E m \in Mail("heartbeat", p) :
        /\ ensureActiveLocked(p)
        /\ Fresh(m) /\ m.age < sessions[p].lastSent
        /\ sessions' = [sessions EXCEPT ![p] =
                [@ EXCEPT !.lastSent = m.age, !.lastHeartbeat = 0, !.lease = heartbeatLease(p)]]
        /\ Send(Message("ack", p, heartbeatLease(p), 0, 0))
        /\ UNCHANGED <<registry, clients, renewing, renewals, silence>>

(* The authenticator takes a proof once.                                       *)
RenewBegins(p) ==
    \E m \in Mail("renew", p) :
        /\ Fresh(m) /\ ensureActiveLocked(p)
        /\ m.generation = sessions[p].generation
        /\ renewing' = renewing \cup {[process |-> p, now |-> 0, version |-> sessions[p].version]}
        /\ mail' = mail \ {m}
        /\ UNCHANGED <<registry, sessions, clients, renewals, silence>>

Renewed(r, g, generation) ==
    LET p == r.process
        lease == earlier(g.lease, LeaseDuration)
    IN  /\ ensureActiveLocked(p) /\ sessions[p].version = r.version
        /\ sessions' = [sessions EXCEPT ![p] =
                [@ EXCEPT !.generation = generation, !.version = sessions[p].version + 1, !.lastHeartbeat = r.now,
                          !.credential = Left(g.credential, r.now), !.lease = Left(lease, r.now)]]
        /\ Send(Message("renewed", p, Left(g.lease, r.now), Left(g.credential, r.now), generation))

(* Authenticator.Renew returns: the session is checked again, and its auth     *)
(* must be the one the request was checked against.                            *)
RenewEnds ==
    \E r \in renewing :
        /\ renewing' = renewing \ {r}
        /\ \/ \E g \in AuthResults, more \in 0..1 : Renewed(r, g, sessions[r.process].generation + more)
           \/ UNCHANGED <<sessions, mail>>
        /\ UNCHANGED <<registry, clients, renewals, silence>>

-----------------------------------------------------------------------------
(* ClientSession                                                               *)

clientActive(p) ==
    /\ clients[p].state = "open"
    /\ clients[p].lease > 0
    /\ clients[p].lastAck <= 2 * HeartbeatInterval

AcceptWelcome(p) ==
    \E m \in Mail("welcome", p) :
        /\ clients[p].state = "new"
        /\ HeartbeatInterval < m.lease
        /\ clients' = [clients EXCEPT ![p] = [state |-> "open", generation |-> m.generation,
                                              credential |-> m.credential, lease |-> m.lease, lastAck |-> 0]]
        /\ UNCHANGED <<registry, sessions, renewing, mail, renewals, silence>>

ClientEnds(p) ==
    /\ clients[p].state = "open"
    /\ clients' = [clients EXCEPT ![p] = IdleClient("closed")]
    /\ UNCHANGED <<registry, sessions, renewing, mail, renewals, silence>>

SendsHeartbeat(p) ==
    /\ clientActive(p) /\ p \in Talkative
    /\ Send(Message("heartbeat", p, 0, 0, 0))
    /\ silence' = [silence EXCEPT ![p] = 0]
    /\ UNCHANGED <<registry, sessions, clients, renewing, renewals>>

AcceptHeartbeatAck(p) ==
    \E m \in Mail("ack", p) :
        /\ clientActive(p) /\ m.lease > 0
        /\ clients' = [clients EXCEPT ![p].lease = m.lease, ![p].lastAck = 0]
        /\ UNCHANGED <<registry, sessions, renewing, mail, renewals, silence>>

(* RenewalRequest checks the lease but not the heartbeat deadline.             *)
RenewalRequest(p) ==
    /\ clients[p].state = "open" /\ clients[p].lease > 0
    /\ renewals < MaxRenewals /\ p \in Talkative
    /\ renewals' = renewals + 1
    /\ Send(Message("renew", p, 0, 0, clients[p].generation))
    /\ silence' = [silence EXCEPT ![p] = 0]
    /\ UNCHANGED <<registry, sessions, clients, renewing>>

RenewalAdvances(c, m) ==
    m.generation >= c.generation /\ m.credential >= c.credential /\ m.lease >= c.lease

ApplyRenewal(p) ==
    \E m \in Mail("renewed", p) :
        /\ clientActive(p) /\ RenewalAdvances(clients[p], m)
        /\ clients' = [clients EXCEPT ![p] = [@ EXCEPT !.generation = m.generation, !.lastAck = 0,
                                                       !.credential = m.credential, !.lease = m.lease]]
        /\ UNCHANGED <<registry, sessions, renewing, mail, renewals, silence>>

LeaseNext ==
    \/ Tick \/ Lose \/ RenewEnds
    \/ \E p \in Processes :
        \/ AcceptBegins(p) \/ AcceptEnds(p) \/ SessionCloses(p) \/ RenewLease(p) \/ RenewBegins(p)
        \/ AcceptWelcome(p) \/ ClientEnds(p) \/ SendsHeartbeat(p) \/ AcceptHeartbeatAck(p)
        \/ RenewalRequest(p) \/ ApplyRenewal(p)

LeaseSpec == LeaseInit /\ [][LeaseNext]_leaseVars

-----------------------------------------------------------------------------
Ages == 0..Horizon

LeaseSessions ==
    [state : {"none", "accepting", "open", "closed"}, started : Ages, generation : Nat, version : Nat,
     credential : Ages, lease : Ages, lastHeartbeat : Ages, lastSent : Ages]
LeaseClients ==
    [state : {"none", "new", "open", "closed"}, generation : Nat, credential : Ages, lease : Ages, lastAck : Ages]
LeaseRenewals == [process : Processes, now : Ages, version : Nat]
LeaseFrames ==
    [type : {"welcome", "heartbeat", "ack", "renew", "renewed"}, from : Processes, age : Ages,
     lease : Ages, credential : Ages, generation : Nat]

(* Sessions, clients, renewals and frames have the shape session.go and        *)
(* protocol.go give them.                                                      *)
LeaseTypeOK ==
    /\ registry \in Processes \cup {0} /\ renewals \in 0..MaxRenewals
    /\ sessions \in [Processes -> LeaseSessions] /\ clients \in [Processes -> LeaseClients]
    /\ renewing \subseteq LeaseRenewals /\ mail \subseteq LeaseFrames
    /\ silence \in [Processes -> Ages]

(* "A stale close from an older process generation can never remove a newer    *)
(* session" (session.go:41-43): the registered session is always an open one,  *)
(* and it leaves the registry only to a newer process or by its own close.     *)
RegistryTracksOwner ==
    [][registry # 0 => \/ registry' >= registry /\ sessions'[registry'].state = "open"
                       \/ registry' = 0 /\ sessions'[registry].state = "closed"]_leaseVars

(* "Lease expiry cannot outlive credential expiry" (contracts.md, section 3),  *)
(* nor the configured lease counted from now, through heartbeats and renewals. *)
LeaseWithinCredential ==
    \A p \in Processes : sessions[p].state = "open" =>
        /\ sessions[p].lease <= sessions[p].credential
        /\ sessions[p].lease <= LeaseDuration

(* A connector that has fallen silent is not kept alive by frames that are     *)
(* late or repeated: a session that passes ensureActiveLocked has a process    *)
(* that built a frame within two heartbeat intervals and the clock skew.       *)
SilentConnectorLapses ==
    \A p \in Processes : ensureActiveLocked(p) =>
        silence[p] <= 2 * HeartbeatInterval + MaxClockSkew

(* "A renewal is a compare-and-swap against the authenticated session and      *)
(* credential generation" (contracts.md, section 3): a connector never holds a *)
(* credential generation that its session has not recorded.                    *)
RenewalIsRecorded ==
    \A p \in Processes : clients[p].generation <= sessions[p].generation

(* Whatever speaks for a process, in flight, under way or in its session, is   *)
(* no younger than the last frame the process built, up to the clock skew.     *)
HeardSince ==
    /\ \A p \in Processes :
        /\ sessions[p].state = "accepting" => silence[p] <= sessions[p].started
        /\ sessions[p].state = "open" => silence[p] <= sessions[p].lastHeartbeat + MaxClockSkew
    /\ \A r \in renewing : silence[r.process] <= r.now + MaxClockSkew
    /\ \A m \in mail : m.type \in {"heartbeat", "renew"} => silence[m.from] <= m.age

OwnerIsOpen == registry # 0 => sessions[registry].state = "open"

(* A generation on its way to a connector is one that its session recorded.    *)
GenerationsAreRecorded ==
    /\ RenewalIsRecorded
    /\ \A m \in mail : m.type \in {"welcome", "renewed"} => m.generation <= sessions[m.from].generation
    /\ \A p \in Processes : sessions[p].state \in {"none", "accepting"} => sessions[p].generation = 0

(* The inductive invariant.                                                    *)
LeaseInv == LeaseTypeOK /\ HeardSince /\ OwnerIsOpen /\ LeaseWithinCredential /\ GenerationsAreRecorded
=============================================================================
