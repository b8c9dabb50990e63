-------------------------- MODULE ConnectorProofs ---------------------------
(* For any number of processes, frames, renewals, generations and times: the   *)
(* registered session is open and leaves the registry only to a newer process  *)
(* or by its own close; a silent connector lapses; a lease stays within its    *)
(* credential; and what a session takes as active was promoted, what it takes  *)
(* as drained is empty.                                                        *)
EXTENDS ConnectorLease, ConnectorSession, TLAPS

-----------------------------------------------------------------------------
(* Leases and the registry                                                     *)

(* The arithmetic of ages and of times that are left.                          *)
LEMMA AgeFacts ==
    /\ Ages \subseteq Nat /\ 0 \in Ages /\ Horizon \in Ages
    /\ \A a \in Ages : Older(a) \in Ages /\ a <= Older(a)
    /\ \A a, b \in Ages : a <= b => Older(a) <= Older(b)
    /\ \A a, b \in Ages : a <= b + MaxClockSkew => Older(a) <= Older(b) + MaxClockSkew
    /\ \A a \in Ages, n \in Nat : Left(a, n) \in Ages /\ Left(a, n) <= a
    /\ \A a, b \in Ages, n \in Nat : a <= b => Left(a, n) <= Left(b, n)
  BY LeaseAssumption DEF Ages, Older, earlier, Left

LEMMA OlderOrder ==
    ASSUME NEW a \in Ages, NEW b \in Ages
    PROVE  /\ a <= b => Older(a) <= Older(b)
           /\ a <= b + MaxClockSkew => Older(a) <= Older(b) + MaxClockSkew
  BY AgeFacts, Zenon

LEMMA LeftWithin ==
    ASSUME NEW a \in Ages, NEW n \in Nat, a <= LeaseDuration
    PROVE  Left(a, n) <= LeaseDuration
<1>1. a \in Nat /\ Left(a, n) \in Nat /\ Left(a, n) <= a
  BY AgeFacts, Zenon
<1> QED  BY <1>1, LeaseAssumption

LEMMA GrantFacts ==
    ASSUME NEW g \in AuthResults
    PROVE  /\ g.credential \in Ages /\ g.lease \in Ages /\ earlier(g.lease, LeaseDuration) \in Ages
           /\ earlier(g.lease, LeaseDuration) <= g.credential
           /\ earlier(g.lease, LeaseDuration) <= LeaseDuration
<1>1. g \in [credential : 1..Horizon, lease : 1..Horizon] /\ g.lease <= g.credential
  BY LeaseAssumption, Zenon DEF AuthResults
<1>2. g.credential \in 1..Horizon /\ g.lease \in 1..Horizon
  BY <1>1, Zenon
<1> QED  BY <1>1, <1>2, LeaseAssumption DEF Ages, earlier

(* What the parts of the state hold, as numbers.                               *)
LEMMA Numbers ==
    ASSUME LeaseTypeOK
    PROVE  /\ \A p \in Processes : /\ sessions[p] \in LeaseSessions /\ clients[p] \in LeaseClients
                                   /\ sessions[p].started \in Nat /\ sessions[p].lastHeartbeat \in Nat
                                   /\ sessions[p].generation \in Nat /\ clients[p].generation \in Nat
                                   /\ silence[p] \in Nat
           /\ \A r \in renewing : r \in LeaseRenewals /\ r.process \in Processes /\ r.now \in Nat
           /\ \A m \in mail : /\ m \in LeaseFrames /\ m.from \in Processes /\ m.age \in Nat
                             /\ m.generation \in Nat
<1>1. \A s \in LeaseSessions : s.started \in Ages /\ s.lastHeartbeat \in Ages /\ s.generation \in Nat
  BY Zenon DEF LeaseSessions
<1>2. \A c \in LeaseClients : c.generation \in Nat
  BY Zenon DEF LeaseClients
<1>3. \A r \in LeaseRenewals : r.process \in Processes /\ r.now \in Ages
  BY Zenon DEF LeaseRenewals
<1>4. \A m \in LeaseFrames : m.from \in Processes /\ m.age \in Ages /\ m.generation \in Nat
  BY Zenon DEF LeaseFrames
<1>5. Ages \subseteq Nat
  BY AgeFacts, Zenon
<1> QED  BY <1>1, <1>2, <1>3, <1>4, <1>5, Zenon DEF LeaseTypeOK

LEMMA Sending ==
    ASSUME NEW m, Send(m)
    PROVE  mail' \subseteq mail \cup {m}
  BY Zenon DEF Send

-----------------------------------------------------------------------------
(* A step of a connector that only changes what it holds.                      *)
LEMMA ClientStep ==
    ASSUME LeaseInv, NEW p \in Processes, NEW c \in LeaseClients, clients' = [clients EXCEPT ![p] = c],
           c.generation <= sessions[p].generation,
           UNCHANGED <<registry, sessions, renewing, mail, renewals, silence>>
    PROVE  LeaseInv'
<1>1. LeaseTypeOK'
  BY Zenon DEF LeaseInv, LeaseTypeOK
<1>2. \A q \in Processes : clients'[q].generation <= sessions[q].generation
  BY Zenon DEF LeaseInv, LeaseTypeOK, GenerationsAreRecorded, RenewalIsRecorded
<1>3. GenerationsAreRecorded'
  BY <1>2, Zenon DEF LeaseInv, GenerationsAreRecorded, RenewalIsRecorded
<1> QED  BY <1>1, <1>3, Zenon DEF LeaseInv, HeardSince, OwnerIsOpen, LeaseWithinCredential

(* A connector builds a frame.                                                 *)
LEMMA SenderStep ==
    ASSUME LeaseInv, NEW p \in Processes, NEW m \in LeaseFrames, m.type \in {"heartbeat", "renew"}, m.from = p,
           m.age = 0, mail' \subseteq mail \cup {m}, silence' = [silence EXCEPT ![p] = 0],
           renewals' \in 0..MaxRenewals,
           UNCHANGED <<registry, sessions, clients, renewing>>
    PROVE  LeaseInv'
<1>0. silence \in [Processes -> Ages] /\ 0 \in Ages /\ Ages \subseteq Nat
  BY AgeFacts, Zenon DEF LeaseInv, LeaseTypeOK
<1>1. silence' \in [Processes -> Ages] /\ silence'[p] = 0 /\ \A q \in Processes : silence'[q] <= silence[q]
  <2>1. \A q \in Processes : silence[q] \in Nat /\ silence'[q] = IF q = p THEN 0 ELSE silence[q]
    BY <1>0, Zenon
  <2>2. \A q \in Processes : silence'[q] <= silence[q]
    BY <2>1
  <2> QED  BY <1>0, <2>1, <2>2, Zenon
<1>2. LeaseTypeOK'
  BY <1>1, Zenon DEF LeaseInv, LeaseTypeOK
<1>3. HeardSince'
  <2>1. \A q \in Processes : silence'[q] \in Nat
    BY <1>0, <1>1, Zenon
  <2> USE Numbers, LeaseAssumption DEF LeaseInv
  <2>2. ASSUME NEW q \in Processes
        PROVE  /\ sessions[q].state = "accepting" => silence'[q] <= sessions[q].started
               /\ sessions[q].state = "open" => silence'[q] <= sessions[q].lastHeartbeat + MaxClockSkew
    BY <1>1, <2>1 DEF HeardSince
  <2>3. ASSUME NEW r \in renewing
        PROVE  silence'[r.process] <= r.now + MaxClockSkew
    BY <1>1, <2>1 DEF HeardSince
  <2>4. ASSUME NEW n \in mail', n.type \in {"heartbeat", "renew"}
        PROVE  silence'[n.from] <= n.age
    BY <2>4, <1>1, <2>1 DEF HeardSince
  <2> QED  BY <2>2, <2>3, <2>4, Zenon DEF HeardSince
<1>4. GenerationsAreRecorded'
  BY Zenon DEF LeaseInv, GenerationsAreRecorded, RenewalIsRecorded
<1> QED  BY <1>2, <1>3, <1>4, Zenon DEF LeaseInv, OwnerIsOpen, LeaseWithinCredential

(* The server changes one session, may answer its connector, and may end a     *)
(* renewal.                                                                    *)
LEMMA SessionStep ==
    ASSUME LeaseInv, NEW p \in Processes, NEW s \in LeaseSessions, sessions' = [sessions EXCEPT ![p] = s],
           s.state \in {"open", "closed"}, s.generation >= sessions[p].generation,
           s.state = "open" => /\ silence[p] <= s.lastHeartbeat + MaxClockSkew
                               /\ s.lease <= s.credential /\ s.lease <= LeaseDuration,
           NEW m \in LeaseFrames, m.type \notin {"heartbeat", "renew"}, m.from = p,
           m.type \in {"welcome", "renewed"} => m.generation <= s.generation,
           mail' \subseteq mail \cup {m}, renewing' \subseteq renewing,
           registry' \in {registry, p, 0}, registry' = p => s.state = "open",
           UNCHANGED <<clients, renewals, silence>>
    PROVE  LeaseInv'
<1>0. /\ registry \in Processes \cup {0} /\ sessions \in [Processes -> LeaseSessions]
      /\ clients \in [Processes -> LeaseClients] /\ mail \subseteq LeaseFrames /\ 0 \notin Processes
  BY LeaseAssumption, Zenon DEF LeaseInv, LeaseTypeOK
<1>1. LeaseTypeOK'
  BY <1>0, Zenon DEF LeaseInv, LeaseTypeOK
<1>2. sessions'[p] = s /\ \A q \in Processes \ {p} : sessions'[q] = sessions[q]
  BY <1>0, Zenon
<1>3. HeardSince'
  BY <1>2, Zenon DEF LeaseInv, HeardSince
<1>4. OwnerIsOpen'
  BY <1>0, <1>2, Zenon DEF LeaseInv, OwnerIsOpen
<1>5. LeaseWithinCredential'
  BY <1>2, Zenon DEF LeaseInv, LeaseWithinCredential
<1>6. \A q \in Processes : sessions[q].generation \in Nat /\ sessions'[q].generation \in Nat
                           /\ sessions[q].generation <= sessions'[q].generation
  BY <1>0, <1>2 DEF LeaseSessions
<1>7. GenerationsAreRecorded'
  <2>1. \A q \in Processes : clients[q].generation <= sessions'[q].generation
    BY <1>0, <1>6 DEF LeaseInv, GenerationsAreRecorded, RenewalIsRecorded, LeaseClients
  <2>2. ASSUME NEW n \in mail', n.type \in {"welcome", "renewed"}
        PROVE  n.generation <= sessions'[n.from].generation
    <3>1. CASE n = m
      BY <3>1, <2>2, <1>2, Zenon
    <3>2. CASE n \in mail
      <4>1. n.generation <= sessions[n.from].generation /\ n.from \in Processes /\ n.generation \in Nat
        BY <3>2, <2>2, <1>0, Zenon DEF LeaseInv, GenerationsAreRecorded, LeaseFrames
      <4> QED  BY <4>1, <1>6
    <3> QED  BY <3>1, <3>2, Zenon
  <2>3. \A q \in Processes : sessions'[q].state \in {"none", "accepting"} => sessions'[q].generation = 0
    BY <1>2, Zenon DEF LeaseInv, GenerationsAreRecorded
  <2> QED  BY <2>1, <2>2, <2>3, Zenon DEF GenerationsAreRecorded, RenewalIsRecorded
<1> QED  BY <1>1, <1>3, <1>4, <1>5, <1>7, Zenon DEF LeaseInv

-----------------------------------------------------------------------------
(* The actions                                                                 *)

LEMMA ClientsKeep ==
    ASSUME LeaseInv, NEW p \in Processes,
           AcceptWelcome(p) \/ ClientEnds(p) \/ AcceptHeartbeatAck(p) \/ ApplyRenewal(p)
    PROVE  LeaseInv'
<1>0. /\ clients \in [Processes -> LeaseClients] /\ clients[p] \in LeaseClients
      /\ clients[p].generation \in Nat /\ sessions[p].generation \in Nat
      /\ clients[p].generation <= sessions[p].generation
      /\ \A m \in mail : m \in LeaseFrames
      /\ 0 \in Ages
  BY Numbers, AgeFacts, Zenon DEF LeaseInv, LeaseTypeOK, GenerationsAreRecorded, RenewalIsRecorded
<1>1. \A m \in LeaseFrames : m.lease \in Ages /\ m.credential \in Ages /\ m.generation \in Nat
  BY Zenon DEF LeaseFrames
<1>2. \A m \in mail : m.type \in {"welcome", "renewed"} /\ m.from = p => m.generation <= sessions[p].generation
  BY Zenon DEF LeaseInv, GenerationsAreRecorded
<1>3. CASE AcceptWelcome(p)
  <2>1. PICK m \in Mail("welcome", p) :
             clients' = [clients EXCEPT ![p] = [state |-> "open", generation |-> m.generation,
                                                credential |-> m.credential, lease |-> m.lease, lastAck |-> 0]]
    BY <1>3, Zenon DEF AcceptWelcome
  <2> DEFINE c == [state |-> "open", generation |-> m.generation,
                   credential |-> m.credential, lease |-> m.lease, lastAck |-> 0]
  <2>2. c \in LeaseClients /\ c.generation <= sessions[p].generation
    BY <1>0, <1>1, <1>2, Zenon DEF LeaseClients, Mail
  <2> HIDE DEF c
  <2>3. clients' = [clients EXCEPT ![p] = c]
    BY <2>1, Zenon DEF c
  <2> QED  BY <1>3, <2>2, <2>3, ClientStep, Zenon DEF AcceptWelcome
<1>4. CASE ClientEnds(p)
  <2>1. IdleClient("closed") \in LeaseClients /\ IdleClient("closed").generation = 0
    BY <1>0, Zenon DEF IdleClient, LeaseClients
  <2>2. IdleClient("closed").generation <= sessions[p].generation
    BY <1>0, <2>1
  <2>3. /\ clients' = [clients EXCEPT ![p] = IdleClient("closed")]
        /\ UNCHANGED <<registry, sessions, renewing, mail, renewals, silence>>
    BY <1>4, Zenon DEF ClientEnds
  <2> QED  BY <2>1, <2>2, <2>3, ClientStep, Zenon
<1>5. CASE AcceptHeartbeatAck(p)
  <2>1. PICK m \in Mail("ack", p) : clients' = [clients EXCEPT ![p].lease = m.lease, ![p].lastAck = 0]
    BY <1>5, Zenon DEF AcceptHeartbeatAck
  <2> DEFINE c == [clients[p] EXCEPT !.lease = m.lease, !.lastAck = 0]
  <2>2. c \in LeaseClients /\ c.generation = clients[p].generation
    BY <1>0, <1>1, Zenon DEF LeaseClients, Mail
  <2>3. clients' = [clients EXCEPT ![p] = c]
    BY <2>1, <1>0, Zenon
  <2> HIDE DEF c
  <2> QED  BY <1>0, <1>5, <2>2, <2>3, ClientStep, Zenon DEF AcceptHeartbeatAck
<1>6. CASE ApplyRenewal(p)
  <2>1. PICK m \in Mail("renewed", p) :
             clients' = [clients EXCEPT ![p] = [@ EXCEPT !.generation = m.generation, !.lastAck = 0,
                                                         !.credential = m.credential, !.lease = m.lease]]
    BY <1>6, Zenon DEF ApplyRenewal
  <2> DEFINE c == [clients[p] EXCEPT !.generation = m.generation, !.lastAck = 0,
                                     !.credential = m.credential, !.lease = m.lease]
  <2>2. c \in LeaseClients /\ c.generation = m.generation
    BY <1>0, <1>1, Zenon DEF LeaseClients, Mail
  <2>3. clients' = [clients EXCEPT ![p] = c] /\ m.generation <= sessions[p].generation
    BY <2>1, <1>0, <1>2, Zenon DEF Mail
  <2> HIDE DEF c
  <2> QED  BY <1>6, <2>2, <2>3, ClientStep, Zenon DEF ApplyRenewal
<1> QED  BY <1>3, <1>4, <1>5, <1>6, Zenon

LEMMA SendersKeep ==
    ASSUME LeaseInv, NEW p \in Processes, SendsHeartbeat(p) \/ RenewalRequest(p)
    PROVE  LeaseInv'
<1>0. /\ clients[p].generation \in Nat /\ 0 \in Ages /\ renewals \in 0..MaxRenewals
  BY Numbers, AgeFacts, Zenon DEF LeaseInv, LeaseTypeOK
<1>1. ASSUME NEW type \in {"heartbeat", "renew"}, NEW g \in Nat
      PROVE  /\ Message(type, p, 0, 0, g) \in LeaseFrames
             /\ Message(type, p, 0, 0, g).type = type /\ Message(type, p, 0, 0, g).from = p
             /\ Message(type, p, 0, 0, g).age = 0
  BY <1>0, Zenon DEF Message, LeaseFrames
<1>2. CASE SendsHeartbeat(p)
  <2>1. /\ mail' \subseteq mail \cup {Message("heartbeat", p, 0, 0, 0)}
        /\ silence' = [silence EXCEPT ![p] = 0] /\ UNCHANGED <<registry, sessions, clients, renewing, renewals>>
    BY <1>2, Sending, Zenon DEF SendsHeartbeat
  <2> QED  BY <1>0, <1>1, <2>1, SenderStep, Zenon
<1>3. CASE RenewalRequest(p)
  <2>1. /\ mail' \subseteq mail \cup {Message("renew", p, 0, 0, clients[p].generation)}
        /\ silence' = [silence EXCEPT ![p] = 0] /\ UNCHANGED <<registry, sessions, clients, renewing>>
    BY <1>3, Sending, Zenon DEF RenewalRequest
  <2>2. renewals' \in 0..MaxRenewals
    BY <1>0, <1>3, LeaseAssumption DEF RenewalRequest
  <2> QED  BY <1>0, <1>1, <2>1, <2>2, SenderStep, Zenon
<1> QED  BY <1>2, <1>3, Zenon

(* A frame that the server may have to give SessionStep when it sends none.    *)
LEMMA AckFrame ==
    ASSUME NEW p \in Processes, NEW lease \in Ages
    PROVE  /\ Message("ack", p, lease, 0, 0) \in LeaseFrames
           /\ Message("ack", p, lease, 0, 0).type = "ack" /\ Message("ack", p, lease, 0, 0).from = p
  BY AgeFacts, Zenon DEF Message, LeaseFrames

LEMMA ClosedSession ==
    ASSUME NEW g \in Nat
    PROVE  /\ IdleSession("closed", g) \in LeaseSessions
           /\ IdleSession("closed", g).state = "closed" /\ IdleSession("closed", g).generation = g
  BY AgeFacts, Zenon DEF IdleSession, LeaseSessions

LEMMA ClosesKeep ==
    ASSUME LeaseInv, NEW p \in Processes, SessionCloses(p)
    PROVE  LeaseInv'
<1>1. /\ sessions' = [sessions EXCEPT ![p] = IdleSession("closed", sessions[p].generation)]
      /\ registry' \in {registry, 0} /\ registry' # p
      /\ UNCHANGED <<clients, renewing, mail, renewals, silence>>
  BY LeaseAssumption, Zenon DEF SessionCloses
<1>2. sessions[p].generation \in Nat /\ 0 \in Ages
  BY Numbers, AgeFacts, Zenon DEF LeaseInv
<1>3. IdleSession("closed", sessions[p].generation).generation >= sessions[p].generation
  BY <1>2, ClosedSession
<1> QED  BY <1>1, <1>2, <1>3, ClosedSession, AckFrame, SessionStep, ZenonT(30)

LEMMA AcceptsKeep ==
    ASSUME LeaseInv, NEW p \in Processes, AcceptEnds(p)
    PROVE  LeaseInv'
<1>0. /\ sessions[p] \in LeaseSessions /\ sessions[p].started \in Nat /\ sessions[p].started \in Ages
      /\ sessions[p].generation = 0 /\ silence[p] <= sessions[p].started /\ silence[p] \in Nat
      /\ registry \in Processes \cup {0} /\ 0 \notin Processes /\ 0 \in Ages /\ Horizon \in Ages
  BY Numbers, AgeFacts, LeaseAssumption, Zenon
     DEF LeaseInv, LeaseTypeOK, AcceptEnds, HeardSince, GenerationsAreRecorded, LeaseSessions
<1>1. UNCHANGED <<clients, renewing, renewals, silence>>
  BY Zenon DEF AcceptEnds
<1>2. CASE /\ sessions' = [sessions EXCEPT ![p] = IdleSession("closed", 0)]
           /\ UNCHANGED <<registry, mail>>
  <2>1. registry # p
    BY <1>0, Zenon DEF LeaseInv, OwnerIsOpen, AcceptEnds
  <2>2. IdleSession("closed", 0).generation >= sessions[p].generation
    BY <1>0, ClosedSession
  <2>3. /\ registry' = registry /\ registry' # p /\ mail' = mail /\ renewing' = renewing
        /\ UNCHANGED <<clients, renewals, silence>>
        /\ sessions' = [sessions EXCEPT ![p] = IdleSession("closed", 0)]
    BY <1>1, <1>2, <2>1, Zenon
  <2>4. /\ IdleSession("closed", 0) \in LeaseSessions /\ IdleSession("closed", 0).state = "closed"
        /\ Message("ack", p, 0, 0, 0) \in LeaseFrames /\ Message("ack", p, 0, 0, 0).type = "ack"
        /\ Message("ack", p, 0, 0, 0).from = p
    BY <1>0, ClosedSession, AckFrame
  <2> QED  BY <2>2, <2>3, <2>4, SessionStep, Zenon
<1>3. ASSUME NEW g \in AuthResults, Accepted(p, g)
      PROVE  LeaseInv'
  <2> DEFINE lease == earlier(g.lease, LeaseDuration)
             age == sessions[p].started
             s == [sessions[p] EXCEPT !.state = "open", !.started = 0, !.generation = 1,
                          !.credential = Left(g.credential, age),
                          !.lease = Left(lease, age), !.lastHeartbeat = age, !.lastSent = Horizon]
             m == Message("welcome", p, Left(lease, age), Left(g.credential, age), 1)
  <2>1. /\ lease \in Ages /\ g.credential \in Ages /\ lease <= g.credential /\ lease <= LeaseDuration
    BY GrantFacts, Zenon
  <2>2. /\ Left(lease, age) \in Ages /\ Left(g.credential, age) \in Ages
        /\ Left(lease, age) <= Left(g.credential, age) /\ Left(lease, age) <= lease
    BY <1>0, <2>1, AgeFacts, Zenon
  <2>3. Left(lease, age) <= LeaseDuration
    BY <1>0, <2>1, LeftWithin, Zenon
  <2>4. sessions' = [sessions EXCEPT ![p] = s] /\ registry' = p /\ mail' \subseteq mail \cup {m}
    BY <1>3, Sending, Zenon DEF Accepted
  <2> HIDE DEF lease, age
  <2>5. /\ s \in LeaseSessions /\ s.state = "open" /\ s.generation = 1 /\ s.lastHeartbeat = age
        /\ s.lease = Left(lease, age) /\ s.credential = Left(g.credential, age)
    BY <1>0, <2>2, Zenon DEF LeaseSessions, age
  <2>6. m \in LeaseFrames /\ m.type = "welcome" /\ m.from = p /\ m.generation = 1
    BY <1>0, <2>2, Zenon DEF Message, LeaseFrames
  <2> HIDE DEF s, m
  <2>7. s.generation >= sessions[p].generation /\ silence[p] <= s.lastHeartbeat + MaxClockSkew
        /\ m.generation <= s.generation
    BY <1>0, <2>5, <2>6, LeaseAssumption DEF age
  <2> QED  BY <1>1, <2>2, <2>3, <2>4, <2>5, <2>6, <2>7, SessionStep, Zenon
<1> QED  BY <1>2, <1>3, Zenon DEF AcceptEnds

LEMMA HeartbeatsKeep ==
    ASSUME LeaseInv, NEW p \in Processes, RenewLease(p)
    PROVE  LeaseInv'
<1>1. PICK f \in Mail("heartbeat", p) :
        /\ ensureActiveLocked(p) /\ Fresh(f)
        /\ sessions' = [sessions EXCEPT ![p] =
                [@ EXCEPT !.lastSent = f.age, !.lastHeartbeat = 0, !.lease = heartbeatLease(p)]]
        /\ Send(Message("ack", p, heartbeatLease(p), 0, 0))
        /\ UNCHANGED <<registry, clients, renewing, renewals, silence>>
  BY Zenon DEF RenewLease
<1>2. /\ f \in mail /\ f \in LeaseFrames /\ f.from = p /\ f.age \in Nat /\ silence[p] <= f.age
      /\ f.age <= MaxClockSkew /\ silence[p] \in Nat
      /\ sessions[p] \in LeaseSessions /\ sessions[p].generation \in Nat
  BY <1>1, Numbers, Zenon DEF LeaseInv, HeardSince, Mail, Fresh
<1>3. f.age \in Ages /\ sessions[p].credential \in Ages
  BY <1>2, Zenon DEF LeaseFrames, LeaseSessions
<1>4. /\ heartbeatLease(p) \in Ages /\ heartbeatLease(p) <= sessions[p].credential
      /\ heartbeatLease(p) <= LeaseDuration
  BY <1>3, LeaseAssumption DEF heartbeatLease, earlier, Ages
<1> DEFINE s == [sessions[p] EXCEPT !.lastSent = f.age, !.lastHeartbeat = 0, !.lease = heartbeatLease(p)]
<1>5. /\ s \in LeaseSessions /\ s.state = sessions[p].state /\ s.generation = sessions[p].generation
      /\ s.lastHeartbeat = 0 /\ s.lease = heartbeatLease(p) /\ s.credential = sessions[p].credential
  BY <1>2, <1>3, <1>4, AgeFacts, Zenon DEF LeaseSessions
<1>6. sessions' = [sessions EXCEPT ![p] = s] /\ mail' \subseteq mail \cup {Message("ack", p, heartbeatLease(p), 0, 0)}
      /\ sessions[p].state = "open"
  BY <1>1, Sending, Zenon DEF ensureActiveLocked
<1> HIDE DEF s
<1>7. s.generation >= sessions[p].generation /\ silence[p] <= s.lastHeartbeat + MaxClockSkew
  BY <1>2, <1>5, LeaseAssumption
<1>8. /\ Message("ack", p, heartbeatLease(p), 0, 0) \in LeaseFrames
      /\ Message("ack", p, heartbeatLease(p), 0, 0).type = "ack"
      /\ Message("ack", p, heartbeatLease(p), 0, 0).from = p
  BY <1>4, AckFrame, Zenon
<1>9. s.state = "open" /\ s.lease <= s.credential /\ s.lease <= LeaseDuration
  BY <1>4, <1>5, <1>6, Zenon
<1>10. registry' = registry /\ renewing' = renewing /\ UNCHANGED <<clients, renewals, silence>>
  BY <1>1, Zenon
<1> QED  BY <1>5, <1>6, <1>7, <1>8, <1>9, <1>10, SessionStep, Zenon

LEMMA RenewalsKeep ==
    ASSUME LeaseInv, RenewEnds
    PROVE  LeaseInv'
<1>1. PICK r \in renewing :
        /\ renewing' = renewing \ {r}
        /\ \/ \E g \in AuthResults, more \in 0..1 : Renewed(r, g, sessions[r.process].generation + more)
           \/ UNCHANGED <<sessions, mail>>
        /\ UNCHANGED <<registry, clients, renewals, silence>>
  BY Zenon DEF RenewEnds
<1>2. CASE UNCHANGED <<sessions, mail>>
  <2>1. LeaseTypeOK'
    BY <1>1, <1>2, Zenon DEF LeaseInv, LeaseTypeOK
  <2>2. HeardSince' /\ GenerationsAreRecorded'
    BY <1>1, <1>2, Zenon DEF LeaseInv, HeardSince, GenerationsAreRecorded, RenewalIsRecorded
  <2> QED  BY <2>1, <2>2, <1>1, <1>2, Zenon DEF LeaseInv, OwnerIsOpen, LeaseWithinCredential
<1>3. ASSUME NEW g \in AuthResults, NEW more \in 0..1, Renewed(r, g, sessions[r.process].generation + more)
      PROVE  LeaseInv'
  <2> DEFINE p == r.process
             generation == sessions[p].generation + more
             lease == earlier(g.lease, LeaseDuration)
             s == [sessions[p] EXCEPT !.generation = generation, !.version = sessions[p].version + 1,
                          !.lastHeartbeat = r.now,
                          !.credential = Left(g.credential, r.now), !.lease = Left(lease, r.now)]
             m == Message("renewed", p, Left(g.lease, r.now), Left(g.credential, r.now), generation)
  <2>1. /\ p \in Processes /\ r \in LeaseRenewals /\ r.now \in Nat /\ silence[p] \in Nat
        /\ silence[p] <= r.now + MaxClockSkew
        /\ sessions[p] \in LeaseSessions /\ sessions[p].generation \in Nat
    BY Numbers, Zenon DEF LeaseInv, HeardSince
  <2>2. r.now \in Ages /\ sessions[p].version \in Nat
    BY <2>1, Zenon DEF LeaseRenewals, LeaseSessions
  <2>3. generation \in Nat /\ generation >= sessions[p].generation /\ sessions[p].version + 1 \in Nat
    BY <2>1, <2>2
  <2>4. /\ lease \in Ages /\ g.credential \in Ages /\ g.lease \in Ages
        /\ lease <= g.credential /\ lease <= LeaseDuration
    BY GrantFacts, Zenon
  <2>5. /\ Left(lease, r.now) \in Ages /\ Left(g.credential, r.now) \in Ages /\ Left(g.lease, r.now) \in Ages
        /\ Left(lease, r.now) <= Left(g.credential, r.now) /\ Left(lease, r.now) <= lease
    BY <2>1, <2>4, AgeFacts, Zenon
  <2>6. Left(lease, r.now) <= LeaseDuration
    BY <2>1, <2>4, LeftWithin, Zenon
  <2>7. sessions' = [sessions EXCEPT ![p] = s] /\ mail' \subseteq mail \cup {m} /\ sessions[p].state = "open"
    <3>1. /\ sessions[p].state = "open" /\ Send(m)
          /\ sessions' = [sessions EXCEPT ![p] =
                [@ EXCEPT !.generation = generation, !.version = sessions[p].version + 1, !.lastHeartbeat = r.now,
                          !.credential = Left(g.credential, r.now), !.lease = Left(lease, r.now)]]
      BY <1>3, Zenon DEF Renewed, ensureActiveLocked
    <3>2. mail' \subseteq mail \cup {m}
      BY <3>1, Sending, Zenon
    <3> HIDE DEF m, generation, lease
    <3>3. sessions' = [sessions EXCEPT ![p] = s]
      BY <3>1, Zenon
    <3> QED  BY <3>1, <3>2, <3>3, Zenon
  <2> HIDE DEF p, generation, lease
  <2>8. /\ s \in LeaseSessions /\ s.state = sessions[p].state /\ s.generation = generation
        /\ s.lastHeartbeat = r.now /\ s.lease = Left(lease, r.now) /\ s.credential = Left(g.credential, r.now)
    BY <2>1, <2>2, <2>3, <2>5, Zenon DEF LeaseSessions
  <2>9. m \in LeaseFrames /\ m.type = "renewed" /\ m.from = p /\ m.generation = generation
    BY <2>1, <2>3, <2>5, AgeFacts, Zenon DEF Message, LeaseFrames
  <2> HIDE DEF s, m
  <2>10. m.generation <= s.generation
    BY <2>3, <2>8, <2>9
  <2> QED  BY <1>1, <2>1, <2>3, <2>5, <2>6, <2>7, <2>8, <2>9, <2>10, SessionStep, Zenon
<1> QED  BY <1>1, <1>2, <1>3, Zenon

LEMMA BeginningsKeep ==
    ASSUME LeaseInv, NEW p \in Processes, AcceptBegins(p) \/ RenewBegins(p)
    PROVE  LeaseInv'
<1>0. /\ sessions \in [Processes -> LeaseSessions] /\ clients \in [Processes -> LeaseClients]
      /\ silence \in [Processes -> Ages] /\ 0 \in Ages /\ 0 \notin Processes
      /\ sessions[p] \in LeaseSessions /\ clients[p] \in LeaseClients
  BY AgeFacts, LeaseAssumption, Zenon DEF LeaseInv, LeaseTypeOK
<1>1. CASE AcceptBegins(p)
  <2> DEFINE s == [sessions[p] EXCEPT !.state = "accepting"]
             c == [clients[p] EXCEPT !.state = "new"]
  <2>1. /\ sessions' = [sessions EXCEPT ![p] = s] /\ clients' = [clients EXCEPT ![p] = c]
        /\ silence' = [silence EXCEPT ![p] = 0] /\ sessions[p].state = "none"
        /\ UNCHANGED <<registry, renewing, mail, renewals>>
    BY <1>0, <1>1, Zenon DEF AcceptBegins
  <2>2. /\ s \in LeaseSessions /\ s.state = "accepting" /\ s.generation = sessions[p].generation
        /\ c \in LeaseClients /\ c.generation = clients[p].generation
    BY <1>0, Zenon DEF LeaseSessions, LeaseClients
  <2> HIDE DEF s, c
  <2>3. /\ sessions'[p] = s /\ clients'[p] = c /\ silence'[p] = 0
        /\ \A q \in Processes \ {p} : /\ sessions'[q] = sessions[q] /\ clients'[q] = clients[q]
                                      /\ silence'[q] = silence[q]
    BY <1>0, <2>1, Zenon
  <2>4. LeaseTypeOK'
    BY <1>0, <2>1, <2>2, Zenon DEF LeaseInv, LeaseTypeOK
  <2>5. s.started \in Nat /\ \A n \in Nat : 0 <= n /\ 0 <= n + MaxClockSkew
    <3>1. s.started \in Ages
      BY <2>2, Zenon DEF LeaseSessions
    <3>2. s.started \in Nat
      BY <3>1, AgeFacts, ZenonT(30)
    <3> QED  BY <3>2, LeaseAssumption
  <2>6. HeardSince'
    BY <2>1, <2>2, <2>3, <2>5, Numbers DEF LeaseInv, HeardSince
  <2>7. OwnerIsOpen' /\ LeaseWithinCredential'
    BY <1>0, <2>1, <2>2, <2>3, Zenon DEF LeaseInv, OwnerIsOpen, LeaseWithinCredential, LeaseTypeOK
  <2>8. \A q \in Processes : /\ sessions'[q].generation = sessions[q].generation
                             /\ clients'[q].generation = clients[q].generation
    BY <2>2, <2>3, Zenon
  <2>9. GenerationsAreRecorded'
    BY <2>1, <2>2, <2>3, <2>8, Numbers, Zenon DEF LeaseInv, GenerationsAreRecorded, RenewalIsRecorded
  <2> QED  BY <2>4, <2>6, <2>7, <2>9, Zenon DEF LeaseInv
<1>2. CASE RenewBegins(p)
  <2>1. PICK m \in Mail("renew", p) :
        /\ Fresh(m)
        /\ renewing' = renewing \cup {[process |-> p, now |-> 0, version |-> sessions[p].version]}
        /\ mail' = mail \ {m}
        /\ UNCHANGED <<registry, sessions, clients, renewals, silence>>
    BY <1>2, Zenon DEF RenewBegins
  <2>2. silence[p] <= 0 + MaxClockSkew
    BY <2>1, Numbers, LeaseAssumption DEF LeaseInv, HeardSince, Mail, Fresh
  <2>3. [process |-> p, now |-> 0, version |-> sessions[p].version] \in LeaseRenewals
    BY <1>0, Zenon DEF LeaseRenewals, LeaseSessions
  <2>4. LeaseTypeOK'
    BY <2>1, <2>3, Zenon DEF LeaseInv, LeaseTypeOK
  <2>5. HeardSince'
    BY <2>1, <2>2 DEF LeaseInv, HeardSince
  <2>6. GenerationsAreRecorded'
    BY <2>1, Zenon DEF LeaseInv, GenerationsAreRecorded, RenewalIsRecorded
  <2> QED  BY <2>1, <2>4, <2>5, <2>6, Zenon DEF LeaseInv, OwnerIsOpen, LeaseWithinCredential
<1> QED  BY <1>1, <1>2, Zenon

LEMMA TicksKeep ==
    ASSUME LeaseInv, Tick
    PROVE  LeaseInv'
<1>0. /\ \A p \in Processes : sessions[p] \in LeaseSessions /\ clients[p] \in LeaseClients /\ silence[p] \in Ages
      /\ \A r \in renewing : r \in LeaseRenewals
      /\ \A m \in mail : m \in LeaseFrames
      /\ 1 \in Nat
  BY Zenon DEF LeaseInv, LeaseTypeOK
<1>1. /\ \A s \in LeaseSessions : /\ s.started \in Ages /\ s.credential \in Ages /\ s.lease \in Ages
                                  /\ s.lastHeartbeat \in Ages /\ s.lastSent \in Ages
      /\ \A c \in LeaseClients : c.credential \in Ages /\ c.lease \in Ages /\ c.lastAck \in Ages
      /\ \A r \in LeaseRenewals : r.now \in Ages /\ r.process \in Processes
      /\ \A m \in LeaseFrames : m.age \in Ages /\ m.lease \in Ages /\ m.credential \in Ages /\ m.from \in Processes
  BY Zenon DEF LeaseSessions, LeaseClients, LeaseRenewals, LeaseFrames
<1>2. ASSUME NEW p \in Processes
      PROVE  /\ sessions'[p] \in LeaseSessions /\ sessions'[p].state = sessions[p].state
             /\ sessions'[p].generation = sessions[p].generation
             /\ sessions[p].state = "accepting" => sessions'[p].started = Older(sessions[p].started)
             /\ sessions[p].state = "open" =>
                  /\ sessions'[p].lastHeartbeat = Older(sessions[p].lastHeartbeat)
                  /\ sessions'[p].lease = Left(sessions[p].lease, 1)
                  /\ sessions'[p].credential = Left(sessions[p].credential, 1)
  <2> DEFINE a == [sessions[p] EXCEPT !.started = Older(sessions[p].started)]
             o == [sessions[p] EXCEPT !.credential = Left(sessions[p].credential, 1),
                                      !.lease = Left(sessions[p].lease, 1),
                                      !.lastHeartbeat = Older(sessions[p].lastHeartbeat),
                                      !.lastSent = Older(sessions[p].lastSent)]
  <2>1. sessions'[p] = CASE sessions[p].state = "accepting" -> a
                         [] sessions[p].state = "open" -> o
                         [] OTHER -> sessions[p]
    BY Zenon DEF Tick
  <2>2. PICK s \in LeaseSessions : s = sessions[p]
    BY <1>0, Zenon
  <2>3. /\ Older(s.started) \in Ages /\ Older(s.lastHeartbeat) \in Ages /\ Older(s.lastSent) \in Ages
        /\ Left(s.credential, 1) \in Ages /\ Left(s.lease, 1) \in Ages
    BY <1>0, <1>1, AgeFacts, Zenon
  <2>4. /\ a \in LeaseSessions /\ a.state = s.state /\ a.generation = s.generation /\ a.started = Older(s.started)
    BY <2>2, <2>3, Zenon DEF LeaseSessions
  <2>5. /\ o \in LeaseSessions /\ o.state = s.state /\ o.generation = s.generation
        /\ o.lastHeartbeat = Older(s.lastHeartbeat) /\ o.lease = Left(s.lease, 1)
        /\ o.credential = Left(s.credential, 1)
    BY <2>2, <2>3, ZenonT(30) DEF LeaseSessions
  <2> HIDE DEF a, o
  <2> QED  BY <2>1, <2>2, <2>4, <2>5, Zenon
<1>3. ASSUME NEW p \in Processes
      PROVE  clients'[p] \in LeaseClients /\ clients'[p].generation = clients[p].generation
  <2> DEFINE o == [clients[p] EXCEPT !.credential = Left(clients[p].credential, 1),
                                     !.lease = Left(clients[p].lease, 1), !.lastAck = Older(clients[p].lastAck)]
  <2>1. clients'[p] = IF clients[p].state = "open" THEN o ELSE clients[p]
    BY Zenon DEF Tick
  <2>2. PICK c \in LeaseClients : c = clients[p]
    BY <1>0, Zenon
  <2>3. Left(c.credential, 1) \in Ages /\ Left(c.lease, 1) \in Ages /\ Older(c.lastAck) \in Ages
    BY <1>0, <1>1, AgeFacts, Zenon
  <2>4. o \in LeaseClients /\ o.generation = c.generation
    BY <2>2, <2>3, ZenonT(30) DEF LeaseClients
  <2> HIDE DEF o
  <2> QED  BY <2>1, <2>2, <2>4, Zenon
<1>4. ASSUME NEW r \in renewing'
      PROVE  /\ r \in LeaseRenewals
             /\ \E old \in renewing : r.process = old.process /\ r.now = Older(old.now)
  <2>1. PICK old \in renewing : r = [old EXCEPT !.now = Older(old.now)]
    BY Zenon DEF Tick
  <2>2. old \in LeaseRenewals /\ Older(old.now) \in Ages
    BY <1>0, <1>1, AgeFacts, Zenon
  <2> QED  BY <2>1, <2>2, Zenon DEF LeaseRenewals
<1>5. ASSUME NEW m \in mail'
      PROVE  /\ m \in LeaseFrames
             /\ \E old \in mail : /\ m.type = old.type /\ m.from = old.from /\ m.age = Older(old.age)
                                  /\ m.generation = old.generation
  <2>1. PICK old \in mail : m = [old EXCEPT !.age = Older(old.age), !.lease = Left(old.lease, 1),
                                            !.credential = Left(old.credential, 1)]
    BY Zenon DEF Tick
  <2>2. /\ old \in LeaseFrames /\ Older(old.age) \in Ages /\ Left(old.lease, 1) \in Ages
        /\ Left(old.credential, 1) \in Ages
    BY <1>0, <1>1, AgeFacts, Zenon
  <2>3. m \in LeaseFrames
    BY <2>1, <2>2, ZenonT(30) DEF LeaseFrames
  <2>4. m.type = old.type /\ m.from = old.from /\ m.age = Older(old.age) /\ m.generation = old.generation
    BY <2>1, <2>2, Zenon DEF LeaseFrames
  <2> QED  BY <2>3, <2>4, Zenon
<1>6. /\ \A p \in Processes : silence'[p] = Older(silence[p]) /\ silence'[p] \in Ages
      /\ silence' \in [Processes -> Ages]
  BY <1>0, AgeFacts, ZenonT(30) DEF Tick
<1>7. LeaseTypeOK'
  <2>1. sessions' \in [Processes -> LeaseSessions] /\ clients' \in [Processes -> LeaseClients]
    BY <1>2, <1>3, Zenon DEF Tick
  <2> QED  BY <2>1, <1>4, <1>5, <1>6, ZenonT(30) DEF Tick, LeaseInv, LeaseTypeOK
<1>8. HeardSince'
  <2>1. ASSUME NEW p \in Processes
        PROVE  /\ sessions'[p].state = "accepting" => silence'[p] <= sessions'[p].started
               /\ sessions'[p].state = "open" => silence'[p] <= sessions'[p].lastHeartbeat + MaxClockSkew
    <3>1. /\ silence[p] \in Ages /\ sessions[p].started \in Ages /\ sessions[p].lastHeartbeat \in Ages
          /\ sessions[p].state = "accepting" => silence[p] <= sessions[p].started
          /\ sessions[p].state = "open" => silence[p] <= sessions[p].lastHeartbeat + MaxClockSkew
      BY <1>0, <1>1, Zenon DEF LeaseInv, HeardSince
    <3> QED  BY <3>1, <1>2, <1>6, OlderOrder, Zenon
  <2>2. ASSUME NEW r \in renewing'
        PROVE  silence'[r.process] <= r.now + MaxClockSkew
    <3>1. PICK old \in renewing : r.process = old.process /\ r.now = Older(old.now)
      BY <1>4, Zenon
    <3>2. /\ old.process \in Processes /\ old.now \in Ages
          /\ silence[old.process] <= old.now + MaxClockSkew
      BY <1>0, <1>1, Zenon DEF LeaseInv, HeardSince
    <3> QED  BY <3>1, <3>2, <1>0, <1>6, OlderOrder, Zenon
  <2>3. ASSUME NEW m \in mail', m.type \in {"heartbeat", "renew"}
        PROVE  silence'[m.from] <= m.age
    <3>1. PICK old \in mail : m.type = old.type /\ m.from = old.from /\ m.age = Older(old.age)
      BY <1>5, Zenon
    <3>2. old.from \in Processes /\ old.age \in Ages /\ silence[old.from] <= old.age
      BY <2>3, <3>1, <1>0, <1>1, Zenon DEF LeaseInv, HeardSince
    <3> QED  BY <3>1, <3>2, <1>0, <1>6, OlderOrder, Zenon
  <2> QED  BY <2>1, <2>2, <2>3, Zenon DEF HeardSince
<1>9. OwnerIsOpen'
  BY <1>2, Zenon DEF Tick, LeaseInv, LeaseTypeOK, OwnerIsOpen
<1>10. LeaseWithinCredential'
  <2> SUFFICES ASSUME NEW p \in Processes, sessions'[p].state = "open"
               PROVE  sessions'[p].lease <= sessions'[p].credential /\ sessions'[p].lease <= LeaseDuration
    BY Zenon DEF LeaseWithinCredential
  <2>1. /\ sessions[p].lease <= sessions[p].credential /\ sessions[p].lease <= LeaseDuration
        /\ sessions[p].lease \in Ages /\ sessions[p].credential \in Ages
    BY <1>0, <1>1, <1>2, Zenon DEF LeaseInv, LeaseWithinCredential
  <2>2. /\ Left(sessions[p].lease, 1) <= Left(sessions[p].credential, 1)
        /\ Left(sessions[p].lease, 1) <= sessions[p].lease /\ Left(sessions[p].lease, 1) \in Ages
    BY <1>0, <2>1, AgeFacts, Zenon
  <2>3. Left(sessions[p].lease, 1) <= LeaseDuration
    BY <1>0, <2>1, LeftWithin, Zenon
  <2> QED  BY <1>2, <2>2, <2>3, Zenon
<1>11. GenerationsAreRecorded'
  BY <1>0, <1>1, <1>2, <1>3, <1>5 DEF LeaseInv, GenerationsAreRecorded, RenewalIsRecorded
<1> QED  BY <1>7, <1>8, <1>9, <1>10, <1>11, Zenon DEF LeaseInv

LEMMA LeaseNextInv ==
    ASSUME LeaseInv, [LeaseNext]_leaseVars
    PROVE  LeaseInv'
<1>1. CASE UNCHANGED leaseVars \/ Lose
  <2>1. mail' \subseteq mail /\ UNCHANGED <<registry, sessions, clients, renewing, renewals, silence>>
    BY <1>1, Zenon DEF leaseVars, Lose
  <2>2. LeaseTypeOK'
    BY <2>1, Zenon DEF LeaseInv, LeaseTypeOK
  <2>3. HeardSince' /\ GenerationsAreRecorded'
    BY <2>1, Zenon DEF LeaseInv, HeardSince, GenerationsAreRecorded, RenewalIsRecorded
  <2> QED  BY <2>1, <2>2, <2>3, Zenon DEF LeaseInv, OwnerIsOpen, LeaseWithinCredential
<1>2. ASSUME NEW p \in Processes,
             \/ AcceptBegins(p) \/ AcceptEnds(p) \/ SessionCloses(p) \/ RenewLease(p) \/ RenewBegins(p)
             \/ AcceptWelcome(p) \/ ClientEnds(p) \/ SendsHeartbeat(p) \/ AcceptHeartbeatAck(p)
             \/ RenewalRequest(p) \/ ApplyRenewal(p)
      PROVE  LeaseInv'
  BY <1>2, ClientsKeep, SendersKeep, ClosesKeep, AcceptsKeep, HeartbeatsKeep, BeginningsKeep, Zenon
<1> QED  BY <1>1, <1>2, TicksKeep, RenewalsKeep, Zenon DEF LeaseNext

-----------------------------------------------------------------------------
(* session.go: the inductive invariant of sessions, connectors and the frames  *)
(* between them, for any number of processes and any times.                    *)
THEOREM LeaseInvariant == LeaseSpec => []LeaseInv
<1>1. LeaseInit => LeaseInv
  <2> SUFFICES ASSUME LeaseInit PROVE LeaseInv
    BY Zenon
  <2>1. IdleSession("none", 0) \in LeaseSessions /\ IdleClient("none") \in LeaseClients
    BY AgeFacts, Zenon DEF IdleSession, IdleClient, LeaseSessions, LeaseClients
  <2>2. \A p \in Processes : sessions[p] = IdleSession("none", 0) /\ clients[p] = IdleClient("none")
    BY Zenon DEF LeaseInit
  <2>3. LeaseTypeOK
    BY <2>1, AgeFacts, LeaseAssumption DEF LeaseInit, LeaseTypeOK
  <2>4. HeardSince /\ OwnerIsOpen /\ LeaseWithinCredential
    BY <2>2, Zenon DEF LeaseInit, HeardSince, OwnerIsOpen, LeaseWithinCredential, IdleSession
  <2>5. GenerationsAreRecorded
    BY <2>2 DEF LeaseInit, GenerationsAreRecorded, RenewalIsRecorded, IdleSession, IdleClient
  <2> QED  BY <2>3, <2>4, <2>5, Zenon DEF LeaseInv
<1>2. LeaseInv /\ [LeaseNext]_leaseVars => LeaseInv'
  BY LeaseNextInv, Zenon
<1> QED  BY <1>1, <1>2, PTL DEF LeaseSpec

(* session.go, ensureActiveLocked: late, repeated and reordered heartbeats and *)
(* renewals never keep a session alive whose process has been silent for more  *)
(* than two heartbeat intervals and the clock skew.                            *)
THEOREM SilenceIsNoticed == LeaseSpec => []SilentConnectorLapses
<1>1. LeaseInv => SilentConnectorLapses
  <2> SUFFICES ASSUME LeaseInv, NEW p \in Processes, ensureActiveLocked(p)
               PROVE  silence[p] <= 2 * HeartbeatInterval + MaxClockSkew
    BY Zenon DEF SilentConnectorLapses
  <2>1. silence[p] <= sessions[p].lastHeartbeat + MaxClockSkew /\ sessions[p].lastHeartbeat <= 2 * HeartbeatInterval
    BY Zenon DEF LeaseInv, HeardSince, ensureActiveLocked
  <2>2. silence[p] \in Nat /\ sessions[p].lastHeartbeat \in Nat /\ MaxClockSkew \in Nat /\ HeartbeatInterval \in Nat
    BY Numbers, LeaseAssumption, Zenon DEF LeaseInv
  <2> QED  BY <2>1, <2>2
<1> QED  BY <1>1, LeaseInvariant, PTL

(* contracts.md, section 3: a lease never outlives its credential, and a       *)
(* connector never holds a credential generation its session has not recorded. *)
THEOREM LeasesAreBounded == LeaseSpec => [](LeaseWithinCredential /\ RenewalIsRecorded)
<1>1. LeaseInv => LeaseWithinCredential /\ RenewalIsRecorded
  BY Zenon DEF LeaseInv, GenerationsAreRecorded
<1> QED  BY <1>1, LeaseInvariant, PTL

(* SessionRegistry: the registered session is open, and it leaves the registry *)
(* only to a newer process generation or by its own close, however late the    *)
(* close of an older one comes.                                                *)
THEOREM OwnersAreTracked == LeaseSpec => RegistryTracksOwner
<1> DEFINE Moves == registry # 0 => \/ registry' >= registry /\ sessions'[registry'].state = "open"
                                    \/ registry' = 0 /\ sessions'[registry].state = "closed"
<1>1. LeaseInv /\ LeaseInv' /\ [LeaseNext]_leaseVars => Moves \/ UNCHANGED leaseVars
  <2> SUFFICES ASSUME LeaseInv, LeaseInv', LeaseNext, registry # 0
               PROVE  \/ registry' >= registry /\ sessions'[registry'].state = "open"
                      \/ registry' = 0 /\ sessions'[registry].state = "closed"
    BY Zenon
  <2>0. registry \in Processes /\ registry \in Nat /\ sessions \in [Processes -> LeaseSessions]
    BY LeaseAssumption, Zenon DEF LeaseInv, LeaseTypeOK
  <2>1. CASE registry' = registry
    BY <2>0, <2>1 DEF LeaseInv, OwnerIsOpen
  <2>2. CASE registry' # registry
    <3>1. \E p \in Processes : AcceptEnds(p) \/ SessionCloses(p)
      BY <2>2, ZenonT(30) DEF LeaseNext, Tick, Lose, RenewEnds, AcceptBegins, RenewLease, RenewBegins, AcceptWelcome,
                  ClientEnds, SendsHeartbeat, AcceptHeartbeatAck, RenewalRequest, ApplyRenewal
    <3>2. PICK p \in Processes : AcceptEnds(p) \/ SessionCloses(p)
      BY <3>1, Zenon
    <3>3. CASE AcceptEnds(p)
      <4>1. registry' = p /\ registry < p
        BY <3>3, <2>2, Zenon DEF AcceptEnds, Accepted, Attach
      <4>2. p \in Nat /\ p # 0
        BY LeaseAssumption, Zenon
      <4> QED  BY <4>1, <4>2, <2>0 DEF LeaseInv, OwnerIsOpen
    <3>4. CASE SessionCloses(p)
      <4>1. registry' = 0 /\ registry = p
        BY <3>4, <2>2, Zenon DEF SessionCloses
      <4> QED  BY <4>1, <3>4, <2>0, Zenon DEF SessionCloses, IdleSession
    <3> QED  BY <3>2, <3>3, <3>4, Zenon
  <2> QED  BY <2>1, <2>2, Zenon
<1>2. [Moves]_leaseVars <=> (Moves \/ UNCHANGED leaseVars)
  BY Zenon
<1>3. [][Moves]_leaseVars <=> RegistryTracksOwner
  BY Zenon DEF RegistryTracksOwner
<1> HIDE DEF Moves
<1> QED  BY <1>1, <1>2, <1>3, LeaseInvariant, PTL DEF LeaseSpec

-----------------------------------------------------------------------------
(* Configuration sessions                                                      *)

(* The frames of a queue, and what taking and sending one does to them.        *)
InFlight(q) == {q[i] : i \in DOMAIN q}

LEMMA FrameTaken ==
    ASSUME NEW S, NEW q \in Seq(S), q # <<>>
    PROVE  Tail(q) \in Seq(S) /\ Head(q) \in S /\ Head(q) \in InFlight(q) /\ InFlight(Tail(q)) \subseteq InFlight(q)
<1>1. Tail(q) \in Seq(S) /\ Head(q) \in S /\ Head(q) = q[1] /\ 1 \in DOMAIN q
  OBVIOUS
<1>2. \A i \in DOMAIN Tail(q) : i + 1 \in DOMAIN q /\ Tail(q)[i] = q[i + 1]
  OBVIOUS
<1> QED  BY <1>1, <1>2 DEF InFlight

LEMMA FrameSent ==
    ASSUME NEW S, NEW q \in Seq(S), NEW m \in S
    PROVE  Append(q, m) \in Seq(S) /\ InFlight(Append(q, m)) \subseteq InFlight(q) \cup {m}
<1>1. Append(q, m) \in Seq(S) /\ DOMAIN q = 1..Len(q) /\ DOMAIN Append(q, m) = 1..(Len(q) + 1) /\ Len(q) \in Nat
  OBVIOUS
<1>2. \A i \in DOMAIN Append(q, m) : (i \in DOMAIN q /\ Append(q, m)[i] = q[i]) \/ Append(q, m)[i] = m
  OBVIOUS
<1> QED  BY <1>1, <1>2, Zenon DEF InFlight

(* What SessionInv asks of a frame, of the client with its runtime, and of the *)
(* server, as predicates of their values.                                      *)
ToldRightly(m, r) ==
    /\ m.type = "ready" => m.generation \in r.promoted
    /\ m.type = "drain_ack" /\ m.status \in {"completed", "forced"} => r.streams = 0 /\ ~r.admitting
BasedOnPromoted(m, r) == m.type = "delta" => m.generation - 1 \in r.promoted
ServerHolds(s, r) ==
    /\ s \in ServerRecords
    /\ s.active # 0 => s.active \in r.promoted
    /\ s.drainStatus \in {"completed", "forced"} => r.streams = 0 /\ ~r.admitting
ClientHolds(c, r) ==
    /\ c \in ClientRecords /\ r \in RuntimeRecords
    /\ c.applying.kind # "none" => c.activating = 0 /\ c.applying.generation # 0
    /\ c.activating # 0 => c.activating = c.prepared
    /\ c.prepared # 0 => c.readyGeneration = 0
    /\ c.stopping # "no" => c.drain # 0 /\ c.prepared = 0 /\ c.applying.kind = "none"
    /\ c.state # "closed" \/ c.stopping # "no" \/ c.activating # 0 =>
           r.serving = c.active /\ r.staged \subseteq {c.prepared} \ {0}
    /\ c.stopping = "count" => ~r.admitting
    /\ c.drain # 0 /\ c.stopping = "no" /\ ~c.drainCompleted => ~r.admitting
    /\ c.drainStatus \in {"completed", "forced"} => r.streams = 0 /\ ~r.admitting
SessionHolds(s, c, r, down, up, d) ==
    /\ ServerHolds(s, r) /\ ClientHolds(c, r) /\ d \in Generations
    /\ down \in Seq(ServerFrames) /\ \A m \in InFlight(down) : BasedOnPromoted(m, r)
    /\ up \in Seq(ClientFrames) /\ \A m \in InFlight(up) : ToldRightly(m, r)

LEMMA SessionInvIsHolds ==
    SessionInv <=> SessionHolds(server, client, runtime, toClient, toServer, desired)
  BY Zenon DEF SessionInv, SessionTypeOK, ActiveWasPromoted, ReadyFollowsPromotion, HandlersExclude,
         ServesWhatItMayRestore, DrainsAreTrue, DrainedConnectorIsEmpty, SessionHolds,
         ServerHolds, ClientHolds, BasedOnPromoted, ToldRightly, InFlight

LEMMA SessionInvIsHoldsNext ==
    SessionHolds(server', client', runtime', toClient', toServer', desired') => SessionInv'
  BY Zenon DEF SessionInv, SessionTypeOK, ActiveWasPromoted, ReadyFollowsPromotion, HandlersExclude,
         ServesWhatItMayRestore, DrainsAreTrue, DrainedConnectorIsEmpty, SessionHolds,
         ServerHolds, ClientHolds, BasedOnPromoted, ToldRightly, InFlight

(* A step of the server leaves the connector alone.                            *)
LEMMA ServerStep ==
  ASSUME SessionInv, UNCHANGED <<client, runtime>>, ServerHolds(server', runtime), desired' \in Generations,
         toClient' \in Seq(ServerFrames),
         \A m \in InFlight(toClient') : m \in InFlight(toClient) \/ BasedOnPromoted(m, runtime),
         toServer' \in Seq(ClientFrames), InFlight(toServer') \subseteq InFlight(toServer)
  PROVE  SessionInv'
<1>1. SessionHolds(server, client, runtime, toClient, toServer, desired)
  BY SessionInvIsHolds, Zenon
<1>2. SessionHolds(server', client', runtime', toClient', toServer', desired')
  BY <1>1, Zenon DEF SessionHolds
<1> QED  BY <1>2, SessionInvIsHoldsNext, Zenon

(* A step of the connector forgets no promotion, admits no stream that it has  *)
(* stopped, and tells the truth.                                               *)
LEMMA ConnectorStep ==
  ASSUME SessionInv, UNCHANGED <<server, desired>>, ClientHolds(client', runtime'),
         runtime.promoted \subseteq runtime'.promoted,
         runtime.streams = 0 /\ ~runtime.admitting => runtime'.streams = 0 /\ ~runtime'.admitting,
         toClient' \in Seq(ServerFrames), InFlight(toClient') \subseteq InFlight(toClient),
         toServer' \in Seq(ClientFrames),
         \A m \in InFlight(toServer') : m \in InFlight(toServer) \/ ToldRightly(m, runtime')
  PROVE  SessionInv'
<1>1. SessionHolds(server, client, runtime, toClient, toServer, desired)
  BY SessionInvIsHolds, Zenon
<1>2. ServerHolds(server', runtime')
  BY <1>1, Zenon DEF SessionHolds, ServerHolds
<1>3. \A m \in InFlight(toClient') : BasedOnPromoted(m, runtime')
  BY <1>1, Zenon DEF SessionHolds, BasedOnPromoted
<1>4. \A m \in InFlight(toServer') : ToldRightly(m, runtime')
  BY <1>1, Zenon DEF SessionHolds, ToldRightly
<1>5. desired' \in Generations
  BY <1>1, Zenon DEF SessionHolds
<1> QED  BY <1>2, <1>3, <1>4, <1>5, SessionInvIsHoldsNext, Zenon DEF SessionHolds

LEMMA SessionFacts ==
    ASSUME SessionInv
    PROVE  /\ ServerHolds(server, runtime) /\ ClientHolds(client, runtime) /\ desired \in Generations
           /\ toClient \in Seq(ServerFrames) /\ toServer \in Seq(ClientFrames)
           /\ \A m \in InFlight(toServer) : ToldRightly(m, runtime)
  BY SessionInvIsHolds, Zenon DEF SessionHolds

(* restoreState and staging leave the active generation and the drain alone.   *)
LEMMA RestoredServer ==
    ASSUME NEW s \in ServerRecords, NEW g \in Generations
    PROVE  /\ restoreState(s) \in ServerRecords
           /\ restoreState(s).active = s.active /\ restoreState(s).drainStatus = s.drainStatus
           /\ ackStages(s, g) \in ServerRecords
           /\ ackStages(s, g).active = s.active /\ ackStages(s, g).drainStatus = s.drainStatus
  BY Zenon DEF ServerRecords, SessionStates, restoreState, ackStages

LEMMA OffersKeep ==
  ASSUME SessionInv, DesiredAdvances \/ OfferSnapshot \/ OfferDelta
  PROVE  SessionInv'
<1>1. /\ ServerHolds(server, runtime) /\ desired \in Generations
      /\ toClient \in Seq(ServerFrames) /\ toServer \in Seq(ClientFrames)
  BY SessionFacts, Zenon
<1>2. PICK s \in ServerRecords : s = server
  BY <1>1, Zenon DEF ServerHolds
<1>3. CASE DesiredAdvances
  <2>1. desired' \in Generations
    BY <1>1, <1>3, SessionAssumption DEF DesiredAdvances, Generations
  <2> QED  BY <1>1, <1>3, <2>1, ServerStep, Zenon DEF DesiredAdvances
<1>4. CASE OfferSnapshot
  <2>1. PICK g \in 1..desired :
          /\ server' = server \/ \E x \in SessionStates :
                 server' = [server EXCEPT !.pendingDelta = 0, !.pendingSnapshot = g, !.state = x]
          /\ toClient' = Append(toClient, Snap(g)) /\ UNCHANGED <<client, runtime, toServer, desired>>
    <3>1. server.state \in SessionStates /\ "awaiting_snapshot" \in SessionStates
      BY <1>2, Zenon DEF ServerRecords, SessionStates
    <3> QED  BY <1>4, <3>1, Zenon DEF OfferSnapshot
  <2>2. g \in Generations \ {0} /\ 0 \in Generations
    BY <1>1, SessionAssumption DEF Generations
  <2>3. ServerHolds(server', runtime)
    <3>1. \A x \in SessionStates : LET t == [s EXCEPT !.pendingDelta = 0, !.pendingSnapshot = g, !.state = x]
             IN  t \in ServerRecords /\ t.active = s.active /\ t.drainStatus = s.drainStatus
      BY <2>2, Zenon DEF ServerRecords
    <3> QED  BY <1>1, <1>2, <2>1, <3>1, Zenon DEF ServerHolds
  <2>4. Snap(g) \in ServerFrames /\ BasedOnPromoted(Snap(g), runtime)
    BY <2>2, Zenon DEF Snap, ServerFrames, BasedOnPromoted
  <2>5. toClient' \in Seq(ServerFrames) /\ InFlight(toClient') \subseteq InFlight(toClient) \cup {Snap(g)}
    BY <1>1, <2>1, <2>4, FrameSent, Zenon
  <2> QED  BY <1>1, <2>1, <2>3, <2>4, <2>5, ServerStep, Zenon
<1>5. CASE OfferDelta
  <2> DEFINE m == Delt(server.active + 1)
  <2>1. /\ server.active # 0 /\ server.active < desired /\ server' = [server EXCEPT !.pendingDelta = server.active + 1]
        /\ toClient' = Append(toClient, m) /\ UNCHANGED <<client, runtime, toServer, desired>>
    BY <1>5, Zenon DEF OfferDelta, activeIsReady
  <2>2. server.active \in Generations /\ server.active \in runtime.promoted
    BY <1>1, <1>2, <2>1, Zenon DEF ServerHolds, ServerRecords
  <2>3. server.active + 1 \in Generations \ {0} /\ (server.active + 1) - 1 = server.active
    BY <1>1, <2>1, <2>2, SessionAssumption, SMTT(30) DEF Generations
  <2>4. ServerHolds(server', runtime)
    <3>1. \A g \in Generations : LET t == [s EXCEPT !.pendingDelta = g]
             IN  t \in ServerRecords /\ t.active = s.active /\ t.drainStatus = s.drainStatus
      BY Zenon DEF ServerRecords
    <3> QED  BY <1>1, <1>2, <2>1, <2>3, <3>1, Zenon DEF ServerHolds
  <2>5. m \in ServerFrames /\ BasedOnPromoted(m, runtime)
    BY <2>2, <2>3, Zenon DEF Delt, ServerFrames, BasedOnPromoted
  <2>6. toClient' \in Seq(ServerFrames) /\ InFlight(toClient') \subseteq InFlight(toClient) \cup {m}
    <3> HIDE DEF m
    <3> QED  BY <1>1, <2>1, <2>5, FrameSent, Zenon
  <2> HIDE DEF m
  <2> QED  BY <1>1, <2>1, <2>4, <2>5, <2>6, ServerStep, Zenon
<1> QED  BY <1>3, <1>4, <1>5, Zenon

(* The frame a server handler takes.                                           *)
LEMMA FromClientFacts ==
    ASSUME SessionInv, NEW type, FromClient(type)
    PROVE  /\ Head(toServer) \in ClientFrames /\ Head(toServer).type = type
           /\ ToldRightly(Head(toServer), runtime)
           /\ toServer' \in Seq(ClientFrames) /\ InFlight(toServer') \subseteq InFlight(toServer)
  BY SessionFacts, FrameTaken, Zenon DEF FromClient

LEMMA HandlersKeep ==
  ASSUME SessionInv, HandleAck \/ HandleReadiness \/ HandleHeartbeat \/ HandleDrainAck
  PROVE  SessionInv'
<1>1. ServerHolds(server, runtime) /\ desired \in Generations /\ toClient \in Seq(ServerFrames)
  BY SessionFacts, Zenon
<1>2. PICK s \in ServerRecords : s = server
  BY <1>1, Zenon DEF ServerHolds
<1>3. 0 \in Generations
  BY SessionAssumption DEF Generations
<1> DEFINE m == Head(toServer)
<1>r. \A t \in ServerRecords, g \in Generations :
         /\ restoreState(t) \in ServerRecords
         /\ restoreState(t).active = t.active /\ restoreState(t).drainStatus = t.drainStatus
         /\ ackStages(t, g) \in ServerRecords
         /\ ackStages(t, g).active = t.active /\ ackStages(t, g).drainStatus = t.drainStatus
  BY RestoredServer, Zenon
<1>4. UNCHANGED <<client, runtime, toClient, desired>>
  BY Zenon DEF HandleAck, HandleReadiness, HandleHeartbeat, HandleDrainAck
<1>5. toServer' \in Seq(ClientFrames) /\ InFlight(toServer') \subseteq InFlight(toServer)
  BY FromClientFacts, Zenon DEF HandleAck, HandleReadiness, HandleHeartbeat, HandleDrainAck
<1>6. CASE HandleAck
  <2>1. m \in ClientFrames /\ m.type = "ack"
    BY <1>6, FromClientFacts, Zenon DEF HandleAck
  <2>2. PICK g \in Generations : g = m.generation
    BY <2>1, Zenon DEF ClientFrames
  <2>3. \A x, y \in Generations, b \in BOOLEAN :
           LET t == [s EXCEPT !.pendingSnapshot = x, !.pendingDelta = y, !.needsSnapshot = b]
           IN  t \in ServerRecords /\ t.active = s.active /\ t.drainStatus = s.drainStatus
    BY Zenon DEF ServerRecords
  <2>4. /\ [s EXCEPT !.pendingSnapshot = 0] \in ServerRecords /\ [s EXCEPT !.pendingDelta = 0] \in ServerRecords
        /\ [s EXCEPT !.pendingSnapshot = 0].active = s.active /\ [s EXCEPT !.pendingDelta = 0].active = s.active
        /\ [s EXCEPT !.pendingSnapshot = 0].drainStatus = s.drainStatus
        /\ [s EXCEPT !.pendingDelta = 0].drainStatus = s.drainStatus
    BY <1>3, Zenon DEF ServerRecords
  <2>5. ASSUME NEW t \in ServerRecords, NEW b \in BOOLEAN
        PROVE  \E u \in ServerRecords :
                  u = [t EXCEPT !.needsSnapshot = b] /\ u.active = t.active /\ u.drainStatus = t.drainStatus
    <3> DEFINE w == [t EXCEPT !.needsSnapshot = b]
    <3>1. w \in ServerRecords /\ w.active = t.active /\ w.drainStatus = t.drainStatus
      BY Zenon DEF ServerRecords
    <3> HIDE DEF w
    <3>2. w = [t EXCEPT !.needsSnapshot = b]
      BY Zenon DEF w
    <3> QED  BY <3>1, <3>2, Zenon
  <2>6. /\ ackSnapshot(m) \in ServerRecords
        /\ ackSnapshot(m).active = s.active /\ ackSnapshot(m).drainStatus = s.drainStatus
    <3>1. PICK t \in ServerRecords : t = [server EXCEPT !.pendingSnapshot = 0] /\ t.active = s.active /\ t.drainStatus = s.drainStatus
      BY <1>2, <2>4, Zenon
    <3>2. PICK u \in ServerRecords : u = [t EXCEPT !.needsSnapshot = TRUE] /\ u.active = s.active /\ u.drainStatus = s.drainStatus
      <4>1. PICK u \in ServerRecords : u = [t EXCEPT !.needsSnapshot = TRUE] /\ u.active = t.active /\ u.drainStatus = t.drainStatus
        BY <2>5, Zenon
      <4> QED  BY <3>1, <4>1, Zenon
    <3>3. PICK v \in ServerRecords : v = [t EXCEPT !.needsSnapshot = FALSE] /\ v.active = s.active /\ v.drainStatus = s.drainStatus
      <4>1. PICK v \in ServerRecords : v = [t EXCEPT !.needsSnapshot = FALSE] /\ v.active = t.active /\ v.drainStatus = t.drainStatus
        BY <2>5, Zenon
      <4> QED  BY <3>1, <4>1, Zenon
    <3>4. ackSnapshot(m) \in {server, restoreState(u), ackStages(v, g)}
      BY <2>2, <3>1, <3>2, <3>3, Zenon DEF ackSnapshot
    <3> HIDE DEF m
    <3>5. CASE ackSnapshot(m) = server
      BY <1>2, <3>5, Zenon
    <3>6. CASE ackSnapshot(m) = restoreState(u)
      BY <2>2, <3>2, <3>6, <1>r, Zenon
    <3>7. CASE ackSnapshot(m) = ackStages(v, g)
      <4>1. /\ ackStages(v, g) \in ServerRecords /\ ackStages(v, g).active = v.active
            /\ ackStages(v, g).drainStatus = v.drainStatus
        BY <1>r, Zenon
      <4>2. v.active = s.active /\ v.drainStatus = s.drainStatus
        BY <3>3, Zenon
      <4> QED  BY <3>7, <4>1, <4>2, Zenon
    <3> QED  BY <3>4, <3>5, <3>6, <3>7, Zenon
  <2>7. /\ ackDelta(m) \in ServerRecords
        /\ ackDelta(m).active = s.active /\ ackDelta(m).drainStatus = s.drainStatus
    <3>1. PICK t \in ServerRecords : t = [server EXCEPT !.pendingDelta = 0] /\ t.active = s.active /\ t.drainStatus = s.drainStatus
      BY <1>2, <2>4, Zenon
    <3>2. PICK u \in ServerRecords : u = [t EXCEPT !.needsSnapshot = TRUE] /\ u.active = s.active /\ u.drainStatus = s.drainStatus
      <4>1. PICK u \in ServerRecords : u = [t EXCEPT !.needsSnapshot = TRUE] /\ u.active = t.active /\ u.drainStatus = t.drainStatus
        BY <2>5, Zenon
      <4> QED  BY <3>1, <4>1, Zenon
    <3>4. ackDelta(m) \in {server, restoreState(u), t, ackStages(t, g)}
      BY <2>2, <3>1, <3>2, Zenon DEF ackDelta
    <3> HIDE DEF m
    <3>5. CASE ackDelta(m) = server
      BY <1>2, <3>5, Zenon
    <3>6. CASE ackDelta(m) = restoreState(u)
      BY <2>2, <3>2, <3>6, <1>r, Zenon
    <3>7. CASE ackDelta(m) = t
      BY <3>1, <3>7, Zenon
    <3>8. CASE ackDelta(m) = ackStages(t, g)
      <4>1. /\ ackStages(t, g) \in ServerRecords /\ ackStages(t, g).active = t.active
            /\ ackStages(t, g).drainStatus = t.drainStatus
        BY <1>r, Zenon
      <4>2. t.active = s.active /\ t.drainStatus = s.drainStatus
        BY <3>1, Zenon
      <4> QED  BY <3>8, <4>1, <4>2, Zenon
    <3> QED  BY <3>4, <3>5, <3>6, <3>7, <3>8, Zenon
  <2>8. server' \in {ackSnapshot(m), ackDelta(m), server}
    BY <1>6, Zenon DEF HandleAck
  <2>9. ServerHolds(server', runtime)
    <3> HIDE DEF m
    <3> QED  BY <1>1, <1>2, <2>6, <2>7, <2>8, Zenon DEF ServerHolds
  <2> QED  BY <1>1, <1>4, <1>5, <2>9, ServerStep, Zenon
<1>7. CASE HandleReadiness
  <2>1. m \in ClientFrames /\ m.type = "ready" /\ ToldRightly(m, runtime)
    BY <1>7, FromClientFacts, Zenon DEF HandleReadiness
  <2>2. m.generation \in Generations /\ m.generation \in runtime.promoted
    BY <2>1, Zenon DEF ClientFrames, ToldRightly
  <2>3. server' = server \/ server' = readied(server, m.generation)
    BY <1>7, Zenon DEF HandleReadiness
  <2>4. \A g \in Generations : /\ readied(s, g) \in ServerRecords /\ readied(s, g).active = g
                               /\ readied(s, g).drainStatus = s.drainStatus
    BY <1>3, Zenon DEF readied, ServerRecords, SessionStates
  <2>5. ServerHolds(server', runtime)
    <3> HIDE DEF m
    <3> QED  BY <1>1, <1>2, <2>2, <2>3, <2>4 DEF ServerHolds
  <2> QED  BY <1>1, <1>4, <1>5, <2>5, ServerStep, Zenon
<1>8. CASE HandleHeartbeat
  <2>1. server' = server \/ server' = [server EXCEPT !.needsSnapshot = TRUE, !.readyGeneration = 0, !.state = "awaiting_snapshot"]
    BY <1>8, Zenon DEF HandleHeartbeat
  <2>2. LET t == [s EXCEPT !.needsSnapshot = TRUE, !.readyGeneration = 0, !.state = "awaiting_snapshot"]
        IN  t \in ServerRecords /\ t.active = s.active /\ t.drainStatus = s.drainStatus
    BY <1>3, Zenon DEF ServerRecords, SessionStates
  <2>3. ServerHolds(server', runtime)
    BY <1>1, <1>2, <2>1, <2>2, Zenon DEF ServerHolds
  <2> QED  BY <1>1, <1>4, <1>5, <2>3, ServerStep, Zenon
<1>9. CASE HandleDrainAck
  <2>1. m \in ClientFrames /\ m.type = "drain_ack" /\ ToldRightly(m, runtime)
    BY <1>9, FromClientFacts, Zenon DEF HandleDrainAck
  <2>2. m.status \in DrainStatuses
    BY <2>1, Zenon DEF ClientFrames
  <2>3. \A z \in DrainStatuses :
          LET u == [s EXCEPT !.drainStatus = z, !.drainCompleted = z \in {"completed", "forced", "rejected"}]
          IN  u \in ServerRecords /\ u.active = s.active /\ u.drainStatus = z
    <3> SUFFICES ASSUME NEW z \in DrainStatuses
                 PROVE  LET u == [s EXCEPT !.drainStatus = z, !.drainCompleted = z \in {"completed", "forced", "rejected"}]
                        IN  u \in ServerRecords /\ u.active = s.active /\ u.drainStatus = z
      BY Zenon
    <3>1. \A d \in BOOLEAN : LET u == [s EXCEPT !.drainStatus = z, !.drainCompleted = d]
                           IN  u \in ServerRecords /\ u.active = s.active /\ u.drainStatus = z
      BY Zenon DEF ServerRecords
    <3>2. CASE z \in {"completed", "forced", "rejected"}
      <4>1. (z \in {"completed", "forced", "rejected"}) = TRUE
        BY <3>2, Zenon
      <4> QED  BY <3>1, <4>1, Zenon
    <3>3. CASE z \notin {"completed", "forced", "rejected"}
      <4>1. (z \in {"completed", "forced", "rejected"}) = FALSE
        BY <3>3
      <4> QED  BY <3>1, <4>1, Zenon
    <3> QED  BY <3>2, <3>3, Zenon
  <2>p. PICK z \in DrainStatuses : z = m.status
    BY <2>2, Zenon
  <2>4. PICK t \in ServerRecords :
          /\ t = [server EXCEPT !.drainStatus = z, !.drainCompleted = z \in {"completed", "forced", "rejected"}]
          /\ t.active = s.active /\ t.drainStatus = z
    BY <1>2, <2>3, Zenon
  <2>5. server' \in {server, t, restoreState(t)}
    BY <1>9, <2>p, <2>4, Zenon DEF HandleDrainAck
  <2>6. ServerHolds(server', runtime)
    <3>1. z \in {"completed", "forced"} => runtime.streams = 0 /\ ~runtime.admitting
      BY <2>1, <2>p, Zenon DEF ToldRightly
    <3> HIDE DEF m
    <3> QED  BY <1>1, <1>2, <1>3, <2>4, <2>5, <3>1, <1>r, ZenonT(30) DEF ServerHolds
  <2> QED  BY <1>1, <1>4, <1>5, <2>6, ServerStep, Zenon
<1> QED  BY <1>6, <1>7, <1>8, <1>9, Zenon

LEMMA ServerDrainsKeep ==
  ASSUME SessionInv, BeginDrain \/ BeginDrainAgain \/ ServerCloses
  PROVE  SessionInv'
<1>1. /\ ServerHolds(server, runtime) /\ desired \in Generations
      /\ toClient \in Seq(ServerFrames) /\ toServer \in Seq(ClientFrames)
  BY SessionFacts, Zenon
<1>2. PICK s \in ServerRecords : s = server
  BY <1>1, Zenon DEF ServerHolds
<1>3. \A g \in Generations : g # 0 => Drn(g) \in ServerFrames /\ BasedOnPromoted(Drn(g), runtime)
  BY Zenon DEF Drn, ServerFrames, BasedOnPromoted
<1>4. CASE BeginDrain
  <2>1. /\ server' = [server EXCEPT !.drain = server.active, !.drainStatus = "accepted",
                                    !.drainCompleted = FALSE, !.state = "draining"]
        /\ server.active # 0 /\ toClient' = Append(toClient, Drn(server.active))
        /\ UNCHANGED <<client, runtime, toServer, desired>>
    BY <1>4, Zenon DEF BeginDrain, activeIsReady
  <2>2. server.active \in Generations
    BY <1>2, Zenon DEF ServerRecords
  <2>3. LET t == [s EXCEPT !.drain = s.active, !.drainStatus = "accepted", !.drainCompleted = FALSE, !.state = "draining"]
        IN  t \in ServerRecords /\ t.active = s.active /\ t.drainStatus = "accepted"
    BY Zenon DEF ServerRecords, SessionStates, DrainStatuses
  <2>4. ServerHolds(server', runtime)
    BY <1>1, <1>2, <2>1, <2>3, Zenon DEF ServerHolds
  <2>5. toClient' \in Seq(ServerFrames) /\ InFlight(toClient') \subseteq InFlight(toClient) \cup {Drn(server.active)}
    BY <1>1, <1>3, <2>1, <2>2, FrameSent, Zenon
  <2> QED  BY <1>1, <1>3, <2>1, <2>2, <2>4, <2>5, ServerStep, Zenon
<1>5. CASE BeginDrainAgain
  <2>1. /\ server.drain # 0 /\ toClient' = Append(toClient, Drn(server.drain))
        /\ UNCHANGED <<server, client, runtime, toServer, desired>>
    BY <1>5, Zenon DEF BeginDrainAgain
  <2>2. server.drain \in Generations
    BY <1>2, Zenon DEF ServerRecords
  <2>3. toClient' \in Seq(ServerFrames) /\ InFlight(toClient') \subseteq InFlight(toClient) \cup {Drn(server.drain)}
    BY <1>1, <1>3, <2>1, <2>2, FrameSent, Zenon
  <2> QED  BY <1>1, <1>3, <2>1, <2>2, <2>3, ServerStep, Zenon
<1>6. CASE ServerCloses
  <2>1. LET t == [s EXCEPT !.state = "closed"]
        IN  t \in ServerRecords /\ t.active = s.active /\ t.drainStatus = s.drainStatus
    BY Zenon DEF ServerRecords, SessionStates
  <2>2. ServerHolds(server', runtime)
    BY <1>1, <1>2, <1>6, <2>1, Zenon DEF ServerHolds, ServerCloses
  <2> QED  BY <1>1, <1>6, <2>2, ServerStep, Zenon DEF ServerCloses
<1> QED  BY <1>4, <1>5, <1>6, Zenon

(* What a step of the connector leaves in the two queues.                      *)
Answered ==
    /\ toServer' \in Seq(ClientFrames)
    /\ \A m \in InFlight(toServer') : m \in InFlight(toServer) \/ ToldRightly(m, runtime')
TakenOrKept == toClient' \in Seq(ServerFrames) /\ InFlight(toClient') \subseteq InFlight(toClient)

LEMMA SilentAnswers ==
    ASSUME SessionInv, UNCHANGED toServer  PROVE  Answered
  BY SessionFacts, Zenon DEF Answered

LEMMA ReplyAnswers ==
    ASSUME SessionInv, NEW m \in ClientFrames, Reply(m), ToldRightly(m, runtime')  PROVE  Answered
<1>1. toServer' \in Seq(ClientFrames) /\ InFlight(toServer') \subseteq InFlight(toServer) \cup {m}
  BY SessionFacts, FrameSent, Zenon DEF Reply
<1> QED  BY <1>1, Zenon DEF Answered

LEMMA AckAnswers ==
    ASSUME SessionInv, NEW k \in {"snapshot", "delta"}, NEW g \in Generations,
           NEW st \in {"applied", "duplicate", "rejected", "snapshot_required"}, Reply(Ack(k, st, g))
    PROVE  Answered
<1>1. Ack(k, st, g) \in ClientFrames /\ ToldRightly(Ack(k, st, g), runtime')
  BY Zenon DEF Ack, ClientFrames, ToldRightly
<1> QED  BY <1>1, ReplyAnswers, Zenon

LEMMA DrainAckAnswers ==
    ASSUME SessionInv, NEW g \in Generations, NEW st \in DrainStatuses, Reply(DrainAck(st, g)),
           st \in {"completed", "forced"} => runtime'.streams = 0 /\ ~runtime'.admitting
    PROVE  Answered
<1>1. DrainAck(st, g) \in ClientFrames /\ ToldRightly(DrainAck(st, g), runtime')
  BY Zenon DEF DrainAck, ClientFrames, ToldRightly
<1> QED  BY <1>1, ReplyAnswers, Zenon

(* Handlers that leave the runtime alone.                                      *)
LEMMA ClientOnly ==
    ASSUME SessionInv, UNCHANGED <<server, desired, runtime>>, ClientHolds(client', runtime), TakenOrKept, Answered
    PROVE  SessionInv'
  BY SessionFacts, ConnectorStep, Zenon DEF TakenOrKept, Answered

LEMMA FromServerFacts ==
    ASSUME SessionInv, NEW type, FromServer(type)
    PROVE  /\ Head(toClient).generation \in Generations \ {0} /\ TakenOrKept
           /\ client.applying.kind = "none" /\ client.stopping = "no" /\ client.state # "closed"
<1>1. Head(toClient) \in ServerFrames /\ TakenOrKept
  BY SessionFacts, FrameTaken, Zenon DEF FromServer, TakenOrKept
<1> QED  BY <1>1, Zenon DEF FromServer, handlerFree, ServerFrames

LEMMA QueueKept ==
    ASSUME SessionInv, UNCHANGED toClient  PROVE  TakenOrKept
  BY SessionFacts, Zenon DEF TakenOrKept

(* An apply begins.                                                            *)
LEMMA ApplyBegins ==
    ASSUME NEW c, NEW r, ClientHolds(c, r), c.stopping = "no", c.activating = 0,
           NEW k \in {"snapshot", "delta"}, NEW g \in Generations \ {0}
    PROVE  ClientHolds([c EXCEPT !.applying = [kind |-> k, generation |-> g]], r)
<1>1. PICK d \in ClientRecords : d = c
  BY Zenon DEF ClientHolds
<1>2. PICK a \in [kind : {"none", "snapshot", "delta"}, generation : Generations] :
        a = [kind |-> k, generation |-> g] /\ a.generation # 0
  <2>1. [kind |-> k, generation |-> g] \in [kind : {"none", "snapshot", "delta"}, generation : Generations]
    BY Zenon
  <2>2. [kind |-> k, generation |-> g].generation # 0
    BY Zenon
  <2> QED  BY <2>1, <2>2, Zenon
<1>3. [d EXCEPT !.applying = a] \in ClientRecords
  BY Zenon DEF ClientRecords
<1> QED  BY <1>1, <1>2, <1>3, Zenon DEF ClientHolds, ClientRecords

LEMMA NeedsSnapshotHolds ==
    ASSUME NEW c, NEW r, ClientHolds(c, r)
    PROVE  ClientHolds([c EXCEPT !.needsSnapshot = TRUE], r)
<1>1. PICK d \in ClientRecords : d = c
  BY Zenon DEF ClientHolds
<1> QED  BY <1>1, Zenon DEF ClientHolds, ClientRecords

LEMMA ApplySnapshotKeeps ==
  ASSUME SessionInv, ApplySnapshot  PROVE  SessionInv'
<1>1. ClientHolds(client, runtime)
  BY SessionFacts, Zenon
<1>2. /\ Head(toClient).generation \in Generations \ {0} /\ TakenOrKept
      /\ client.stopping = "no" /\ client.activating = 0 /\ UNCHANGED <<server, desired, runtime>>
  BY FromServerFacts, Zenon DEF ApplySnapshot, applyMuFree
<1>3. PICK g \in Generations \ {0} : g = Head(toClient).generation
  BY <1>2, Zenon
<1>4. \/ (\E st \in {"duplicate", "rejected"} : Reply(Ack("snapshot", st, g))) /\ UNCHANGED client
      \/ client' = [client EXCEPT !.applying = [kind |-> "snapshot", generation |-> g]] /\ UNCHANGED toServer
  BY <1>3, Zenon DEF ApplySnapshot
<1>5. CASE (\E st \in {"duplicate", "rejected"} : Reply(Ack("snapshot", st, g))) /\ UNCHANGED client
  BY <1>1, <1>2, <1>5, AckAnswers, ClientOnly, Zenon
<1>6. CASE client' = [client EXCEPT !.applying = [kind |-> "snapshot", generation |-> g]] /\ UNCHANGED toServer
  <2>1. ClientHolds(client', runtime)
    BY <1>1, <1>2, <1>6, ApplyBegins, Zenon
  <2> QED  BY <1>2, <1>6, <2>1, SilentAnswers, ClientOnly, Zenon
<1> QED  BY <1>4, <1>5, <1>6, Zenon

LEMMA ApplyDeltaKeeps ==
  ASSUME SessionInv, ApplyDelta  PROVE  SessionInv'
<1>1. ClientHolds(client, runtime)
  BY SessionFacts, Zenon
<1>2. /\ Head(toClient).generation \in Generations \ {0} /\ TakenOrKept
      /\ client.stopping = "no" /\ client.activating = 0 /\ UNCHANGED <<server, desired, runtime>>
  BY FromServerFacts, Zenon DEF ApplyDelta, applyMuFree
<1>3. PICK g \in Generations \ {0} : g = Head(toClient).generation
  BY <1>2, Zenon
<1>4. \/ /\ \E st \in {"snapshot_required", "rejected"} : Reply(Ack("delta", st, g))
         /\ client' = client \/ client' = [client EXCEPT !.needsSnapshot = TRUE]
      \/ client' = [client EXCEPT !.applying = [kind |-> "delta", generation |-> g]] /\ UNCHANGED toServer
  BY <1>3, Zenon DEF ApplyDelta
<1>5. CASE /\ \E st \in {"snapshot_required", "rejected"} : Reply(Ack("delta", st, g))
           /\ client' = client \/ client' = [client EXCEPT !.needsSnapshot = TRUE]
  <2>1. ClientHolds(client', runtime)
    BY <1>1, <1>5, NeedsSnapshotHolds, Zenon
  <2> QED  BY <1>2, <1>5, <2>1, AckAnswers, ClientOnly, Zenon
<1>6. CASE client' = [client EXCEPT !.applying = [kind |-> "delta", generation |-> g]] /\ UNCHANGED toServer
  <2>1. ClientHolds(client', runtime)
    BY <1>1, <1>2, <1>6, ApplyBegins, Zenon
  <2> QED  BY <1>2, <1>6, <2>1, SilentAnswers, ClientOnly, Zenon
<1> QED  BY <1>4, <1>5, <1>6, Zenon

LEMMA SessionBeatsKeep ==
  ASSUME SessionInv, MarkReadyContext \/ Heartbeat \/ SendHeartbeat \/ ClientExpires
  PROVE  SessionInv'
<1>1. ClientHolds(client, runtime) /\ UNCHANGED <<server, desired, runtime>> /\ TakenOrKept
  BY SessionFacts, QueueKept, Zenon DEF MarkReadyContext, Heartbeat, SendHeartbeat, ClientExpires
<1>2. PICK c \in ClientRecords : c = client
  BY <1>1, Zenon DEF ClientHolds
<1>3. 0 \in Generations
  BY SessionAssumption DEF Generations
<1>4. CASE MarkReadyContext
  <2>1. ClientHolds([c EXCEPT !.activating = c.prepared], runtime)
    BY <1>1, <1>2, <1>4, Zenon DEF ClientHolds, ClientRecords, MarkReadyContext, applyMuFree
  <2> QED  BY <1>1, <1>2, <1>4, <2>1, SilentAnswers, ClientOnly, Zenon DEF MarkReadyContext
<1>5. CASE Heartbeat
  <2>1. \A g \in Generations : ClientHolds([c EXCEPT !.heartbeat = g], runtime)
    BY <1>1, <1>2, Zenon DEF ClientHolds, ClientRecords
  <2>2. \E g \in Generations : client' = [c EXCEPT !.heartbeat = g]
    BY <1>2, <1>5, Zenon DEF Heartbeat, ClientRecords
  <2> QED  BY <1>1, <1>5, <2>1, <2>2, SilentAnswers, ClientOnly, Zenon DEF Heartbeat
<1>6. CASE SendHeartbeat
  <2>1. ClientHolds([c EXCEPT !.heartbeat = 0], runtime)
    BY <1>1, <1>2, <1>3, Zenon DEF ClientHolds, ClientRecords
  <2>2. PICK g \in Generations : g = client.heartbeat
    BY <1>2, Zenon DEF ClientRecords
  <2>3. Beat(g) \in ClientFrames /\ ToldRightly(Beat(g), runtime')
    BY Zenon DEF Beat, ClientFrames, ToldRightly
  <2>4. Answered
    BY <1>6, <2>2, <2>3, ReplyAnswers, Zenon DEF SendHeartbeat
  <2> QED  BY <1>1, <1>2, <1>6, <2>1, <2>4, ClientOnly, Zenon DEF SendHeartbeat
<1>7. CASE ClientExpires
  <2>1. ClientHolds([c EXCEPT !.state = "closed"], runtime)
    BY <1>1, <1>2, <1>7, Zenon DEF ClientHolds, ClientRecords, SessionStates, ClientExpires
  <2> QED  BY <1>1, <1>2, <1>7, <2>1, SilentAnswers, ClientOnly, Zenon DEF ClientExpires
<1> QED  BY <1>4, <1>5, <1>6, <1>7, Zenon

LEMMA HandleDrainKeeps ==
  ASSUME SessionInv, HandleDrain  PROVE  SessionInv'
<1>1. ClientHolds(client, runtime)
  BY SessionFacts, Zenon
<1>2. PICK c \in ClientRecords : c = client
  BY <1>1, Zenon DEF ClientHolds
<1>3. /\ Head(toClient).generation \in Generations \ {0} /\ TakenOrKept /\ UNCHANGED <<server, desired, runtime>>
      /\ client.applying.kind = "none" /\ client.stopping = "no" /\ client.state # "closed"
  BY FromServerFacts, Zenon DEF HandleDrain
<1>4. PICK g \in Generations \ {0} : g = Head(toClient).generation
  BY <1>3, Zenon
<1>5. CASE UNCHANGED client /\ \E st \in {client.drainStatus, "rejected"} : Reply(DrainAck(st, g))
  <2>1. client.drainStatus \in DrainStatuses /\ "rejected" \in DrainStatuses
    BY <1>2, Zenon DEF ClientRecords, DrainStatuses
  <2>2. PICK st \in DrainStatuses : st \in {client.drainStatus, "rejected"} /\ Reply(DrainAck(st, g))
    BY <1>5, <2>1, Zenon
  <2>3. st \in {"completed", "forced"} => runtime'.streams = 0 /\ ~runtime'.admitting
    BY <1>1, <1>3, <2>2, Zenon DEF ClientHolds
  <2>4. Answered
    BY <2>2, <2>3, DrainAckAnswers, Zenon
  <2> QED  BY <1>1, <1>3, <1>5, <2>4, ClientOnly, Zenon
<1>6. CASE /\ client' = [client EXCEPT !.drain = g, !.drainStatus = "accepted", !.drainCompleted = FALSE,
                                       !.state = "draining", !.stopping = "stop"]
           /\ g = client.active /\ client.readyGeneration = client.active /\ UNCHANGED toServer
  <2> DEFINE d == [c EXCEPT !.drain = g, !.drainStatus = "accepted", !.drainCompleted = FALSE,
                            !.state = "draining", !.stopping = "stop"]
  <2>1. /\ d \in ClientRecords /\ d.drain = g /\ d.drainStatus = "accepted" /\ d.stopping = "stop"
        /\ d.prepared = c.prepared /\ d.applying = c.applying /\ d.activating = c.activating
        /\ d.active = c.active /\ d.readyGeneration = c.readyGeneration
    BY Zenon DEF ClientRecords, SessionStates, DrainStatuses
  <2>d. client' = d
    BY <1>2, <1>6, Zenon
  <2> HIDE DEF d
  <2>2. ClientHolds(d, runtime)
    BY <1>1, <1>2, <1>3, <1>6, <2>1, Zenon DEF ClientHolds
  <2> QED  BY <1>3, <1>6, <2>d, <2>2, SilentAnswers, ClientOnly, Zenon
<1> QED  BY <1>4, <1>5, <1>6, Zenon DEF HandleDrain

(* Steps of the connector that change the runtime too.                         *)
LEMMA RuntimeStep ==
    ASSUME SessionInv, UNCHANGED <<server, desired>>, ClientHolds(client', runtime'), TakenOrKept, Answered,
           runtime.promoted \subseteq runtime'.promoted,
           runtime.streams = 0 /\ ~runtime.admitting => runtime'.streams = 0 /\ ~runtime'.admitting
    PROVE  SessionInv'
  BY ConnectorStep, Zenon DEF TakenOrKept, Answered

(* Failed, Abort and staging change neither what is served and promoted nor    *)
(* the streams.                                                                *)
SameService(r, s) ==
    /\ s \in RuntimeRecords /\ s.serving = r.serving /\ s.promoted = r.promoted
    /\ s.admitting = r.admitting /\ s.streams = r.streams

LEMMA RuntimeUpdates ==
    ASSUME NEW r \in RuntimeRecords, NEW g \in Generations
    PROVE  /\ r.failures < MaxFailures => SameService(r, Failed(r)) /\ Failed(r).staged = r.staged
           /\ SameService(r, Abort(r, g)) /\ Abort(r, g).staged = r.staged \ {g}
           /\ SameService(r, [r EXCEPT !.staged = @ \cup {g}])
           /\ [r EXCEPT !.staged = @ \cup {g}].staged = r.staged \cup {g}
<1>1. ASSUME r.failures < MaxFailures  PROVE  SameService(r, Failed(r)) /\ Failed(r).staged = r.staged
  <2>1. r.failures + 1 \in 0..MaxFailures
    BY <1>1, SessionAssumption DEF RuntimeRecords
  <2> QED  BY <2>1, Zenon DEF SameService, Failed, RuntimeRecords
<1>2. SameService(r, Abort(r, g)) /\ Abort(r, g).staged = r.staged \ {g}
  BY Zenon DEF SameService, Abort, RuntimeRecords
<1>3. /\ SameService(r, [r EXCEPT !.staged = @ \cup {g}])
      /\ [r EXCEPT !.staged = @ \cup {g}].staged = r.staged \cup {g}
  BY Zenon DEF SameService, RuntimeRecords
<1> QED  BY <1>1, <1>2, <1>3, Zenon

LEMMA SameServiceAgain ==
    ASSUME NEW r, NEW s, NEW t, SameService(r, s), SameService(s, t)  PROVE  SameService(r, t)
  BY Zenon DEF SameService

LEMMA PrepareReturnsKeeps ==
  ASSUME SessionInv, PrepareReturns  PROVE  SessionInv'
<1>1. ClientHolds(client, runtime) /\ UNCHANGED <<server, desired>> /\ TakenOrKept
  BY SessionFacts, QueueKept, Zenon DEF PrepareReturns
<1>2. PICK c \in ClientRecords, r \in RuntimeRecords : c = client /\ r = runtime
  BY <1>1, Zenon DEF ClientHolds
<1>3. PICK k \in {"snapshot", "delta"}, g \in Generations : k = client.applying.kind /\ g = client.applying.generation
  BY <1>2, Zenon DEF PrepareReturns, ClientRecords
<1>4. c.applying.kind # "none" /\ c.activating = 0 /\ g # 0 /\ c.stopping = "no"
  BY <1>1, <1>2, <1>3, Zenon DEF ClientHolds
<1> DEFINE n == notApplying
           staged == [r EXCEPT !.staged = @ \cup {g}]
<1>5. /\ n \in ClientRecords /\ n.applying.kind = "none"
      /\ \A f \in {"state", "active", "candidate", "prepared", "needsSnapshot", "readyGeneration", "drain",
                    "drainStatus", "drainCompleted", "activating", "stopping", "heartbeat"} : n[f] = c[f]
  <2>1. PICK a \in [kind : {"none", "snapshot", "delta"}, generation : Generations] :
          a = [kind |-> "none", generation |-> 0] /\ a.kind = "none"
    <3>1. 0 \in Generations
      BY SessionAssumption DEF Generations
    <3>2. [kind |-> "none", generation |-> 0] \in [kind : {"none", "snapshot", "delta"}, generation : Generations]
      BY <3>1, Zenon
    <3>3. [kind |-> "none", generation |-> 0].kind = "none"
      BY Zenon
    <3> QED  BY <3>2, <3>3, Zenon
  <2>2. n = [c EXCEPT !.applying = a]
    BY <1>2, <2>1, Zenon DEF notApplying
  <2> QED  BY <2>1, <2>2, Zenon DEF ClientRecords
<1>6. /\ staged \in RuntimeRecords /\ SameService(r, staged) /\ staged.staged = r.staged \cup {g}
  BY RuntimeUpdates, Zenon DEF SameService
<1>7. /\ r.failures < MaxFailures => SameService(r, Failed(r)) /\ Failed(r).staged = r.staged
      /\ SameService(r, Abort(staged, g)) /\ Abort(staged, g).staged = staged.staged \ {g}
  <2> HIDE DEF staged
  <2> QED  BY <1>6, RuntimeUpdates, SameServiceAgain, Zenon
<1>8. ASSUME client' = n, SameService(r, runtime'), runtime'.staged \subseteq r.staged, Answered
      PROVE  SessionInv'
  <2>1. ClientHolds(client', runtime')
    <3>1. /\ client' \in ClientRecords /\ client'.applying.kind = "none" /\ client'.state = c.state
          /\ client'.active = c.active /\ client'.prepared = c.prepared /\ client'.readyGeneration = c.readyGeneration
          /\ client'.drain = c.drain /\ client'.drainStatus = c.drainStatus /\ client'.drainCompleted = c.drainCompleted
          /\ client'.activating = c.activating /\ client'.stopping = c.stopping
      <4> HIDE DEF n
      <4> QED  BY <1>5, <1>8, Zenon
    <3> QED  BY <1>1, <1>2, <1>4, <1>8, <3>1, Zenon DEF ClientHolds, SameService
  <2> QED  BY <1>1, <1>2, <1>8, <2>1, RuntimeStep, Zenon DEF SameService
<1>9. CASE Fails /\ runtime' = Failed(runtime) /\ client' = notApplying /\ Reply(Ack(k, "rejected", g))
  <2>1. Answered
    BY <1>9, AckAnswers, Zenon
  <2> QED  BY <1>2, <1>7, <1>8, <1>9, <2>1, Zenon DEF Fails
<1>10. CASE /\ runtime' = Abort([runtime EXCEPT !.staged = @ \cup {g}], g) /\ client' = notApplying
            /\ UNCHANGED toServer \/ Reply(Ack(k, "rejected", g))
  <2>1. Answered
    BY <1>10, AckAnswers, SilentAnswers, Zenon
  <2>2. runtime' = Abort(staged, g)
    BY <1>2, <1>10, Zenon
  <2>3. SameService(r, runtime') /\ runtime'.staged \subseteq r.staged
    <3> HIDE DEF staged
    <3> QED  BY <1>6, <1>7, <2>2, Zenon
  <2> QED  BY <1>8, <1>10, <2>1, <2>3, Zenon
<1>11. CASE /\ client.state # "closed" /\ client.prepared = 0
            /\ runtime' = [runtime EXCEPT !.staged = @ \cup {g}]
            /\ client' = [notApplying EXCEPT !.candidate = g, !.prepared = g, !.readyGeneration = 0,
                                !.needsSnapshot = IF k = "snapshot" THEN FALSE ELSE @,
                                !.state = "awaiting_ready"]
            /\ Reply(Ack(k, "applied", g))
  <2>1. Answered
    BY <1>11, AckAnswers, Zenon
  <2>2. runtime' = staged
    BY <1>2, <1>11, Zenon
  <2> DEFINE d == [n EXCEPT !.candidate = g, !.prepared = g, !.readyGeneration = 0,
                            !.needsSnapshot = IF k = "snapshot" THEN FALSE ELSE @, !.state = "awaiting_ready"]
  <2>3. client' = d
    BY <1>11, Zenon
  <2>4. /\ d \in ClientRecords /\ d.applying.kind = "none" /\ d.prepared = g /\ d.readyGeneration = 0
        /\ d.active = c.active /\ d.drain = c.drain /\ d.drainStatus = c.drainStatus
        /\ d.drainCompleted = c.drainCompleted /\ d.activating = 0 /\ d.stopping = "no"
    <3> HIDE DEF n
    <3>1. 0 \in Generations
      BY SessionAssumption DEF Generations
    <3>2. PICK m \in ClientRecords : m = n
      BY <1>5, Zenon
    <3>3. /\ m.active = c.active /\ m.drain = c.drain /\ m.drainStatus = c.drainStatus /\ m.applying.kind = "none"
          /\ m.drainCompleted = c.drainCompleted /\ m.activating = 0 /\ m.stopping = "no"
      BY <1>4, <1>5, <3>2, Zenon
    <3> DEFINE e == [m EXCEPT !.candidate = g, !.prepared = g, !.readyGeneration = 0,
                              !.needsSnapshot = IF k = "snapshot" THEN FALSE ELSE @, !.state = "awaiting_ready"]
    <3>4. /\ e \in ClientRecords /\ e.applying = m.applying /\ e.prepared = g /\ e.readyGeneration = 0
          /\ e.active = m.active /\ e.drain = m.drain /\ e.drainStatus = m.drainStatus
          /\ e.drainCompleted = m.drainCompleted /\ e.activating = m.activating /\ e.stopping = m.stopping
      BY <3>1, Zenon DEF ClientRecords, SessionStates
    <3>5. d = e
      BY <3>2, Zenon
    <3> HIDE DEF d, e
    <3>6. e.applying.kind = "none"
      BY <3>3, <3>4, Zenon
    <3> QED  BY <3>3, <3>4, <3>5, <3>6, Zenon
  <2>5. ClientHolds(client', runtime')
    <3>1. runtime' \in RuntimeRecords /\ SameService(r, runtime') /\ runtime'.staged = r.staged \cup {g}
      BY <1>6, <2>2, Zenon
    <3>2. c.state # "closed" /\ c.prepared = 0
      BY <1>2, <1>11, Zenon
    <3> HIDE DEF d
    <3> QED  BY <1>1, <1>2, <1>4, <2>3, <2>4, <3>1, <3>2, Zenon DEF ClientHolds, SameService
  <2>6. SameService(r, runtime')
    BY <1>6, <2>2, Zenon
  <2> QED  BY <1>1, <1>2, <2>1, <2>5, <2>6, RuntimeStep, Zenon DEF SameService
<1> QED  BY <1>3, <1>9, <1>10, <1>11, Zenon DEF PrepareReturns

(* restoreClientState changes the state only, and does not close.              *)
LEMMA RestoredClient ==
    ASSUME NEW c \in ClientRecords
    PROVE  /\ restoreClientState(c) \in ClientRecords
           /\ \A f \in {"active", "candidate", "prepared", "needsSnapshot", "readyGeneration", "drain", "drainStatus",
                         "drainCompleted", "applying", "activating", "stopping", "heartbeat"} :
                  restoreClientState(c)[f] = c[f]
  BY Zenon DEF restoreClientState, ClientRecords, SessionStates

LEMMA ActivateReturnsKeeps ==
  ASSUME SessionInv, ActivateReturns  PROVE  SessionInv'
<1>1. ClientHolds(client, runtime) /\ UNCHANGED <<server, desired>> /\ TakenOrKept
  BY SessionFacts, QueueKept, Zenon DEF ActivateReturns
<1>2. PICK c \in ClientRecords, r \in RuntimeRecords : c = client /\ r = runtime
  BY <1>1, Zenon DEF ClientHolds
<1>3. PICK g \in Generations : g = client.activating
  BY <1>2, Zenon DEF ClientRecords
<1>4. /\ g # 0 /\ c.applying.kind = "none" /\ c.prepared = g /\ c.stopping = "no"
      /\ r.serving = c.active /\ r.staged \subseteq {g}
  BY <1>1, <1>2, <1>3, Zenon DEF ClientHolds, ActivateReturns, ClientRecords
<1>5. 0 \in Generations
  BY SessionAssumption DEF Generations
<1>6. CASE /\ Fails /\ runtime' = Abort(Failed(runtime), g) /\ UNCHANGED toServer
           /\ client' = restoreClientState([[client EXCEPT !.activating = 0] EXCEPT !.candidate = 0, !.prepared = 0,
                                                                              !.needsSnapshot = TRUE])
  <2>1. SameService(r, runtime') /\ runtime'.staged = {}
    <3>1. SameService(r, Failed(r)) /\ Failed(r).staged = r.staged /\ Failed(r) \in RuntimeRecords
      BY <1>2, <1>3, <1>6, RuntimeUpdates, Zenon DEF Fails, SameService
    <3>2. SameService(Failed(r), Abort(Failed(r), g)) /\ Abort(Failed(r), g).staged = Failed(r).staged \ {g}
      BY <3>1, RuntimeUpdates, Zenon
    <3> QED  BY <1>2, <1>4, <1>6, <3>1, <3>2, SameServiceAgain, Zenon
  <2> DEFINE d == [[c EXCEPT !.activating = 0] EXCEPT !.candidate = 0, !.prepared = 0, !.needsSnapshot = TRUE]
  <2>2. /\ d \in ClientRecords /\ d.applying = c.applying /\ d.prepared = 0 /\ d.activating = 0
        /\ d.active = c.active /\ d.drain = c.drain /\ d.drainStatus = c.drainStatus
        /\ d.drainCompleted = c.drainCompleted /\ d.stopping = c.stopping
    BY <1>5, Zenon DEF ClientRecords
  <2>3. client' = restoreClientState(d)
    BY <1>2, <1>6, Zenon
  <2> HIDE DEF d
  <2>4. /\ client' \in ClientRecords /\ client'.applying = c.applying /\ client'.prepared = 0 /\ client'.activating = 0
        /\ client'.active = c.active /\ client'.drain = c.drain /\ client'.drainStatus = c.drainStatus
        /\ client'.drainCompleted = c.drainCompleted /\ client'.stopping = c.stopping
    BY <2>2, <2>3, RestoredClient, Zenon
  <2>5. ClientHolds(client', runtime')
    BY <1>1, <1>2, <1>4, <2>1, <2>4, Zenon DEF ClientHolds, SameService
  <2> QED  BY <1>1, <1>2, <1>6, <2>1, <2>5, SilentAnswers, RuntimeStep, Zenon DEF SameService
<1>8. LET s == [r EXCEPT !.serving = g, !.staged = @ \ {g}]
      IN  /\ s \in RuntimeRecords /\ s.serving = g /\ s.staged = r.staged \ {g} /\ s.promoted = r.promoted
          /\ s.admitting = r.admitting /\ s.streams = r.streams
  BY Zenon DEF RuntimeRecords
<1>9. CASE /\ client.state = "closed" /\ UNCHANGED toServer
           /\ runtime' = [runtime EXCEPT !.serving = g, !.staged = @ \ {g}]
           /\ client' = [client EXCEPT !.activating = 0]
  <2>1. /\ runtime' \in RuntimeRecords /\ runtime'.promoted = r.promoted
        /\ runtime'.admitting = r.admitting /\ runtime'.streams = r.streams
    BY <1>2, <1>8, <1>9, Zenon
  <2>2. LET d == [c EXCEPT !.activating = 0]
        IN  /\ d \in ClientRecords /\ d.applying = c.applying /\ d.prepared = c.prepared /\ d.activating = 0
            /\ d.active = c.active /\ d.drain = c.drain /\ d.drainStatus = c.drainStatus /\ d.state = c.state
            /\ d.drainCompleted = c.drainCompleted /\ d.stopping = c.stopping /\ d.readyGeneration = c.readyGeneration
    BY <1>5, Zenon DEF ClientRecords
  <2>3. /\ client' \in ClientRecords /\ client'.applying = c.applying /\ client'.prepared = c.prepared
        /\ client'.activating = 0 /\ client'.active = c.active /\ client'.drain = c.drain
        /\ client'.drainStatus = c.drainStatus /\ client'.state = c.state /\ client'.stopping = c.stopping
        /\ client'.drainCompleted = c.drainCompleted /\ client'.readyGeneration = c.readyGeneration
    BY <1>2, <1>9, <2>2, Zenon
  <2>4. ClientHolds(client', runtime')
    <3>1. client.state = "closed"
      BY <1>9, Zenon
    <3> QED  BY <1>1, <1>2, <1>4, <2>1, <2>3, <3>1, Zenon DEF ClientHolds
  <2>5. Answered
    BY <1>9, SilentAnswers, Zenon
  <2> QED  BY <1>1, <1>2, <2>1, <2>4, <2>5, RuntimeStep, Zenon
<1>10. CASE /\ client.state # "closed" /\ Reply(Ready(g))
            /\ runtime' = [[runtime EXCEPT !.serving = g, !.staged = @ \ {g}] EXCEPT !.promoted = @ \cup {g}]
            /\ client' = [[client EXCEPT !.activating = 0] EXCEPT !.active = g, !.candidate = 0, !.prepared = 0,
                                 !.needsSnapshot = FALSE, !.readyGeneration = g, !.state = "ready"]
  <2>1. /\ runtime' \in RuntimeRecords /\ runtime'.promoted = r.promoted \cup {g} /\ runtime'.serving = g
        /\ runtime'.staged = {} /\ runtime'.admitting = r.admitting /\ runtime'.streams = r.streams
    <3> DEFINE s == [[r EXCEPT !.serving = g, !.staged = @ \ {g}] EXCEPT !.promoted = @ \cup {g}]
    <3>1. /\ s \in RuntimeRecords /\ s.serving = g /\ s.staged = r.staged \ {g} /\ s.promoted = r.promoted \cup {g}
          /\ s.admitting = r.admitting /\ s.streams = r.streams
      BY Zenon DEF RuntimeRecords
    <3>2. runtime' = s
      BY <1>2, <1>10, Zenon
    <3> HIDE DEF s
    <3> QED  BY <1>4, <3>1, <3>2, Zenon
  <2> DEFINE d == [[c EXCEPT !.activating = 0] EXCEPT !.active = g, !.candidate = 0, !.prepared = 0,
                         !.needsSnapshot = FALSE, !.readyGeneration = g, !.state = "ready"]
  <2>2. /\ d \in ClientRecords /\ d.applying = c.applying /\ d.prepared = 0 /\ d.activating = 0
        /\ d.active = g /\ d.drain = c.drain /\ d.drainStatus = c.drainStatus
        /\ d.drainCompleted = c.drainCompleted /\ d.stopping = c.stopping
    BY <1>5, Zenon DEF ClientRecords, SessionStates
  <2>3. client' = d
    BY <1>2, <1>10, Zenon
  <2> HIDE DEF d
  <2>4. ClientHolds(client', runtime')
    BY <1>1, <1>2, <1>4, <2>1, <2>2, <2>3, Zenon DEF ClientHolds
  <2>5. Ready(g) \in ClientFrames /\ ToldRightly(Ready(g), runtime')
    BY <2>1, Zenon DEF Ready, ClientFrames, ToldRightly
  <2>6. Answered
    BY <1>10, <2>5, ReplyAnswers, Zenon
  <2> QED  BY <1>1, <1>2, <2>1, <2>4, <2>6, RuntimeStep, Zenon
<1> QED  BY <1>3, <1>6, <1>9, <1>10, Zenon DEF ActivateReturns

(* A drain that StopNewStreams or CountActiveStreams refuses ends rejected.    *)
LEMMA RefusedDrain ==
    ASSUME NEW c \in ClientRecords
    PROVE  LET d == drainRefused(c)
           IN  /\ d \in ClientRecords /\ d.applying = c.applying /\ d.prepared = c.prepared
               /\ d.activating = c.activating /\ d.active = c.active /\ d.readyGeneration = c.readyGeneration
               /\ d.drain = c.drain /\ d.drainStatus = "rejected" /\ d.drainCompleted /\ d.stopping = "no"
<1> DEFINE e == [c EXCEPT !.drainStatus = "rejected", !.drainCompleted = TRUE, !.stopping = "no"]
<1>1. /\ e \in ClientRecords /\ e.applying = c.applying /\ e.prepared = c.prepared
      /\ e.activating = c.activating /\ e.active = c.active /\ e.readyGeneration = c.readyGeneration
      /\ e.drain = c.drain /\ e.drainStatus = "rejected" /\ e.drainCompleted = TRUE /\ e.stopping = "no"
  BY Zenon DEF ClientRecords, DrainStatuses
<1>2. drainRefused(c) = restoreClientState(e)
  BY Zenon DEF drainRefused
<1> HIDE DEF e
<1> QED  BY <1>1, <1>2, RestoredClient

(* Streams of the runtime: refusing new ones, and forcing the existing ones.   *)
LEMMA StreamUpdates ==
    ASSUME NEW r \in RuntimeRecords
    PROVE  /\ LET s == [r EXCEPT !.admitting = FALSE]
              IN  /\ s \in RuntimeRecords /\ s.serving = r.serving /\ s.promoted = r.promoted
                  /\ s.admitting = FALSE /\ s.streams = r.streams /\ s.staged = r.staged /\ s.failures = r.failures
           /\ \A x \in 0..1 : LET s == [r EXCEPT !.streams = x]
              IN  /\ s \in RuntimeRecords /\ s.serving = r.serving /\ s.promoted = r.promoted
                  /\ s.admitting = r.admitting /\ s.streams = x /\ s.staged = r.staged
  BY Zenon DEF RuntimeRecords

LEMMA DrainStepsKeep ==
  ASSUME SessionInv, StopNewStreams \/ CountActiveStreams
  PROVE  SessionInv'
<1>1. ClientHolds(client, runtime) /\ UNCHANGED <<server, desired>> /\ TakenOrKept
  BY SessionFacts, QueueKept, Zenon DEF StopNewStreams, CountActiveStreams
<1>2. PICK c \in ClientRecords, r \in RuntimeRecords : c = client /\ r = runtime
  BY <1>1, Zenon DEF ClientHolds
<1>3. PICK g \in Generations : g = client.drain
  BY <1>2, Zenon DEF ClientRecords
<1>4. c.stopping # "no" /\ c.drain # 0 /\ c.prepared = 0 /\ c.applying.kind = "none"
  BY <1>1, <1>2, Zenon DEF ClientHolds, StopNewStreams, CountActiveStreams
<1>5. "rejected" \in DrainStatuses /\ "accepted" \in DrainStatuses
  BY Zenon DEF DrainStatuses
<1>6. ASSUME client' = drainRefused(client), Reply(DrainAck("rejected", g)), runtime' \in RuntimeRecords,
             runtime'.serving = r.serving, runtime'.promoted = r.promoted, runtime'.staged = r.staged,
             runtime'.streams = r.streams, runtime'.admitting = r.admitting \/ runtime'.admitting = FALSE
      PROVE  SessionInv'
  <2>1. Answered
    BY <1>5, <1>6, DrainAckAnswers, Zenon
  <2>2. /\ client' \in ClientRecords /\ client'.applying = c.applying /\ client'.prepared = c.prepared
        /\ client'.activating = c.activating /\ client'.active = c.active /\ client'.readyGeneration = c.readyGeneration
        /\ client'.drain = c.drain /\ client'.drainStatus = "rejected" /\ client'.drainCompleted /\ client'.stopping = "no"
    BY <1>2, <1>6, RefusedDrain, Zenon
  <2>3. ClientHolds(client', runtime')
    BY <1>1, <1>2, <1>4, <1>6, <2>2, Zenon DEF ClientHolds
  <2> QED  BY <1>1, <1>2, <1>6, <2>1, <2>3, RuntimeStep, Zenon
<1>7. CASE Fails /\ client' = drainRefused(client) /\ Reply(DrainAck("rejected", client.drain))
           /\ runtime' \in {Failed(runtime), Failed([runtime EXCEPT !.admitting = FALSE])}
  <2>1. SameService(r, Failed(r)) /\ Failed(r).staged = r.staged
    BY <1>2, <1>3, <1>7, RuntimeUpdates, Zenon DEF Fails
  <2>2. PICK s \in RuntimeRecords :
           /\ s = [r EXCEPT !.admitting = FALSE] /\ s.serving = r.serving /\ s.promoted = r.promoted
           /\ s.admitting = FALSE /\ s.streams = r.streams /\ s.staged = r.staged /\ s.failures = r.failures
    BY StreamUpdates, Zenon
  <2>3. SameService(s, Failed(s)) /\ Failed(s).staged = s.staged
    <3>1. s.failures < MaxFailures
      BY <1>2, <1>7, <2>2, Zenon DEF Fails
    <3> QED  BY <1>3, <3>1, RuntimeUpdates, Zenon
  <2>4. runtime' \in {Failed(r), Failed(s)}
    BY <1>2, <1>7, <2>2, Zenon
  <2>5. CASE runtime' = Failed(r)
    BY <1>3, <1>6, <1>7, <2>1, <2>5, Zenon DEF SameService
  <2>6. CASE runtime' = Failed(s)
    <3>1. s.serving = r.serving /\ s.promoted = r.promoted /\ s.admitting = FALSE /\ s.streams = r.streams /\ s.staged = r.staged
      BY <2>2, Zenon
    <3> QED  BY <1>3, <1>6, <1>7, <2>3, <2>6, <3>1, Zenon DEF SameService
  <2> QED  BY <2>4, <2>5, <2>6, Zenon
<1>8. CASE /\ runtime' = [runtime EXCEPT !.admitting = FALSE] /\ client' = [client EXCEPT !.stopping = "count"]
           /\ UNCHANGED toServer
  <2>1. /\ runtime' \in RuntimeRecords /\ runtime'.serving = r.serving /\ runtime'.promoted = r.promoted
        /\ runtime'.admitting = FALSE /\ runtime'.streams = r.streams /\ runtime'.staged = r.staged
    BY <1>2, <1>8, StreamUpdates, Zenon
  <2> DEFINE d == [c EXCEPT !.stopping = "count"]
  <2>2. /\ d \in ClientRecords /\ d.applying = c.applying /\ d.prepared = c.prepared /\ d.state = c.state
        /\ d.activating = c.activating /\ d.active = c.active /\ d.readyGeneration = c.readyGeneration
        /\ d.drain = c.drain /\ d.drainStatus = c.drainStatus /\ d.stopping = "count"
    BY Zenon DEF ClientRecords
  <2>3. client' = d
    BY <1>2, <1>8, Zenon
  <2> HIDE DEF d
  <2>4. ClientHolds(client', runtime')
    BY <1>1, <1>2, <1>4, <2>1, <2>2, <2>3, Zenon DEF ClientHolds
  <2> QED  BY <1>1, <1>2, <1>8, <2>1, <2>4, SilentAnswers, RuntimeStep, Zenon
<1>9. CASE /\ client.stopping = "count" /\ client' = [client EXCEPT !.stopping = "no"]
           /\ Reply(DrainAck("accepted", client.drain)) /\ UNCHANGED runtime
  <2>1. Answered
    BY <1>3, <1>5, <1>9, DrainAckAnswers, Zenon
  <2> DEFINE d == [c EXCEPT !.stopping = "no"]
  <2>2. /\ d \in ClientRecords /\ d.applying = c.applying /\ d.prepared = c.prepared /\ d.state = c.state
        /\ d.activating = c.activating /\ d.active = c.active /\ d.readyGeneration = c.readyGeneration
        /\ d.drain = c.drain /\ d.drainStatus = c.drainStatus /\ d.stopping = "no"
    BY Zenon DEF ClientRecords
  <2>3. client' = d
    BY <1>2, <1>9, Zenon
  <2>4. client.stopping = "count"
    BY <1>9, Zenon
  <2> HIDE DEF d
  <2>5. ClientHolds(client', runtime)
    BY <1>1, <1>2, <1>4, <2>2, <2>3, <2>4, Zenon DEF ClientHolds
  <2> QED  BY <1>1, <1>9, <2>1, <2>5, ClientOnly, Zenon
<1> QED  BY <1>7, <1>8, <1>9, Zenon DEF StopNewStreams, CountActiveStreams

LEMMA CompleteDrainKeeps ==
  ASSUME SessionInv, NEW force \in BOOLEAN, CompleteDrain(force)  PROVE  SessionInv'
<1>1. ClientHolds(client, runtime) /\ UNCHANGED <<server, desired>> /\ TakenOrKept
  BY SessionFacts, QueueKept, Zenon DEF CompleteDrain
<1>2. PICK c \in ClientRecords, r \in RuntimeRecords : c = client /\ r = runtime
  BY <1>1, Zenon DEF ClientHolds
<1>3. PICK g \in Generations : g = client.drain
  BY <1>2, Zenon DEF ClientRecords
<1>4. c.drain # 0 /\ c.stopping = "no" /\ ~c.drainCompleted /\ ~r.admitting
  BY <1>1, <1>2, Zenon DEF ClientHolds, CompleteDrain
<1>5. PICK o \in {"progress", "completed", "forced"} : o = drainOutcome(force)
  BY Zenon DEF drainOutcome
<1>6. /\ runtime' \in RuntimeRecords /\ runtime'.serving = r.serving /\ runtime'.promoted = r.promoted
      /\ runtime'.admitting = r.admitting /\ runtime'.staged = r.staged
      /\ runtime'.streams = r.streams \/ runtime'.streams = 0
      /\ o # "progress" => runtime'.streams = 0
  <2>1. CASE force
    <3>1. runtime' = [r EXCEPT !.streams = 0]
      BY <1>2, <2>1, Zenon DEF CompleteDrain
    <3>2. LET s == [r EXCEPT !.streams = 0]
          IN  /\ s \in RuntimeRecords /\ s.serving = r.serving /\ s.promoted = r.promoted
              /\ s.admitting = r.admitting /\ s.streams = 0 /\ s.staged = r.staged
      <4>1. 0 \in 0..1
        OBVIOUS
      <4> QED  BY <4>1, StreamUpdates, Zenon
    <3> QED  BY <3>1, <3>2, Zenon
  <2>2. CASE ~force
    <3>1. runtime' = r /\ (o # "progress" => r.streams = 0)
      BY <1>2, <1>5, <2>2, Zenon DEF CompleteDrain, drainOutcome
    <3> QED  BY <3>1, Zenon
  <2> QED  BY <2>1, <2>2, Zenon
<1>7. o \in DrainStatuses
  BY Zenon DEF DrainStatuses
<1>8. Answered
  <2>1. Reply(DrainAck(o, g))
    BY <1>3, <1>5, Zenon DEF CompleteDrain
  <2>2. o \in {"completed", "forced"} => runtime'.streams = 0 /\ ~runtime'.admitting
    BY <1>4, <1>6, Zenon
  <2> QED  BY <1>7, <2>1, <2>2, DrainAckAnswers, Zenon
<1>9. PICK b \in BOOLEAN : b = (o # "progress")
  BY Zenon
<1> DEFINE d == [c EXCEPT !.drainStatus = o, !.drainCompleted = b]
<1>10. /\ d \in ClientRecords /\ d.applying = c.applying /\ d.prepared = c.prepared /\ d.state = c.state
       /\ d.activating = c.activating /\ d.active = c.active /\ d.readyGeneration = c.readyGeneration
       /\ d.drain = c.drain /\ d.drainStatus = o /\ d.stopping = c.stopping
  BY <1>7, Zenon DEF ClientRecords
<1>11. client' = d
  BY <1>2, <1>5, <1>9, Zenon DEF CompleteDrain
<1> HIDE DEF d
<1>12. ClientHolds(client', runtime')
  BY <1>1, <1>2, <1>4, <1>6, <1>10, <1>11, Zenon DEF ClientHolds
<1> QED  BY <1>1, <1>2, <1>6, <1>8, <1>12, RuntimeStep, Zenon

LEMMA SessionClosesKeep ==
  ASSUME SessionInv, ClientCloses \/ StreamChanges
  PROVE  SessionInv'
<1>1. /\ ClientHolds(client, runtime) /\ UNCHANGED <<server, desired>> /\ TakenOrKept /\ Answered
  BY SessionFacts, QueueKept, SilentAnswers, Zenon DEF ClientCloses, StreamChanges
<1>2. PICK c \in ClientRecords, r \in RuntimeRecords : c = client /\ r = runtime
  BY <1>1, Zenon DEF ClientHolds
<1>3. CASE ClientCloses
  <2>1. PICK p \in Generations : p = client.prepared
    BY <1>2, Zenon DEF ClientRecords
  <2>2. SameService(r, runtime')
    BY <1>2, <1>3, <2>1, RuntimeUpdates, Zenon DEF ClientCloses
  <2> DEFINE d == [c EXCEPT !.state = "closed", !.candidate = 0, !.prepared = 0]
  <2>3. /\ d \in ClientRecords /\ d.applying = c.applying /\ d.prepared = 0 /\ d.state = "closed"
        /\ d.activating = c.activating /\ d.active = c.active /\ d.readyGeneration = c.readyGeneration
        /\ d.drain = c.drain /\ d.drainStatus = c.drainStatus /\ d.stopping = c.stopping
        /\ d.drainCompleted = c.drainCompleted
    <3>1. 0 \in Generations
      BY SessionAssumption DEF Generations
    <3> QED  BY <3>1, Zenon DEF ClientRecords, SessionStates
  <2>4. client' = d
    BY <1>2, <1>3, Zenon DEF ClientCloses
  <2> HIDE DEF d
  <2>5. c.activating = 0 /\ runtime' = Abort(r, p)
    BY <1>2, <1>3, <2>1, Zenon DEF ClientCloses, applyMuFree
  <2>6. runtime'.staged = r.staged \ {p}
    BY <2>5, RuntimeUpdates, Zenon
  <2>7. ClientHolds(client', runtime')
    BY <1>1, <1>2, <2>1, <2>2, <2>3, <2>4, <2>5, <2>6, Zenon DEF ClientHolds, SameService
  <2> QED  BY <1>1, <1>2, <2>2, <2>7, RuntimeStep, Zenon DEF SameService
<1>4. CASE StreamChanges
  <2>1. runtime' = [r EXCEPT !.streams = 1 - r.streams] /\ UNCHANGED client /\ (r.streams = 0 => r.admitting)
    BY <1>2, <1>4, Zenon DEF StreamChanges
  <2>2. PICK x \in 0..1 : x = 1 - r.streams
    BY DEF RuntimeRecords
  <2>3. /\ runtime' \in RuntimeRecords /\ runtime'.serving = r.serving /\ runtime'.promoted = r.promoted
        /\ runtime'.admitting = r.admitting /\ runtime'.staged = r.staged
    <3>1. LET s == [r EXCEPT !.streams = x]
          IN  /\ s \in RuntimeRecords /\ s.serving = r.serving /\ s.promoted = r.promoted
              /\ s.admitting = r.admitting /\ s.staged = r.staged
      BY StreamUpdates, Zenon
    <3>2. runtime' = [r EXCEPT !.streams = x]
      BY <2>1, <2>2, Zenon
    <3> QED  BY <3>1, <3>2, Zenon
  <2>4. ClientHolds(client', runtime')
    BY <1>1, <1>2, <2>1, <2>3, Zenon DEF ClientHolds
  <2> QED  BY <1>1, <1>2, <2>1, <2>3, <2>4, RuntimeStep, Zenon
<1> QED  BY <1>3, <1>4, Zenon

(* The frames, the two records and the runtime a control session of            *)
(* internal/connectorprotocol goes through satisfy the inductive invariant,    *)
(* for any number of generations, queued frames and refusals.                  *)
THEOREM SessionInvariant == SessionSpec => []SessionInv
<1>1. SessionInit => SessionInv
  <2> SUFFICES ASSUME SessionInit  PROVE  SessionInv
    BY Zenon
  <2>1. 0 \in Generations /\ 1 \in Generations \ {0} /\ desired \in Generations
    BY SessionAssumption DEF Generations, SessionInit
  <2>2. Snap(1) \in ServerFrames /\ Snap(1).type = "snapshot" /\ toClient = <<Snap(1)>> /\ toServer = <<>>
    BY <2>1, Zenon DEF Snap, ServerFrames, SessionInit
  <2>3. /\ toClient \in Seq(ServerFrames) /\ toServer \in Seq(ClientFrames)
        /\ \A i \in DOMAIN toClient : toClient[i].type = "snapshot"
        /\ DOMAIN toServer = {}
    BY <2>2
  <2>4. server \in ServerRecords /\ server.active = 0 /\ server.drainStatus = "none"
    BY <2>1, Zenon DEF SessionInit, ServerRecords, SessionStates, DrainStatuses
  <2>5. [kind |-> "none", generation |-> 0] \in [kind : {"none", "snapshot", "delta"}, generation : Generations]
    BY <2>1, Zenon
  <2>6. /\ client \in ClientRecords /\ client.active = 0 /\ client.prepared = 0 /\ client.activating = 0
        /\ client.stopping = "no" /\ client.drain = 0 /\ client.drainStatus = "none"
        /\ client.applying.kind = "none"
    BY <2>1, <2>5, Zenon DEF SessionInit, ClientRecords, SessionStates, DrainStatuses
  <2>7. runtime \in RuntimeRecords /\ runtime.serving = 0 /\ runtime.staged = {}
    BY <2>1, SessionAssumption DEF SessionInit, RuntimeRecords
  <2>8. SessionTypeOK
    BY <2>1, <2>3, <2>4, <2>6, <2>7, Zenon DEF SessionTypeOK
  <2> QED  BY <2>3, <2>4, <2>6, <2>7, <2>8, Zenon
           DEF SessionInv, ActiveWasPromoted, ReadyFollowsPromotion, HandlersExclude, ServesWhatItMayRestore,
               DrainsAreTrue, DrainedConnectorIsEmpty
<1>2. SessionInv /\ [SessionNext]_sessionVars => SessionInv'
  <2> SUFFICES ASSUME SessionInv, [SessionNext]_sessionVars  PROVE  SessionInv'
    BY Zenon
  <2>1. CASE UNCHANGED sessionVars
    <3>1. UNCHANGED <<server, client, runtime, toClient, toServer, desired>>
      BY <2>1, Zenon DEF sessionVars
    <3>2. ClientHolds(client', runtime)
      BY <3>1, SessionFacts, Zenon
    <3>3. Answered /\ TakenOrKept
      BY <3>1, SilentAnswers, QueueKept, Zenon
    <3> QED  BY <3>1, <3>2, <3>3, ClientOnly, Zenon
  <2>2. CASE SessionNext
    <3>1. CASE \E force \in BOOLEAN : CompleteDrain(force)
      BY <3>1, CompleteDrainKeeps, Zenon
    <3>2. CASE CompleteDrain(TRUE) \/ CompleteDrain(FALSE)
      BY <3>1, <3>2, Zenon
    <3> QED  BY <2>2, <3>2, OffersKeep, HandlersKeep, ServerDrainsKeep, ApplySnapshotKeeps, ApplyDeltaKeeps,
                SessionBeatsKeep, HandleDrainKeeps, PrepareReturnsKeeps, ActivateReturnsKeeps, DrainStepsKeep,
                SessionClosesKeep, Zenon DEF SessionNext
  <2> QED  BY <2>1, <2>2, Zenon
<1> QED  BY <1>1, <1>2, PTL DEF SessionSpec

(* The generation a server session takes as active, and the base of each delta *)
(* it sends, was activated and promoted by the connector, whatever frames are  *)
(* late and whichever side closes.                                             *)
THEOREM ActiveIsPromoted == SessionSpec => []ActiveWasPromoted
<1>1. SessionInv => ActiveWasPromoted
  BY Zenon DEF SessionInv
<1> QED  BY <1>1, SessionInvariant, PTL

(* A connector whose session is open serves its active generation and holds at *)
(* most its candidate staged; a drain the server believes over has left no     *)
(* stream behind.                                                              *)
THEOREM SessionServesAndDrains == SessionSpec => [](ServesActive /\ DrainedConnectorIsEmpty)
<1>1. SessionInv => ServesActive /\ DrainedConnectorIsEmpty
  BY Zenon DEF SessionInv, ServesWhatItMayRestore, ServesActive
<1> QED  BY <1>1, SessionInvariant, PTL
=============================================================================
