---------------------------- MODULE PeerSignaling ----------------------------
(* The Service of internal/peersignaling behind its WebSocket handlers: two    *)
(* endpoints that present reciprocal one-time credentials exchange the         *)
(* messages that internal/peersignalingprotocol accepts. A session object is   *)
(* named by the Attach call that created it. Attach reads the clock once, and  *)
(* takes the mutex later.                                                      *)
EXTENDS Naturals, Sequences, FiniteSets

CONSTANTS
    Attachments,        \* Attach calls
    Nobody,             \* no session object
    Presented,          \* the admission each call may present: id, key, role, endpoint, peer
    MaximumSessions, MaximumUsed, QueueDepth,
    Candidates, MaximumCandidates,
    MaxAccepted,        \* bound: messages accepted from one endpoint
    Senders,            \* bound: the roles that send
    Expiring            \* bound: the credentials that may expire

AdmissionSet == UNION {{p[a] : a \in Attachments} : p \in Presented}
SessionKeys == {m.key : m \in AdmissionSet}
Sides == {"controlling", "controlled"}

(* validAdmission accepts no other role.                                       *)
ASSUME SignalingAssumption ==
    /\ Nobody \notin Attachments
    /\ \A m \in AdmissionSet : m.role \in Sides
    /\ {MaximumSessions, MaximumUsed, QueueDepth, MaximumCandidates, MaxAccepted} \subseteq Nat

VARIABLES
    calls,          \* the Attach calls and the attachments they returned
    rooms,          \* Service.sessions: the session object of each key
    talks,          \* session objects, by the call that created them
    used,           \* Service.consumed, by credential
    overdue,        \* credentials whose ExpiresAt has passed
    stopped         \* Service.closed

signalingVars == <<calls, rooms, talks, used, overdue, stopped>>

opposite(role) == IF role = "controlling" THEN "controlled" ELSE "controlling"
Kinds == {"credentials", "end", "ready", "close"} \cup Candidates

NewValidator == [credentials |-> FALSE, ended |-> FALSE, ready |-> FALSE, closed |-> FALSE,
                 candidates |-> {}, accepted |-> 0]

NoTalk == [endpoints |-> [r \in Sides |-> Nobody], completed |-> {}, done |-> FALSE,
           inbox |-> [r \in Sides |-> <<>>], heard |-> [r \in Sides |-> <<>>]]

(* A session that is done: its inboxes can no longer be received from.         *)
Finished(talk) == [NoTalk EXCEPT !.completed = talk.completed, !.done = TRUE]

SignalingInit ==
    /\ \E p \in Presented :
        calls = [a \in Attachments |-> [state |-> "new", admission |-> p[a], now |-> {}, talk |-> Nobody,
                                        validator |-> NewValidator, released |-> FALSE]]
    /\ rooms = [k \in SessionKeys |-> Nobody]
    /\ talks = [a \in Attachments |-> NoTalk]
    /\ used = {}
    /\ overdue = {}
    /\ stopped = FALSE

-----------------------------------------------------------------------------
(* Attach: Authenticate and validAdmission, at the time `now`, then the mutex. *)

Authenticates(a) ==
    /\ calls[a].state = "new" /\ calls[a].admission.id \notin overdue
    /\ calls' = [calls EXCEPT ![a].state = "authenticated", ![a].now = overdue]
    /\ UNCHANGED <<rooms, talks, used, overdue, stopped>>

EndpointsOf(t) == {talks[t].endpoints[r] : r \in Sides} \ {Nobody}
Stale(k, now) == rooms[k] # Nobody /\ \E e \in EndpointsOf(rooms[k]) : calls[e].admission.id \in now

(* removeExpiredLocked: what is left of the sessions, the objects and the      *)
(* consumed credentials at `now`.                                              *)
RoomsLeft(now) == [k \in SessionKeys |-> IF Stale(k, now) THEN Nobody ELSE rooms[k]]
TalksLeft(now) ==
    [t \in Attachments |-> IF \E k \in SessionKeys : rooms[k] = t /\ Stale(k, now)
                           THEN Finished(talks[t]) ELSE talks[t]]
UsedLeft(now) == used \ now

anyPeer(t, m) == TRUE
reciprocal(t, m) ==
    LET peer == talks[t].endpoints[opposite(m.role)]
    IN  peer = Nobody \/ /\ calls[peer].admission.endpoint = m.peer
                         /\ calls[peer].admission.peer = m.endpoint

(* The conditions under the mutex, after removeExpiredLocked has run.            *)
MayAttach(m, left, now) ==
    LET t == left[m.key]
    IN  /\ ~stopped
        /\ m.id \notin UsedLeft(now) /\ Cardinality(UsedLeft(now)) < MaximumUsed
        /\ \/ /\ t = Nobody
              /\ Cardinality({k \in SessionKeys : left[k] # Nobody}) < MaximumSessions
           \/ /\ t # Nobody
              /\ talks[t].endpoints[m.role] = Nobody /\ m.role \notin talks[t].completed
              /\ reciprocal(t, m)

Attaches(a) ==
    LET m == calls[a].admission
        now == calls[a].now
        left == RoomsLeft(now)
        t == IF left[m.key] = Nobody THEN a ELSE left[m.key]
    IN  /\ calls[a].state = "authenticated"
        /\ IF stopped THEN UNCHANGED <<rooms, used, talks>>
           ELSE IF MayAttach(m, left, now)
           THEN /\ rooms' = [left EXCEPT ![m.key] = t]
                /\ used' = UsedLeft(now) \cup {m.id}
                /\ talks' = [TalksLeft(now) EXCEPT ![t].endpoints[m.role] = a]
           ELSE rooms' = left /\ used' = UsedLeft(now) /\ talks' = TalksLeft(now)
        /\ calls' = [calls EXCEPT ![a] =
                IF MayAttach(m, left, now)
                THEN [@ EXCEPT !.state = "attached", !.talk = t, !.now = {}]
                ELSE [@ EXCEPT !.state = "ended", !.released = TRUE, !.now = {}]]
        /\ UNCHANGED <<overdue, stopped>>

-----------------------------------------------------------------------------
Registered(a) ==
    /\ calls[a].state = "attached" /\ ~stopped
    /\ rooms[calls[a].admission.key] = calls[a].talk
    /\ talks[calls[a].talk].endpoints[calls[a].admission.role] = a

(* validator.Accept: an error ends the attachment, a duplicate candidate is    *)
(* not forwarded.                                                              *)
Accepts(v, kind) ==
    /\ ~v.closed
    /\ CASE kind = "credentials" -> ~v.credentials /\ ~v.ended
         [] kind \in Candidates -> /\ v.credentials /\ ~v.ended
                                   /\ kind \in v.candidates \/ Cardinality(v.candidates) < MaximumCandidates
         [] kind = "end" -> v.credentials /\ ~v.ended
         [] kind = "ready" -> v.credentials /\ ~v.ready
         [] OTHER -> TRUE

AfterAccept(v, kind) ==
    [credentials |-> v.credentials \/ kind = "credentials", ended |-> v.ended \/ kind = "end",
     ready |-> v.ready \/ kind = "ready", closed |-> v.closed \/ kind = "close",
     candidates |-> IF kind \in Candidates THEN v.candidates \cup {kind} ELSE v.candidates,
     accepted |-> v.accepted + 1]

InboxHasRoom(t, role) == Len(talks[t].inbox[role]) < QueueDepth

SendMessage(a) ==
    \E kind \in Kinds :
        LET t == calls[a].talk
            to == opposite(calls[a].admission.role)
            v == calls[a].validator
        IN  /\ Registered(a) /\ calls[a].admission.role \in Senders
            /\ InboxHasRoom(t, to)
            /\ v.accepted < MaxAccepted /\ Accepts(v, kind)
            /\ calls' = [calls EXCEPT ![a].validator = AfterAccept(v, kind)]
            /\ talks' = IF kind \in v.candidates THEN talks
                        ELSE [talks EXCEPT ![t].inbox[to] = Append(@, kind)]
            /\ UNCHANGED <<rooms, used, overdue, stopped>>

Receive(a) ==
    LET t == calls[a].talk
        role == calls[a].admission.role
    IN  /\ Registered(a) /\ talks[t].inbox[role] # <<>>
        /\ talks' = [talks EXCEPT ![t].inbox[role] = Tail(@),
                                  ![t].heard[role] = Append(@, Head(talks[t].inbox[role]))]
        /\ UNCHANGED <<calls, rooms, used, overdue, stopped>>

-----------------------------------------------------------------------------
(* Close of an attachment terminates the session. It follows a message that    *)
(* Send refuses, a lost connection, an abort of the substrate channel, and,    *)
(* from watch, revocation and expiry.                                          *)
Ended(a) == [calls EXCEPT ![a].state = "ended", ![a].released = TRUE, ![a].validator = NewValidator]

CloseAttachment(a) ==
    LET t == calls[a].talk
        k == calls[a].admission.key
    IN  /\ calls[a].state = "attached"
        /\ calls' = Ended(a)
        /\ rooms' = IF rooms[k] = t THEN [rooms EXCEPT ![k] = Nobody] ELSE rooms
        /\ talks' = [talks EXCEPT ![t] = Finished(@)]
        /\ UNCHANGED <<used, overdue, stopped>>

watchExpires(a) == calls[a].admission.id \in overdue /\ CloseAttachment(a)

watchEnds(a) ==
    /\ calls[a].state = "attached" /\ ~calls[a].released
    /\ talks[calls[a].talk].done
    /\ calls' = [calls EXCEPT ![a].released = TRUE]
    /\ UNCHANGED <<rooms, talks, used, overdue, stopped>>

(* Complete, after the peer closed its WebSocket normally.                     *)
Complete(a) ==
    LET t == calls[a].talk
        role == calls[a].admission.role
        k == calls[a].admission.key
        finished == EndpointsOf(t) = {a}
    IN  /\ calls[a].state = "attached"
        /\ calls' = Ended(a)
        /\ IF Registered(a)
           THEN /\ LET left == [talks[t] EXCEPT !.endpoints[role] = Nobody, !.completed = @ \cup {role}]
                   IN  talks' = [talks EXCEPT ![t] = IF finished THEN Finished(left) ELSE left]
                /\ rooms' = IF finished THEN [rooms EXCEPT ![k] = Nobody] ELSE rooms
           ELSE UNCHANGED <<rooms, talks>>
        /\ UNCHANGED <<used, overdue, stopped>>

ServiceClose ==
    /\ ~stopped /\ stopped' = TRUE
    /\ rooms' = [k \in SessionKeys |-> Nobody]
    /\ used' = {}
    /\ talks' = [t \in Attachments |-> IF t \in {rooms[k] : k \in SessionKeys} THEN Finished(talks[t]) ELSE talks[t]]
    /\ UNCHANGED <<calls, overdue>>

Overdue ==
    /\ \E m \in AdmissionSet : m.id \in Expiring \ overdue /\ overdue' = overdue \cup {m.id}
    /\ UNCHANGED <<calls, rooms, talks, used, stopped>>

SignalingNext ==
    \/ ServiceClose \/ Overdue
    \/ \E a \in Attachments :
        \/ Authenticates(a) \/ Attaches(a) \/ SendMessage(a) \/ Receive(a)
        \/ CloseAttachment(a) \/ watchExpires(a) \/ watchEnds(a) \/ Complete(a)

(* An Attach call finishes, the watch goroutines run and a timer that is due   *)
(* fires.                                                                      *)
SignalingFairness ==
    \A a \in Attachments : /\ WF_signalingVars(Attaches(a))
                           /\ WF_signalingVars(watchExpires(a) \/ watchEnds(a))

SignalingSpec == SignalingInit /\ [][SignalingNext]_signalingVars /\ SignalingFairness

-----------------------------------------------------------------------------
CredentialIds == {m.id : m \in AdmissionSet}
ValidatorRecords ==
    [credentials : BOOLEAN, ended : BOOLEAN, ready : BOOLEAN, closed : BOOLEAN,
     candidates : SUBSET Candidates, accepted : 0..MaxAccepted]
CallRecords ==
    [state : {"new", "authenticated", "attached", "ended"}, admission : AdmissionSet,
     now : SUBSET CredentialIds, talk : Attachments \cup {Nobody},
     validator : ValidatorRecords, released : BOOLEAN]
TalkRecords ==
    [endpoints : [Sides -> Attachments \cup {Nobody}], completed : SUBSET Sides, done : BOOLEAN,
     inbox : [Sides -> Seq(Kinds)], heard : [Sides -> Seq(Kinds)]]

(* Calls, sessions and validators have the shape service.go and validator.go   *)
(* give them.                                                                  *)
SignalingTypeOK ==
    /\ calls \in [Attachments -> CallRecords] /\ talks \in [Attachments -> TalkRecords]
    /\ rooms \in [SessionKeys -> Attachments \cup {Nobody}]
    /\ used \subseteq CredentialIds /\ overdue \subseteq CredentialIds /\ stopped \in BOOLEAN

(* The service stays within its limits, and a session in its map has an        *)
(* endpoint left to expire or close it: none stays there for good.             *)
SignalingBounded ==
    /\ Cardinality({k \in SessionKeys : rooms[k] # Nobody}) <= MaximumSessions
    /\ Cardinality(used) <= MaximumUsed
    /\ \A k \in SessionKeys : rooms[k] # Nobody =>
        EndpointsOf(rooms[k]) # {} /\ ~talks[rooms[k]].done

(* reciprocal: two endpoints that share a session have named each other.       *)
PeersAreReciprocal ==
    \A t \in Attachments : \A e, f \in EndpointsOf(t) : e # f =>
        /\ calls[e].admission.peer = calls[f].admission.endpoint
        /\ calls[e].admission.role # calls[f].admission.role

(* What an endpoint has received and will receive is a well-formed exchange of *)
(* one peer: credentials once and first, no candidate after the end, nothing   *)
(* after the close, nothing twice.                                             *)
WellFormed(s) ==
    \A i, j \in DOMAIN s : i < j =>
        /\ s[i] # "close" /\ s[j] # "credentials" /\ s[i] # s[j]
        /\ s[i] = "end" => s[j] \notin Candidates
DeliveryIsWellFormed ==
    \A t \in Attachments, r \in Sides :
        LET s == talks[t].heard[r] \o talks[t].inbox[r]
        IN  WellFormed(s) /\ (s # <<>> => s[1] \in {"credentials", "close"})

(* consumed: a credential is attached once while it is valid, though its       *)
(* session ends, expires or is replaced.                                       *)
CredentialAttachesOnce ==
    [][\A a \in Attachments : calls[a].state = "authenticated" /\ calls'[a].state = "attached" =>
        \A b \in Attachments : calls[b].talk # Nobody /\ calls[b].admission.id = calls[a].admission.id =>
            calls[a].admission.id \in overdue]_signalingVars

(* An endpoint sits at the side its admission names.                           *)
EndpointsSitAtTheirSide ==
    \A t \in Attachments, r \in Sides :
        LET e == talks[t].endpoints[r] IN e # Nobody => calls[e].admission.role = r

(* The two sides of a session have named each other, both ways.                *)
SidesNameEachOther ==
    \A t \in Attachments :
        LET e == talks[t].endpoints["controlling"]
            f == talks[t].endpoints["controlled"]
        IN  e # Nobody /\ f # Nobody =>
                /\ calls[e].admission.peer = calls[f].admission.endpoint
                /\ calls[f].admission.peer = calls[e].admission.endpoint

(* A call that has not attached has made no session; one that has is in one.   *)
UnattachedMadeNothing ==
    \A t \in Attachments :
        /\ calls[t].state \in {"new", "authenticated"} =>
            /\ calls[t].talk = Nobody
            /\ \A r \in Sides : talks[t].endpoints[r] = Nobody
            /\ \A k \in SessionKeys : rooms[k] # t
        /\ calls[t].state = "attached" => calls[t].talk # Nobody

(* A credential that has attached is remembered until it expires or the        *)
(* service stops, and a call's clock is not ahead of the service's.            *)
AttachedIsRemembered ==
    \A a \in Attachments :
        /\ calls[a].now \subseteq overdue
        /\ calls[a].talk # Nobody => stopped \/ calls[a].admission.id \in used \cup overdue

(* The inductive invariant of the signaling service.                           *)
SignalingInv ==
    /\ SignalingTypeOK /\ EndpointsSitAtTheirSide /\ SidesNameEachOther
    /\ UnattachedMadeNothing /\ AttachedIsRemembered

MustEnd(a) == calls[a].admission.id \in overdue \/ talks[calls[a].talk].done

(* watch: an admission whose credential has expired, or whose session has      *)
(* ended, is released.                                                         *)
AdmissionIsReleased ==
    \A a \in Attachments :
        calls[a].state = "authenticated" \/ (calls[a].state = "attached" /\ MustEnd(a))
            ~> calls[a].released \/ (calls[a].state = "attached" /\ ~MustEnd(a))
=============================================================================
