----------------------------- MODULE FrpAdapter -----------------------------
(* The Adapter and Policy of internal/edgefrp over the admission journal and   *)
(* the attachment registry: frps asks before it accepts a login, a proxy or a  *)
(* user connection, and reports their ends. A run is named by the request that *)
(* was admitted and, once resumed, a number. detachUnlessShared and            *)
(* AuthorizeStream take their mutexes one after the other, so others run in    *)
(* between.                                                                    *)
EXTENDS StaticRoutes, AdmissionJournal

CONSTANTS
    UserStreams,        \* user connections
    AdapterCapacity,
    MaxResumes          \* bound: resumes

VARIABLES
    sessions,       \* Adapter.sessions, by run
    resumes,        \* resumed runs handed out
    partial,        \* attachments left by a login that was refused at a later route
    detaching,      \* detachUnlessShared calls under way
    users           \* user connections

frpVars == <<journalVars, sessions, resumes, registry, partial, detaching, users>>

routesOf(q) == RequestOf[q].routes
RoutesOf(q) == {routesOf(q)[i] : i \in DOMAIN routesOf(q)}

NewSession(q) == [request |-> q, attached |-> RoutesOf(q), retired |-> FALSE,
                  active |-> [a \in RoutesOf(q) |-> 0]]
HasActiveStreams(s) == \E a \in DOMAIN s.active : s.active[a] > 0

With(run, s) == [r \in DOMAIN sessions \cup {run} |-> IF r = run THEN s ELSE sessions[r]]
Without(set) == [r \in DOMAIN sessions \ set |-> sessions[r]]

FrpInit ==
    /\ sessions = [r \in {} |-> {}]
    /\ resumes = 0
    /\ registry = EmptyRegistry
    /\ partial = {} /\ detaching = {}
    /\ users = [s \in UserStreams |-> [state |-> "new", run |-> <<>>, route |-> NoRoute]]

-----------------------------------------------------------------------------
(* Admit answers, with the decision it made or made before.                    *)
Admitted(q) ==
    /\ RequestOf[q].jti \notin spent /\ Consumable(journal, q)
    /\ journal' = Consumed(journal, q, q)
    /\ UNCHANGED <<saved, answers, runs, spent>>

(* Nobody waits for a Changed channel here.                                    *)
Quiet(reg) == [reg EXCEPT !.signalled = {}]

(* attachRoutes stops at the first route the registry refuses.                 *)
AttachedUpTo[q \in Requests, n \in Nat] ==
    IF n = 0 THEN registry
    ELSE LET before == AttachedUpTo[q, n - 1]
         IN  IF RefusesAttach(before, routesOf(q)[n]) THEN before ELSE Quiet(Attach(before, routesOf(q)[n]))

(* The number of routes attached before the first refusal.                     *)
AttachedCount(q) ==
    CHOOSE n \in 0..Len(routesOf(q)) :
        /\ \A i \in 1..n : ~RefusesAttach(AttachedUpTo[q, i - 1], routesOf(q)[i])
        /\ n < Len(routesOf(q)) => RefusesAttach(AttachedUpTo[q, n], routesOf(q)[n + 1])

Replaced(q) == {r \in DOMAIN sessions : RequestOf[sessions[r].request].connector = RequestOf[q].connector}

(* Login of a run that is not there: the other runs of the connector are       *)
(* retired, and removed when idle.                                             *)
LoginCreates(q) ==
    LET run == <<q, 0>>
        idle == {r \in Replaced(q) : ~HasActiveStreams(sessions[r])}
        n == AttachedCount(q)
    IN  /\ run \notin DOMAIN sessions
        /\ Cardinality(DOMAIN sessions \ Replaced(q)) < AdapterCapacity
        /\ registry' = AttachedUpTo[q, n]
        /\ IF n < Len(routesOf(q))
           THEN /\ partial' = partial \cup {routesOf(q)[i] : i \in 1..n}
                /\ UNCHANGED <<sessions, detaching>>
           ELSE /\ sessions' = [r \in (DOMAIN sessions \ idle) \cup {run} |->
                        IF r = run THEN NewSession(q)
                        ELSE IF r \in Replaced(q) THEN [sessions[r] EXCEPT !.retired = TRUE] ELSE sessions[r]]
                /\ detaching' = detaching \cup
                        {[route |-> a, step |-> "check"] : a \in UNION {sessions[r].attached : r \in idle}}
                /\ UNCHANGED partial

(* An existing run answers the login again; a full adapter refuses it.         *)
LoginRepeats(q) ==
    /\ <<q, 0>> \in DOMAIN sessions \/ Cardinality(DOMAIN sessions \ Replaced(q)) >= AdapterCapacity
    /\ UNCHANGED <<sessions, registry, partial, detaching>>

Login(q) ==
    /\ Admitted(q)
    /\ LoginCreates(q) \/ LoginRepeats(q)
    /\ UNCHANGED <<resumes, users>>

(* Resume: the session moves to a new run and forgets the old run's streams.   *)
Resume(q, prior) ==
    LET s == sessions[prior]
        run == <<s.request, resumes + 1>>
    IN  /\ Admitted(q)
        /\ RequestOf[s.request].connector = RequestOf[q].connector /\ RequestOf[s.request].jti \notin spent
        /\ resumes < MaxResumes /\ resumes' = resumes + 1
        /\ sessions' = [r \in (DOMAIN sessions \ {prior}) \cup {run} |->
                IF r = run THEN [s EXCEPT !.active = [a \in DOMAIN @ |-> 0]]
                ELSE sessions[r]]
        /\ UNCHANGED <<registry, partial, detaching, users>>

Detaches(set) == detaching' = detaching \cup {[route |-> a, step |-> "check"] : a \in set}

(* Revoke: also of a run whose proxy was refused.                              *)
RevokeRun(run) ==
    /\ sessions' = Without({run})
    /\ Detaches(sessions[run].attached)
    /\ UNCHANGED <<journalVars, resumes, registry, partial, users>>

-----------------------------------------------------------------------------
EndedUser == [state |-> "ended", run |-> <<>>, route |-> NoRoute]

(* AuthorizeStream: AuthorizeProxyRun and Owns, then the count.                *)

StreamChecked(s, run) ==
    /\ users[s].state = "new" /\ ~sessions[run].retired
    /\ \E a \in sessions[run].attached :
        /\ Owns(registry, a)
        /\ users' = [users EXCEPT ![s] = [state |-> "checked", run |-> run, route |-> a]]
    /\ UNCHANGED <<journalVars, sessions, resumes, registry, partial, detaching>>

StreamCounted(s) ==
    LET run == users[s].run
        a == users[s].route
    IN  /\ users[s].state = "checked"
        /\ users' = [users EXCEPT ![s] = IF run \in DOMAIN sessions THEN [@ EXCEPT !.state = "open"] ELSE EndedUser]
        /\ sessions' = IF run \in DOMAIN sessions
                       THEN With(run, [sessions[run] EXCEPT !.active[a] = @ + 1]) ELSE sessions
        /\ UNCHANGED <<journalVars, resumes, registry, partial, detaching>>

(* CloseStream: the last stream of a retired run removes it.                   *)
AdapterCloseStream(s) ==
    LET run == users[s].run
        a == users[s].route
        counted == run \in DOMAIN sessions /\ sessions[run].active[a] > 0
        left == [sessions[run] EXCEPT !.active[a] = @ - 1]
    IN  /\ users[s].state = "open"
        /\ users' = [users EXCEPT ![s] = EndedUser]
        /\ IF counted /\ left.retired /\ ~HasActiveStreams(left)
           THEN sessions' = Without({run}) /\ Detaches(left.attached)
           ELSE /\ sessions' = IF counted THEN With(run, left) ELSE sessions
                /\ UNCHANGED detaching
        /\ UNCHANGED <<journalVars, resumes, registry, partial>>

CloseProxyKeeps(run) ==
    \E a \in sessions[run].attached :
        LET left == [sessions[run] EXCEPT !.attached = @ \ {a}]
            empty == left.attached = {} /\ (~left.retired \/ ~HasActiveStreams(left))
        IN  /\ sessions' = IF empty THEN Without({run}) ELSE With(run, left)
            /\ UNCHANGED <<journalVars, resumes, registry, partial, detaching, users>>

(* CloseProxy: a session without routes is removed, unless it is retired and   *)
(* has streams.                                                                *)
CloseProxy(run) ==
    \E a \in sessions[run].attached :
        LET left == [sessions[run] EXCEPT !.attached = @ \ {a}]
            empty == left.attached = {} /\ (~left.retired \/ ~HasActiveStreams(left))
        IN  /\ sessions' = IF empty THEN Without({run}) ELSE With(run, left)
            /\ Detaches({a})
            /\ UNCHANGED <<journalVars, resumes, registry, partial, users>>

-----------------------------------------------------------------------------
HeldBySession(a) == \E r \in DOMAIN sessions : a \in sessions[r].attached

detachChecks(d) ==
    /\ d.step = "check"
    /\ detaching' = (detaching \ {d}) \cup IF HeldBySession(d.route) THEN {} ELSE {[d EXCEPT !.step = "detach"]}
    /\ UNCHANGED <<journalVars, sessions, resumes, registry, partial, users>>

detachActs(d) ==
    /\ d.step = "detach"
    /\ detaching' = detaching \ {d}
    /\ registry' = Quiet(Detach(registry, d.route.id, d.route.revision))
    /\ UNCHANGED <<journalVars, sessions, resumes, partial, users>>

Expires(q) == CredentialExpires(q) /\ UNCHANGED <<sessions, resumes, registry, partial, detaching, users>>

FrpNext ==
    \/ \E q \in Requests : Login(q) \/ Expires(q) \/ \E r \in DOMAIN sessions : Resume(q, r)
    \/ \E r \in DOMAIN sessions :
        RevokeRun(r) \/ CloseProxy(r)
    \/ \E s \in UserStreams : StreamCounted(s) \/ AdapterCloseStream(s) \/ \E r \in DOMAIN sessions : StreamChecked(s, r)
    \/ \E d \in detaching : detachChecks(d) \/ detachActs(d)

-----------------------------------------------------------------------------
(* Login, CloseStream and CloseProxy: a retired run is removed with its last   *)
(* stream; only one that was resumed, which forgets its streams, is kept idle. *)
IdleRetiredWasResumed ==
    \A r \in DOMAIN sessions : sessions[r].retired /\ ~HasActiveStreams(sessions[r]) => r[2] > 0

(* Every attachment has a session that holds it, or detachUnlessShared is on   *)
(* its way to it, or it is left over from a login that was refused at a later  *)
(* route: none outlives its sessions, whatever removes them.                   *)
RoutesAreHeld ==
    \A i \in RouteIds : registry.byID[i] # NoRoute =>
        LET a == registry.byID[i]
        IN  HeldBySession(a) \/ a \in partial \/ \E d \in detaching : d.route = a
=============================================================================
