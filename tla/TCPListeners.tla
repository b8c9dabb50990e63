---------------------------- MODULE TCPListeners ----------------------------
(* The public TCP sockets of internal/edgehttp/public_tcp_listeners.go. The    *)
(* reconcile loop reads a snapshot of the ingress authority and applies it     *)
(* under the lock later; the route worker prepares sockets and connections are *)
(* accepted in between. A decision has a listener id, a port and a generation; *)
(* generation 0 is the decision of a socket that is only prepared.             *)
EXTENDS Integers, FiniteSets

CONSTANTS
    ListenerIds, Ports, Decisions, TcpConns,
    PrepareTime,            \* two intervals
    MaximumListeners, MaximumTcpConnections,
    MaxTcpTime              \* bound: the clock

ASSUME TcpAssumption ==
    /\ 0 \notin Ports /\ 0 \notin ListenerIds
    /\ Decisions \subseteq [id : ListenerIds, port : Ports, gen : Nat]
    /\ MaxTcpTime \in Nat /\ PrepareTime \in Nat

VARIABLES
    tcpClock,
    tcpLife,                \* new, running, cancelled, stopped
    listeners,              \* id -> port, generation, end of the preparation
    fetched,                \* what Snapshot returned to reconcile
    forward                 \* connection -> listener, port and whether its context is cancelled

tcpVars == <<tcpClock, tcpLife, listeners, fetched, forward>>

NoListener == [port |-> 0, gen |-> 0, until |-> 0]
NoForward == [id |-> 0, port |-> 0, cancelled |-> FALSE]
NoFetch == [state |-> "none", decisions |-> {}]

TcpInit ==
    /\ tcpClock = 0 /\ tcpLife = "new"
    /\ listeners = [i \in ListenerIds |-> NoListener]
    /\ fetched = NoFetch
    /\ forward = [c \in TcpConns |-> NoForward]

Bound(table) == {i \in DOMAIN table : table[i] # NoListener}
PortsOf(table) == {table[i].port : i \in Bound(table)}
Forwarding == {c \in TcpConns : forward[c] # NoForward}

(* Closing a listener cancels the context of the connections it accepted.      *)
CancelForwards(ids) ==
    forward' = [c \in TcpConns |-> IF forward[c].id \in ids THEN [forward[c] EXCEPT !.cancelled = TRUE]
                                   ELSE forward[c]]

withdrawAll == listeners' = [i \in ListenerIds |-> NoListener] /\ CancelForwards(Bound(listeners))

-----------------------------------------------------------------------------
TcpStart ==
    /\ tcpLife = "new" /\ tcpLife' = "running"
    /\ UNCHANGED <<tcpClock, listeners, fetched, forward>>

(* Prepare, one rule of PrepareTCPRoutes: a socket that is there is kept       *)
(* longer, another port is refused, and a port that is taken cannot be bound.  *)
Prepare(i, p) ==
    /\ tcpLife # "new"
    /\ \/ /\ listeners[i].port = p
          /\ listeners' = [listeners EXCEPT ![i].until = tcpClock + PrepareTime]
       \/ /\ listeners[i] = NoListener /\ p \notin PortsOf(listeners)
          /\ listeners' = [listeners EXCEPT ![i] = [port |-> p, gen |-> 0, until |-> tcpClock + PrepareTime]]
    /\ UNCHANGED <<tcpClock, tcpLife, fetched, forward>>

(* Snapshot of the authority: the complete set of decisions, or an error.      *)
Fetch ==
    /\ tcpLife = "running" /\ fetched = NoFetch
    /\ \E ds \in SUBSET Decisions : fetched' = [state |-> "ready", decisions |-> ds]
    /\ UNCHANGED <<tcpClock, tcpLife, listeners, forward>>

FetchFails ==
    /\ tcpLife \in {"running", "cancelled"} /\ fetched = NoFetch
    /\ withdrawAll
    /\ UNCHANGED <<tcpClock, tcpLife, fetched>>

(* The decision of the highest generation for each listener.                   *)
desired ==
    {d \in fetched.decisions : \A e \in fetched.decisions : e.id = d.id => e.gen <= d.gen}
Conflicts ==
    \/ \E d, e \in fetched.decisions : d.port = e.port /\ d.id # e.id
    \/ Cardinality({d.id : d \in fetched.decisions}) > MaximumListeners

ReconcileConflict ==
    /\ fetched.state = "ready" /\ Conflicts
    /\ withdrawAll /\ fetched' = NoFetch
    /\ UNCHANGED <<tcpClock, tcpLife>>

(* The sockets that stay: one that is desired on its port, and one that was    *)
(* prepared and waits for its decision.                                        *)
Confirmed == {i \in Bound(listeners) : \E d \in desired : d.id = i /\ d.port = listeners[i].port}
Awaiting == {i \in Bound(listeners) : tcpClock < listeners[i].until /\ ~\E d \in desired : d.id = i}

Kept ==
    [i \in ListenerIds |->
        IF i \in Confirmed
        THEN [listeners[i] EXCEPT !.gen = (CHOOSE d \in desired : d.id = i).gen, !.until = 0]
        ELSE IF i \in Awaiting THEN listeners[i] ELSE NoListener]

(* Closing a listener does not reach its connections: a mutant.                *)
ReconcileQuietly ==
    /\ fetched.state = "ready" /\ ~Conflicts
    /\ listeners' = Kept /\ fetched' = NoFetch
    /\ UNCHANGED <<tcpClock, tcpLife, forward>>

(* reconcile under the lock: what is not desired is closed, then the rest of   *)
(* the desired ports is bound until one cannot be.                             *)
ReconcileListeners ==
    /\ fetched.state = "ready" /\ ~Conflicts
    /\ LET missing == {d \in desired : d.id \notin Confirmed}
           free == {d \in missing : d.port \notin PortsOf(Kept)}
       IN  \E bound \in SUBSET free :
              listeners' = [i \in ListenerIds |->
                  IF \E d \in bound : d.id = i
                  THEN LET d == CHOOSE d \in bound : d.id = i IN [port |-> d.port, gen |-> d.gen, until |-> 0]
                  ELSE Kept[i]]
    /\ CancelForwards(Bound(listeners) \ (Confirmed \cup Awaiting))
    /\ fetched' = NoFetch
    /\ UNCHANGED <<tcpClock, tcpLife>>

(* accept: a connection takes one of the places, or is closed.                 *)
AcceptTcp(c, i) ==
    /\ i \in Bound(listeners) /\ forward[c] = NoForward
    /\ Cardinality(Forwarding) < MaximumTcpConnections
    /\ forward' = [forward EXCEPT ![c] = [id |-> i, port |-> listeners[i].port,
                                            cancelled |-> tcpLife # "running"]]
    /\ UNCHANGED <<tcpClock, tcpLife, listeners, fetched>>

EndTcp(c) ==
    /\ forward[c] # NoForward /\ forward' = [forward EXCEPT ![c] = NoForward]
    /\ UNCHANGED <<tcpClock, tcpLife, listeners, fetched>>

(* Shutdown cancels the loop, withdraws the sockets and waits for the loop.    *)
TcpCancel ==
    /\ tcpLife = "running" /\ tcpLife' = "cancelled"
    /\ CancelForwards(ListenerIds)
    /\ UNCHANGED <<tcpClock, listeners, fetched>>

TcpWithdraw ==
    /\ tcpLife = "cancelled" /\ tcpLife' = "stopped" /\ withdrawAll
    /\ UNCHANGED <<tcpClock, fetched>>

TcpTick ==
    /\ tcpClock < MaxTcpTime /\ tcpClock' = tcpClock + 1
    /\ UNCHANGED <<tcpLife, listeners, fetched, forward>>

TcpNext ==
    \/ TcpStart \/ Fetch \/ FetchFails \/ ReconcileConflict \/ ReconcileListeners
    \/ TcpCancel \/ TcpWithdraw \/ TcpTick
    \/ \E i \in ListenerIds, p \in Ports : Prepare(i, p)
    \/ \E c \in TcpConns : EndTcp(c) \/ \E i \in ListenerIds : AcceptTcp(c, i)

TcpSpec == TcpInit /\ [][TcpNext]_tcpVars

-----------------------------------------------------------------------------
(* A connection is forwarded under a live context only while the socket it was *)
(* accepted on is bound: closing a listener, for whatever reason and however   *)
(* old the snapshot, cancels what it accepted, and after Shutdown nothing is   *)
(* forwarded even from a socket that a late reconcile bound.                   *)
ForwardHasItsListener ==
    \A c \in Forwarding : ~forward[c].cancelled =>
        tcpLife = "running" /\ listeners[forward[c].id].port = forward[c].port

(* The listeners, the snapshot and the forwarded connections have the shape    *)
(* public_tcp_listeners.go gives them.                                         *)
TcpTypeOK ==
    /\ tcpClock \in 0..MaxTcpTime
    /\ tcpLife \in {"new", "running", "cancelled", "stopped"}
    /\ listeners \in [ListenerIds -> [port : Ports, gen : Nat, until : Nat] \cup {NoListener}]
    /\ fetched \in [state : {"none", "ready"}, decisions : SUBSET Decisions]
    /\ forward \in [TcpConns -> [id : ListenerIds, port : Ports, cancelled : BOOLEAN] \cup {NoForward}]

(* The inductive invariant.                                                    *)
TcpInv == TcpTypeOK /\ ForwardHasItsListener

(* "Owns only sockets authorized by the server's complete snapshot": whatever  *)
(* reconcile leaves bound is on the port of the newest decision it was given,  *)
(* or was prepared and is still within its time.                               *)
ReconciledIsAuthorized ==
    [][fetched.state = "ready" /\ fetched' = NoFetch =>
          \A i \in ListenerIds : listeners'[i] # NoListener =>
             \/ \E d \in desired : d.id = i /\ d.port = listeners'[i].port /\ d.gen = listeners'[i].gen
             \/ listeners'[i] = listeners[i] /\ tcpClock < listeners[i].until]_tcpVars
=============================================================================
