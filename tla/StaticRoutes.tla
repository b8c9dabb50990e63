---------------------------- MODULE StaticRoutes ----------------------------
(* The attachment registry of internal/route/route.go (Registry), as functions *)
(* of its state: byID, byHost, and the hosts whose Changed channel the last    *)
(* operation closed. An attachment has an id, a revision, the connector        *)
(* generation, a host, and a preview state that sameRoute leaves out.          *)
EXTENDS Naturals, Sequences

CONSTANTS RouteIds, Hosts, NoRoute,
    Tables,             \* the tables that Replace is given
    MaxRevision         \* bound: revisions of a route

VARIABLE registry

BoundedAttachments ==
    [id : RouteIds, revision : 1..MaxRevision, generation : {1}, host : Hosts, preview : {"", "ready"}]

ASSUME RoutesAssumption ==
    /\ NoRoute \notin RouteIds /\ NoRoute \notin BoundedAttachments
    /\ Tables \subseteq SUBSET BoundedAttachments
    /\ MaxRevision \in Nat

EmptyRegistry ==
    [byID |-> [i \in RouteIds |-> NoRoute], byHost |-> [h \in Hosts |-> NoRoute], signalled |-> {}]

sameRoute(a, b) == [a EXCEPT !.preview = ""] = [b EXCEPT !.preview = ""]

(* A revision behind the current one, or another route under the same one.     *)
StaleAgainst(current, a) ==
    \/ a.revision < current.revision
    \/ a.revision = current.revision /\ ~sameRoute(current, a)

RefusesAttach(reg, a) ==
    \/ reg.byID[a.id] # NoRoute /\ reg.byID[a.id] # a /\ StaleAgainst(reg.byID[a.id], a)
    \/ reg.byID[a.id] # a /\ reg.byHost[a.host] \notin {NoRoute, a.id}

AttachKeepsHost(reg, a) ==
    IF reg.byID[a.id] = a THEN [reg EXCEPT !.signalled = {}]
    ELSE [byID |-> [reg.byID EXCEPT ![a.id] = a], byHost |-> [reg.byHost EXCEPT ![a.host] = a.id],
          signalled |-> {a.host}]

Attach(reg, a) ==
    LET left == IF reg.byID[a.id] = NoRoute THEN reg.byHost
                ELSE [reg.byHost EXCEPT ![reg.byID[a.id].host] = NoRoute]
    IN  IF reg.byID[a.id] = a THEN [reg EXCEPT !.signalled = {}]
        ELSE [byID |-> [reg.byID EXCEPT ![a.id] = a], byHost |-> [left EXCEPT ![a.host] = a.id],
              signalled |-> {a.host}]

Detach(reg, id, revision) ==
    LET a == reg.byID[id]
    IN  IF a = NoRoute THEN [reg EXCEPT !.signalled = {}]
        ELSE IF a.revision # revision THEN [reg EXCEPT !.signalled = {}]
        ELSE [byID |-> [reg.byID EXCEPT ![id] = NoRoute], byHost |-> [reg.byHost EXCEPT ![a.host] = NoRoute],
              signalled |-> {a.host}]

Owns(reg, a) == reg.byID[a.id] # NoRoute /\ sameRoute(reg.byID[a.id], a)

(* Replace: a table whose own attachments conflict is refused, and so is one   *)
(* that is stale for an id it keeps.                                           *)
Consistent(table) == \A a, b \in table : a # b => a.id # b.id /\ a.host # b.host
StaleTable(reg, table) == \E a \in table : reg.byID[a.id] # NoRoute /\ StaleAgainst(reg.byID[a.id], a)

Table(table) ==
    [byID |-> [i \in RouteIds |-> IF \E a \in table : a.id = i THEN CHOOSE a \in table : a.id = i ELSE NoRoute],
     byHost |-> [h \in Hosts |-> IF \E a \in table : a.host = h
                                 THEN (CHOOSE a \in table : a.host = h).id ELSE NoRoute]]

Replace(reg, table) ==
    LET next == Table(table)
        kept == {h \in Hosts : /\ reg.byHost[h] # NoRoute /\ next.byHost[h] = reg.byHost[h]
                               /\ sameRoute(reg.byID[reg.byHost[h]], next.byID[next.byHost[h]])}
        unused == {h \in Hosts : reg.byHost[h] = NoRoute /\ next.byHost[h] = NoRoute}
    IN  [byID |-> next.byID, byHost |-> next.byHost, signalled |-> Hosts \ (kept \cup unused)]

-----------------------------------------------------------------------------
(* The registry by itself: attachments, detachments and tables in any order.   *)

RoutesInit == registry = EmptyRegistry

AttachRoute(a) == ~RefusesAttach(registry, a) /\ registry' = Attach(registry, a)
DetachRoute(id, revision) == registry' = Detach(registry, id, revision)
ReplaceRoutes(table) ==
    /\ Consistent(table) /\ ~StaleTable(registry, table)
    /\ registry' = Replace(registry, table)

RoutesNext ==
    \/ \E a \in BoundedAttachments : AttachRoute(a)
    \/ \E table \in Tables : ReplaceRoutes(table)
    \/ \E id \in RouteIds, revision \in 1..MaxRevision : DetachRoute(id, revision)

RoutesSpec == RoutesInit /\ [][RoutesNext]_registry

(* byID and byHost name each other: each attachment is the owner of its host,  *)
(* and no host has an owner that is gone or has moved.                         *)
HostsNameTheirOwners ==
    /\ \A i \in RouteIds : registry.byID[i] # NoRoute =>
        registry.byID[i].id = i /\ registry.byHost[registry.byID[i].host] = i
    /\ \A h \in Hosts : registry.byHost[h] # NoRoute =>
        registry.byID[registry.byHost[h]] # NoRoute /\ registry.byID[registry.byHost[h]].host = h

(* The registry maps ids to attachments and hosts to ids.                      *)
RoutesTypeOK ==
    registry \in [byID : [RouteIds -> BoundedAttachments \cup {NoRoute}],
                  byHost : [Hosts -> RouteIds \cup {NoRoute}], signalled : SUBSET Hosts]

(* The inductive invariant.                                                    *)
RoutesInv == RoutesTypeOK /\ HostsNameTheirOwners

(* While an id stays attached its revision never goes back, and a revision     *)
(* never changes its meaning.                                                  *)
RevisionMovesForward ==
    [][\A i \in RouteIds : registry.byID[i] # NoRoute /\ registry'.byID[i] # NoRoute =>
        LET old == registry.byID[i]
            new == registry'.byID[i]
        IN  old.revision <= new.revision /\ (old.revision = new.revision => sameRoute(old, new))]_registry

(* Changed: a host that gets another owner, or whose owner goes away, has its  *)
(* channel closed. The host an attachment moves away from is not told.         *)
OwnerChangeSignals ==
    \A h \in Hosts : registry'.byHost[h] # registry.byHost[h] =>
        \/ h \in registry'.signalled
        \/ registry'.byHost[h] = NoRoute /\ registry'.byID[registry.byHost[h]] # NoRoute
=============================================================================
