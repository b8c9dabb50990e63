---------------------------- MODULE PreviewAliases ----------------------------
(***************************************************************************)
(* The index of the preview gateway: edgehttp/preview_carrier_transport.go *)
(* and preview_carrier_alias.go.  A route is attached with one managed     *)
(* host name; the control plane projects custom names (aliases) onto it.   *)
(* Four maps have to agree under every order of attachments, replacements, *)
(* detachments and alias snapshots: the routes, the names, the aliases     *)
(* that are active and the aliases that are wanted.                        *)
(*                                                                         *)
(* An attachment is [route, gen, lease, host], standing for the entry      *)
(* pointer the maps share; an alias is [domain, route, host, lease,        *)
(* version], version standing for its domain and certificate generations.  *)
(***************************************************************************)
EXTENDS Integers, FiniteSets

CONSTANTS
    PreviewRoutes,   \* route ids
    Names,           \* host names, one-label wildcards among them
    Domains,         \* domain ids
    WildcardOf,      \* host name -> the wildcard that covers it, or Vacant
    PreviewEntries,  \* the attachments that may be tried
    AliasSets,       \* the complete alias snapshots the control plane may send
    MaximumPreviews, \* capacity of the registry
    Vacant           \* no entry

(* normalize and the duplicate checks of ReconcilePreviewAliases: in a snapshot *)
(* no two aliases share a domain or a name.                                    *)
ASSUME AliasAssumption ==
    /\ Vacant \notin PreviewEntries /\ Vacant \notin Names /\ Vacant \notin UNION AliasSets
    /\ PreviewEntries \subseteq [route : PreviewRoutes, gen : Nat, lease : Nat, host : Names]
    /\ UNION AliasSets \subseteq
           [domain : Domains, route : PreviewRoutes, host : Names, lease : Nat, version : Nat]
    /\ \A s \in AliasSets : \A a, b \in s : a.domain = b.domain \/ a.host = b.host => a = b
    /\ WildcardOf \in [Names -> Names \cup {Vacant}]
    /\ MaximumPreviews \in Nat

VARIABLES
    byRoute,        \* route -> its attachment, or Vacant
    byHost,         \* host name -> the attachment it leads to, or Vacant
    aliasesByID,    \* domain -> its active alias, or Vacant
    desiredAliases, \* the alias snapshot last accepted
    gatewayOpen     \* the registry has not been closed

aliasVars == <<byRoute, byHost, aliasesByID, desiredAliases, gatewayOpen>>

AliasInit ==
    /\ byRoute = [r \in PreviewRoutes |-> Vacant]
    /\ byHost = [h \in Names |-> Vacant]
    /\ aliasesByID = [d \in Domains |-> Vacant]
    /\ desiredAliases = {}
    /\ gatewayOpen = TRUE

-----------------------------------------------------------------------------
(* Helpers that run under the registry's lock. *)

AliasesOf(r) == {d \in Domains : aliasesByID[d] # Vacant /\ aliasesByID[d].route = r}

HostsOf(ds) == {aliasesByID[d].host : d \in ds}

\* attachAliasLocked takes an alias: its route is attached with the lease the
\* alias was projected for, its name is not the managed one, and no other route
\* holds the name.  `routes`, `hosts` and `aliases` are the maps at that point.
attachable(a, routes, hosts, aliases) ==
    /\ routes[a.route] # Vacant
    /\ routes[a.route].lease = a.lease
    /\ a.host # routes[a.route].host
    /\ aliases[a.domain] = Vacant
    /\ hosts[a.host] \in {Vacant, routes[a.route]}

\* activateDesiredAliasesForRouteLocked over the wanted aliases in `wanted`.
\* No two of them share a name or a domain, so their order does not matter.
activateDesiredAliases(wanted, routes, hosts, aliases) ==
    LET taken == {a \in wanted : attachable(a, routes, hosts, aliases)}
    IN  /\ byRoute' = routes
        /\ byHost' = [h \in Names |->
                        IF \E a \in taken : a.host = h
                        THEN routes[(CHOOSE a \in taken : a.host = h).route] ELSE hosts[h]]
        /\ aliasesByID' = [d \in Domains |->
                        IF \E a \in taken : a.domain = d
                        THEN CHOOSE a \in taken : a.domain = d ELSE aliases[d]]

\* removeAliasLocked for a set of domains, and the names in `names` with them.
WithoutAliases(ds) == [d \in Domains |-> IF d \in ds THEN Vacant ELSE aliasesByID[d]]
WithoutHosts(names) == [h \in Names |-> IF h \in names THEN Vacant ELSE byHost[h]]

-----------------------------------------------------------------------------
AttachedPreviews == {r \in PreviewRoutes : byRoute[r] # Vacant}

\* Attach's checks: a later attachment, a name no other route holds, room.
MayAttachPreview(p) ==
    /\ gatewayOpen
    /\ byRoute[p.route] # Vacant => byRoute[p.route].gen < p.gen
    /\ byHost[p.host] # Vacant => byHost[p.host].route = p.route
    /\ byRoute[p.route] = Vacant => Cardinality(AttachedPreviews) < MaximumPreviews

ManagedHost(r) == IF byRoute[r] = Vacant THEN {} ELSE {byRoute[r].host}

AttachReplacesRoute(p) ==
    /\ MayAttachPreview(p)
    /\ activateDesiredAliases({a \in desiredAliases : a.route = p.route},
                              [byRoute EXCEPT ![p.route] = p], [byHost EXCEPT ![p.host] = p],
                              aliasesByID)
    /\ UNCHANGED <<desiredAliases, gatewayOpen>>

\* Attach publishes a later attachment of a route; the name and the aliases of
\* the one it replaces go, and the aliases wanted for the new one come back.
AttachPreview(p) ==
    LET dropped == AliasesOf(p.route)
    IN  /\ MayAttachPreview(p)
        /\ activateDesiredAliases(
               {a \in desiredAliases : a.route = p.route},
               [byRoute EXCEPT ![p.route] = p],
               [WithoutHosts(ManagedHost(p.route) \cup HostsOf(dropped)) EXCEPT ![p.host] = p],
               WithoutAliases(dropped))
        /\ UNCHANGED <<desiredAliases, gatewayOpen>>

\* Detach, DetachAdmission and detachEntry, once their fences have let them
\* through.
DetachPreview(r) ==
    /\ byRoute[r] # Vacant
    /\ byRoute' = [byRoute EXCEPT ![r] = Vacant]
    /\ byHost' = WithoutHosts(ManagedHost(r) \cup HostsOf(AliasesOf(r)))
    /\ aliasesByID' = WithoutAliases(AliasesOf(r))
    /\ UNCHANGED <<desiredAliases, gatewayOpen>>

\* A retained domain may not move to another route or name nor go back.
StaleProjection(next) ==
    \E a \in desiredAliases, b \in next :
        a.domain = b.domain
        /\ (a.route # b.route \/ a.host # b.host \/ b.lease < a.lease \/ b.version < a.version)

ReconcilePreviewAliases(next) ==
    LET dropped == {d \in Domains : aliasesByID[d] # Vacant /\ aliasesByID[d] \notin next}
    IN  /\ gatewayOpen
        /\ ~StaleProjection(next)
        /\ desiredAliases' = next
        /\ activateDesiredAliases(next, byRoute, WithoutHosts(HostsOf(dropped)),
                                  WithoutAliases(dropped))
        /\ UNCHANGED gatewayOpen

CloseGateway ==
    /\ gatewayOpen
    /\ gatewayOpen' = FALSE
    /\ byRoute' = [r \in PreviewRoutes |-> Vacant]
    /\ byHost' = [h \in Names |-> Vacant]
    /\ aliasesByID' = [d \in Domains |-> Vacant]
    /\ desiredAliases' = {}

\* lookupHostLocked: the name itself, then the wildcard one label up.
lookupHost(h) ==
    IF byHost[h] # Vacant THEN byHost[h]
    ELSE IF WildcardOf[h] # Vacant THEN byHost[WildcardOf[h]] ELSE Vacant

AliasNext ==
    \/ \E p \in PreviewEntries : AttachPreview(p)
    \/ \E r \in PreviewRoutes : DetachPreview(r)
    \/ \E s \in AliasSets : ReconcilePreviewAliases(s)
    \/ CloseGateway

AliasSpec == AliasInit /\ [][AliasNext]_aliasVars

-----------------------------------------------------------------------------
\* The maps hold attachments and projected aliases, within the capacity.
AliasTypeOK ==
    /\ byRoute \in [PreviewRoutes -> PreviewEntries \cup {Vacant}]
    /\ byHost \in [Names -> PreviewEntries \cup {Vacant}]
    /\ aliasesByID \in [Domains -> (UNION AliasSets) \cup {Vacant}]
    /\ desiredAliases \in AliasSets \cup {{}}
    /\ Cardinality(AttachedPreviews) <= MaximumPreviews

\* A request is never led to an entry that has been replaced or detached: what
\* a host name resolves to is the current attachment of its route, reached
\* through the route's managed name or an active alias of that route.
LookupIsCurrent ==
    \A h \in Names : lookupHost(h) # Vacant =>
        LET p == lookupHost(h)
            through == {h, WildcardOf[h]}
        IN  /\ byRoute[p.route] = p
            /\ \/ p.host \in through
               \/ \E d \in AliasesOf(p.route) : aliasesByID[d].host \in through

\* An alias is active only for the lease it was projected for, as part of the
\* snapshot last accepted, and its name leads to its route.
ActiveAliasIsProjected ==
    \A d \in Domains : aliasesByID[d] # Vacant =>
        LET a == aliasesByID[d]
        IN  /\ a \in desiredAliases
            /\ byRoute[a.route] # Vacant /\ byRoute[a.route].lease = a.lease
            /\ byHost[a.host] = byRoute[a.route]

\* A wanted alias is active as long as its route is attached with its lease,
\* through every reconnection of the carrier, provided its name is not one the
\* edge manages.
DesiredAliasIsActive ==
    \A a \in desiredAliases :
        /\ byRoute[a.route] # Vacant /\ byRoute[a.route].lease = a.lease
        /\ \A p \in PreviewEntries : p.host # a.host
        => aliasesByID[a.domain] = a

\* An attached route is filed under its id and leads from its managed name.
ManagedNameLeadsHome ==
    \A r \in PreviewRoutes : byRoute[r] # Vacant =>
        byRoute[r].route = r /\ byHost[byRoute[r].host] = byRoute[r]

\* A name leads to the current attachment of a route, because it is its managed
\* name or the name of one of its active aliases.
NameHasItsReason ==
    \A h \in Names : byHost[h] # Vacant =>
        /\ byRoute[byHost[h].route] = byHost[h]
        /\ \/ byHost[h].host = h
           \/ \E d \in AliasesOf(byHost[h].route) : aliasesByID[d].host = h

\* An active alias is filed under its domain and is not a managed name.
AliasIsFiled ==
    \A d \in Domains : aliasesByID[d] # Vacant =>
        /\ aliasesByID[d].domain = d
        /\ aliasesByID[d].host # byRoute[aliasesByID[d].route].host

\* The inductive invariant of the four maps.
AliasInv ==
    /\ byRoute \in [PreviewRoutes -> PreviewEntries \cup {Vacant}]
    /\ byHost \in [Names -> PreviewEntries \cup {Vacant}]
    /\ aliasesByID \in [Domains -> (UNION AliasSets) \cup {Vacant}]
    /\ desiredAliases \in AliasSets \cup {{}}
    /\ ManagedNameLeadsHome /\ NameHasItsReason /\ AliasIsFiled
    /\ ActiveAliasIsProjected /\ DesiredAliasIsActive
=============================================================================
