-------------------------- MODULE IngressAuthority --------------------------
(***************************************************************************)
(* The server's ingress decisions on the edge: control.IngressAuthority    *)
(* caches the last complete set for one refresh interval, a public TCP     *)
(* listener keeps the decision of its last reconcile, and a connection it  *)
(* forwards resolves its decision when it starts and again on every        *)
(* refresh tick, until it ends or the decision expires.  A request of a    *)
(* private or team route is authorized by BrowserAccess, which asks the    *)
(* server itself and keeps its own refresh loop; a public request resolves *)
(* its decision once, through the cache.  Everything that is forwarded     *)
(* holds a lease of IngressLimits, counted for the publication and for the *)
(* account.                                                                *)
(*                                                                         *)
(* Time is discrete and a timer that is due fires before the clock moves.  *)
(* A decision is its policy generation, 0 for none; the server dates a     *)
(* decision when it is fetched.  The token buckets that pace opens and     *)
(* bytes are not modelled: an acquisition may be refused for want of a     *)
(* token at any time.                                                      *)
(***************************************************************************)
EXTENDS Integers, FiniteSets

CONSTANTS
    Conns,               \* connections of the listener and HTTP streams
    Publications,
    PublicationOf,
    ConnKind,            \* "tcp": forwarded by the listener; "browser": a request
                         \* BrowserAccess authorizes; "http": a public request
    IngressLifetime,     \* IngressAuthorityLifetime
    IngressRefresh,      \* IngressRefreshInterval
    PublicationLimit,    \* IngressLimits.Publication.Connections
    AccountLimit,        \* IngressLimits.Account.Connections
    MaximumLimitEntries, \* maximumIngressLimitEntries
    MaxClock,            \* bound on the clock
    MaxGrant             \* bound on the policy generations

ASSUME IngressTimesAssumption ==
    /\ IngressLifetime \in Nat /\ IngressRefresh \in Nat \ {0}
    /\ 2 * IngressRefresh <= IngressLifetime
    /\ MaxClock \in Nat /\ MaxGrant \in Nat \ {0}

ASSUME IngressLimitsAssumption ==
    /\ IsFiniteSet(Conns) /\ IsFiniteSet(Publications) /\ PublicationOf \in [Conns -> Publications]
    /\ PublicationLimit \in Nat \ {0} /\ AccountLimit \in Nat \ {0} /\ MaximumLimitEntries \in Nat

VARIABLES
    clock,
    granted,     \* the server's current decision
    grants,      \* when the server withdrew each decision
    cache,       \* IngressAuthority.decisions and fetched
    offered,     \* publicTCPListener.decision
    conns,
    active,      \* each publication's ingressLimitState: its active count, -1 for none
    account      \* the account's

limitVars == <<active, account>>
ingressVars == <<clock, granted, grants, cache, offered, conns, active, account>>

-----------------------------------------------------------------------------
NoCache == [some |-> FALSE, grant |-> 0, fetched |-> 0]
NoOffer == [grant |-> 0, expires |-> 0]
NoConn == [at |-> "idle", grant |-> 0, expires |-> 0, tick |-> 0, renewed |-> FALSE]
Tcp == {c \in Conns : ConnKind[c] = "tcp"}
Browser == {c \in Conns : ConnKind[c] = "browser"}

IngressInit ==
    /\ clock = 0
    /\ granted = 1 /\ grants = [g \in 1..MaxGrant |-> 0]
    /\ cache = NoCache
    /\ offered = NoOffer
    /\ conns = [c \in Conns |-> NoConn]
    /\ active = [p \in Publications |-> -1] /\ account = -1

-----------------------------------------------------------------------------
(* The server and the clock                                                *)

\* The server withdraws the decision or issues another generation.
ServerDecides(g) ==
    /\ g \in {0, granted + 1} /\ g <= MaxGrant /\ granted # 0
    /\ granted' = g /\ grants' = [grants EXCEPT ![granted] = clock]
    /\ UNCHANGED <<clock, cache, offered, conns, limitVars>>

\* The connection's refresh loop runs: bridgePublicTCP starts it once the stream
\* is open, BrowserAccess.authorize before the request is passed on.
Refreshing(c) ==
    \/ c \in Tcp /\ conns[c].at = "forwarding"
    \/ c \in Browser /\ conns[c].at \in {"resolved", "leased", "forwarding"}

Due(c) == Refreshing(c) /\ clock \in {conns[c].tick, conns[c].expires}

Advance ==
    /\ clock < MaxClock
    /\ \A c \in Conns : ~Due(c)
    /\ clock' = clock + 1
    /\ UNCHANGED <<granted, grants, cache, offered, conns, limitVars>>

-----------------------------------------------------------------------------
(* IngressAuthority                                                        *)

Fresh == cache.some /\ clock - cache.fetched < IngressRefresh

\* Snapshot, with the fetch it makes when the cache is stale: a failed one
\* empties the cache.
Snapshot(fetches) ==
    IF Fresh THEN cache
    ELSE IF fetches THEN [some |-> TRUE, grant |-> granted, fetched |-> clock]
    ELSE NoCache

\* What a connection reads: BrowserAccess asks the server every time.
Reads(c, fetches) ==
    IF c \notin Browser THEN Snapshot(fetches)
    ELSE IF fetches THEN [some |-> TRUE, grant |-> granted, fetched |-> clock] ELSE NoCache

CacheAfter(c, read) == IF c \in Browser THEN cache ELSE read

ExpiresAt(snapshot) == snapshot.fetched + IngressLifetime

\* ResolveDecision and Authorize: the candidate is valid and is still the
\* decision the snapshot holds.
Resolves(candidate, snapshot) ==
    /\ snapshot.some /\ candidate.grant # 0
    /\ clock < candidate.expires
    /\ snapshot.grant = candidate.grant
    /\ clock < ExpiresAt(snapshot)

-----------------------------------------------------------------------------
(* The listener                                                            *)

Ended(c, ends) == IF ends THEN NoConn ELSE conns[c]
Leased(c) == conns[c].at \in {"leased", "forwarding"}

\* IngressLease.Release, of every lease that is given back: both counters go down.
Release(left) ==
    LET back == {c \in Conns : Leased(c) /\ left[c].at = "idle"}
    IN  /\ active' = [p \in Publications |-> active[p] - Cardinality({c \in back : PublicationOf[c] = p})]
        /\ account' = account - Cardinality(back)

\* reconcile: the listener takes the decision of the snapshot.  When there is
\* none the listener is withdrawn, and the context of what it forwards ends.
Reconcile ==
    \E fetches \in BOOLEAN :
        LET snapshot == Snapshot(fetches)
            stands == snapshot.some /\ snapshot.grant # 0 /\ clock < ExpiresAt(snapshot)
            left == [c \in Conns |-> Ended(c, ~stands /\ c \in Tcp)]
        IN  /\ cache' = snapshot
            /\ offered' = IF stands THEN [grant |-> snapshot.grant, expires |-> ExpiresAt(snapshot)]
                          ELSE NoOffer
            /\ conns' = left
            /\ Release(left)
            /\ UNCHANGED <<clock, granted, grants>>

\* accept reads the listener's decision; a request arrives with its rule.
Arrive(c) ==
    /\ conns[c].at = "idle"
    /\ c \in Tcp => offered # NoOffer
    /\ conns' = [conns EXCEPT ![c].at = "accepted",
                              ![c].grant = IF c \in Tcp THEN offered.grant ELSE 0,
                              ![c].expires = IF c \in Tcp THEN offered.expires ELSE 0]
    /\ UNCHANGED <<clock, granted, grants, cache, offered, limitVars>>

Resolve(c) ==
    /\ conns[c].at = "accepted"
    /\ \E fetches \in BOOLEAN :
           LET read == Reads(c, fetches)
               resolved == IF c \in Tcp THEN Resolves(conns[c], read)
                           ELSE read.some /\ read.grant # 0 /\ clock < ExpiresAt(read)
           IN  /\ cache' = CacheAfter(c, read)
               /\ conns' = [conns EXCEPT ![c] =
                      IF resolved THEN [@ EXCEPT !.at = "resolved", !.grant = read.grant,
                                                 !.expires = ExpiresAt(read),
                                                 !.tick = IF c \in Browser THEN clock + IngressRefresh ELSE 0]
                      ELSE NoConn]
    /\ UNCHANGED <<clock, granted, grants, offered, limitVars>>

-----------------------------------------------------------------------------
(* IngressLimits                                                           *)

Present == {p \in Publications : active[p] >= 0}
AccountPresent == account >= 0

\* expireIdle forgets states nothing holds, each on its own.
IdleEntry(p) == active[p] = 0
IdleAccount == account = 0
expireIdle(idle) == [p \in Publications |-> IF p \in idle THEN -1 ELSE active[p]]

\* The count of a state, of a new one when there is none.
Holding(n) == IF n < 0 THEN 0 ELSE n
WithEntry(kept, p) == {q \in Publications : kept[q] >= 0} \cup {p}

HasRoom(count, total) == count < PublicationLimit /\ total < AccountLimit

\* acquire: idle states may be forgotten first, a missing one is created, and
\* both counters move together, or the connection is refused.
AcquireIngress(c) ==
    LET p == PublicationOf[c] IN
    /\ conns[c].at = "resolved"
    /\ \E idle \in SUBSET {q \in Publications : IdleEntry(q)}, drops \in {FALSE, IdleAccount} :
           LET kept == expireIdle(idle)
               known == IF drops THEN -1 ELSE account
           IN  \/ /\ Cardinality(WithEntry(kept, p)) + 1 <= MaximumLimitEntries
                  /\ HasRoom(Holding(kept[p]), Holding(known)) /\ clock < conns[c].expires
                  /\ active' = [kept EXCEPT ![p] = Holding(@) + 1] /\ account' = Holding(known) + 1
                  /\ conns' = [conns EXCEPT ![c].at = "leased"]
               \/ /\ active' = kept /\ account' = known
                  /\ conns' = [conns EXCEPT ![c] = NoConn]
    /\ UNCHANGED <<clock, granted, grants, cache, offered>>

OpenForwardLeaks(c) ==
    /\ conns[c].at = "leased"
    /\ \/ conns' = [conns EXCEPT ![c].at = "forwarding",
                                 ![c].tick = IF c \in Tcp THEN clock + IngressRefresh ELSE @]
       \/ conns' = [conns EXCEPT ![c] = NoConn]
    /\ UNCHANGED <<clock, granted, grants, cache, offered, limitVars>>

\* The carrier stream is opened and the decision written ahead of the bytes; a
\* failure of either returns the lease.  Only a forwarded connection refreshes.
OpenForward(c) ==
    /\ conns[c].at = "leased"
    /\ \/ /\ clock < conns[c].expires
          /\ conns' = [conns EXCEPT ![c].at = "forwarding",
                                    ![c].tick = IF c \in Tcp THEN clock + IngressRefresh ELSE @]
          /\ UNCHANGED limitVars
       \/ /\ conns' = [conns EXCEPT ![c] = NoConn]
          /\ Release(conns')
    /\ UNCHANGED <<clock, granted, grants, cache, offered>>

-----------------------------------------------------------------------------
(* bridgePublicTCP and BrowserAccess.authorize                             *)

RefreshFollows(c) ==
    /\ Refreshing(c) /\ clock = conns[c].tick
    /\ conns' = [conns EXCEPT ![c].tick = clock + IngressRefresh,
                              ![c].expires = clock + IngressLifetime]
    /\ UNCHANGED <<clock, granted, grants, cache, offered, limitVars>>

Refresh(c) ==
    /\ Refreshing(c) /\ clock = conns[c].tick
    /\ \E fetches \in BOOLEAN :
           LET read == Reads(c, fetches) IN
           /\ cache' = CacheAfter(c, read)
           /\ conns' = [conns EXCEPT ![c] =
                  IF Resolves(conns[c], read)
                      THEN [@ EXCEPT !.expires = ExpiresAt(read), !.tick = clock + IngressRefresh,
                                     !.renewed = TRUE]
                      ELSE NoConn]
    /\ Release(conns')
    /\ UNCHANGED <<clock, granted, grants, offered>>

Expire(c) ==
    /\ Refreshing(c) /\ clock = conns[c].expires
    /\ conns' = [conns EXCEPT ![c] = NoConn]
    /\ Release(conns')
    /\ UNCHANGED <<clock, granted, grants, cache, offered>>

\* Both copies end, or the request does.
EndForward(c) ==
    /\ conns[c].at = "forwarding"
    /\ conns' = [conns EXCEPT ![c] = NoConn]
    /\ Release(conns')
    /\ UNCHANGED <<clock, granted, grants, cache, offered>>

IngressNext ==
    \/ \E g \in 0..MaxGrant : ServerDecides(g)
    \/ Advance
    \/ Reconcile
    \/ \E c \in Conns :
           Arrive(c) \/ Resolve(c) \/ AcquireIngress(c) \/ OpenForward(c)
               \/ Refresh(c) \/ Expire(c) \/ EndForward(c)

IngressSpec == IngressInit /\ [][IngressNext]_ingressVars

-----------------------------------------------------------------------------
(* Properties                                                              *)

IngressConns ==
    [at : {"idle", "accepted", "resolved", "leased", "forwarding"}, grant : 0..MaxGrant,
     expires : Nat, tick : Nat, renewed : BOOLEAN]
Snapshots == [some : BOOLEAN, grant : 0..MaxGrant, fetched : Nat]
Offers == [grant : 0..MaxGrant, expires : Nat]

\* Decisions, snapshots and connections have the shape the code gives them.
IngressTypeOK ==
    /\ clock \in Nat /\ granted \in 0..MaxGrant /\ grants \in [1..MaxGrant -> Nat]
    /\ cache \in Snapshots /\ offered \in Offers /\ conns \in [Conns -> IngressConns]

\* The counters of IngressLimits are the leases that are out, whichever way a
\* connection ended: refused, failed to open, denied at a refresh, expired, cut
\* by its listener or closed.  No limit is exceeded and no lease is lost.
LeasesAreCounted ==
    /\ \A p \in Publications :
           LET out == Cardinality({c \in Conns : Leased(c) /\ PublicationOf[c] = p})
           IN  out <= PublicationLimit /\ (active[p] = out \/ (active[p] = -1 /\ out = 0))
    /\ LET out == Cardinality({c \in Conns : Leased(c)})
       IN  out <= AccountLimit /\ (account = out \/ (account = -1 /\ out = 0))
    /\ Cardinality(Present) + (IF AccountPresent THEN 1 ELSE 0) <= MaximumLimitEntries

\* "a failed refresh cannot extend cached authority": a connection with a
\* refresh loop is forwarded under a decision the server stood by at most one
\* lifetime ago, through the cache, the listener's copy and any number of
\* refreshes.
ForwardsRecentDecision ==
    \A c \in Conns :
        Refreshing(c) =>
            conns[c].grant = granted \/ clock <= grants[conns[c].grant] + IngressLifetime

\* A connection the server stands by is refreshed before its decision expires,
\* however old the cached set was that it was last resolved against: a browser's
\* from the start, a TCP connection's from its first refresh on.
RefreshPrecedesExpiry ==
    \A c \in Conns :
        Refreshing(c) /\ (c \in Browser \/ conns[c].renewed) => conns[c].tick < conns[c].expires

\* The server stands by the decision, or stood by it one lifetime before it
\* expires at the earliest; no expiry is further away than one lifetime.
Backed(grant, expires) ==
    /\ expires <= clock + IngressLifetime
    /\ grant # 0 => grant = granted \/ expires <= grants[grant] + IngressLifetime

\* Every copy of a decision is backed: the cache's, the listener's and each
\* connection's.
CopiesAreBacked ==
    /\ cache.some => cache.fetched <= clock /\ Backed(cache.grant, ExpiresAt(cache))
    /\ Backed(offered.grant, offered.expires)
    /\ \A c \in Conns : Backed(conns[c].grant, conns[c].expires)

\* A refresh loop runs for a decision that has not expired.
RefreshesStand == \A c \in Conns : Refreshing(c) => conns[c].grant # 0 /\ clock <= conns[c].expires

\* A connection past its decision has one, and the refresh loop of a TCP
\* connection starts with the stream.
LoopsHaveStarted ==
    \A c \in Conns :
        /\ conns[c].at \in {"resolved", "leased", "forwarding"} => conns[c].grant # 0
        /\ c \in Tcp /\ conns[c].at # "forwarding" => ~conns[c].renewed

\* The inductive invariant.
IngressInv ==
    /\ IngressTypeOK /\ CopiesAreBacked /\ RefreshesStand /\ LoopsHaveStarted
    /\ RefreshPrecedesExpiry
=============================================================================
