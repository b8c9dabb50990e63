--------------------------- MODULE DurableRoutes ---------------------------
(***************************************************************************)
(* How an authenticated carrier comes to serve durable routes.  The route  *)
(* worker replaces the table of DurableAdmissionRegistry; the handler of   *)
(* each carrier session copies what the table says of its identity into    *)
(* DataCarrierRouteRegistry, once at the start and then on every tick; a   *)
(* request selects an entry of that registry and opens a stream on its     *)
(* carrier, which asks the admission table again.  The three reads of one  *)
(* syncDurable take the registry's lock separately, the handler's own      *)
(* return does not wait for a syncDurable under way, and every entry has a *)
(* goroutine watching its carrier.                                         *)
(*                                                                         *)
(* An identity stands for the whole account/host/tunnel/connector/session/ *)
(* process/config tuple.  A row of the admission table is one route of an  *)
(* identity, with its assignment generation, the route revision (route     *)
(* generation and content hash) and its state.  The preference order among *)
(* eligible replicas is a choice.                                          *)
(***************************************************************************)
EXTENDS Naturals, FiniteSets

CONSTANTS
    Servers,          \* carrier sessions, each accepted at most once
    Identities,
    IdentityOf,       \* Server.Identity
    Accessors,        \* the servers an accessor admission covers throughout
    Previews,         \* the servers a preview admission covers at their start
    AdmissionTables,  \* the complete assignment sets a control pull may carry
    Rules,            \* the rules a request may be matched to
    Requesters,
    Unserved,         \* no server
    MaximumAdmissions,
    MaximumCarrierRoutes

ASSUME DurableAssumption ==
    /\ Unserved \notin Servers
    /\ IdentityOf \in [Servers -> Identities]
    /\ MaximumCarrierRoutes \in Nat /\ MaximumAdmissions \in Nat

VARIABLES
    admitted,         \* DurableAdmissionRegistry.byID, as its set of rows
    byKey,            \* DataCarrierRouteRegistry.byKey
    registriesOpen,
    carriers,         \* each session and its handler
    selections        \* the requests between entryFor and the stream's end

durableVars == <<admitted, byKey, registriesOpen, carriers, selections>>

-----------------------------------------------------------------------------
NoEntry == [server |-> Unserved, rows |-> {}]
NoSelection == [at |-> "idle", server |-> Unserved, route |-> 0]
OpenSelection == [NoSelection EXCEPT !.at = "open"]

\* live: the session's Done is open.  main: the handler itself; sync: the place
\* reached in syncDurable, "rest" between two ticks.
NewCarrier == [live |-> FALSE, main |-> "away", sync |-> "rest", follows |-> FALSE,
               registered |-> FALSE, draft |-> {}]

DurableInit ==
    /\ admitted = {}
    /\ byKey = [i \in Identities |-> NoEntry]
    /\ registriesOpen = TRUE
    /\ carriers = [s \in Servers |-> NewCarrier]
    /\ selections = [q \in Requesters |-> NoSelection]

-----------------------------------------------------------------------------
(* DurableAdmissionRegistry                                                *)

Usable(row) == row.state \in {"staged", "active"}
ForIdentity(i) == {row \in admitted : row.identity = i /\ Usable(row)}
HasIdentity(i) == registriesOpen /\ ForIdentity(i) # {}

Regresses(rows) ==
    \E new \in rows, old \in admitted :
        new.identity.host = old.identity.host /\ new.route = old.route
            /\ new.generation < old.generation

Duplicates(rows) ==
    \E one, two \in rows : one # two /\ one.identity = two.identity /\ one.route = two.route

\* Replace: the whole table or nothing.
ReplaceAdmissions(rows) ==
    /\ Cardinality(rows) <= MaximumAdmissions
    /\ ~Regresses(rows) /\ ~Duplicates(rows)
    /\ registriesOpen
    /\ admitted' = rows
    /\ UNCHANGED <<byKey, registriesOpen, carriers, selections>>

\* The edge stops: both registries are closed and emptied.
CloseRegistries ==
    /\ registriesOpen
    /\ registriesOpen' = FALSE
    /\ admitted' = {}
    /\ byKey' = [i \in Identities |-> NoEntry]
    /\ UNCHANGED <<carriers, selections>>

-----------------------------------------------------------------------------
(* DataCarrierRouteRegistry                                                *)

Entries == {i \in Identities : byKey[i].server # Unserved}

\* Attach: a session takes the entry of its identity from an earlier session.
CanAttach(s) ==
    /\ registriesOpen
    /\ \/ byKey[IdentityOf[s]].server # Unserved
       \/ Cardinality(Entries) < MaximumCarrierRoutes

attachState(s, rows) == [byKey EXCEPT ![IdentityOf[s]] = [server |-> s, rows |-> rows]]

CanUpdate(s) == byKey[IdentityOf[s]].server = s

UpdateReplicaState(s, rows) == [byKey EXCEPT ![IdentityOf[s]].rows = rows]

\* Detach removes only the caller's own entry.
detach(s) ==
    IF byKey[IdentityOf[s]].server = s
        THEN [byKey EXCEPT ![IdentityOf[s]] = NoEntry]
        ELSE byKey

\* watch without its detach: a mutant.
WatchForgets(i) == byKey[i].server # Unserved /\ FALSE /\ UNCHANGED durableVars

\* watch: an entry is removed when the session it names is done.
WatchEntry(i) ==
    /\ byKey[i].server # Unserved
    /\ ~carriers[byKey[i].server].live
    /\ byKey' = [byKey EXCEPT ![i] = NoEntry]
    /\ UNCHANGED <<admitted, registriesOpen, carriers, selections>>

-----------------------------------------------------------------------------
(* The carrier handler                                                     *)

Set(s, c) == carriers' = [carriers EXCEPT ![s] = c]
Others == UNCHANGED <<admitted, registriesOpen, selections>>

\* AnyPeerBinding admits the handshake; CarrierAssembly starts the handler.
Connect(s) ==
    /\ carriers[s].main = "away"
    /\ registriesOpen
    /\ HasIdentity(IdentityOf[s]) \/ s \in Accessors \cup Previews
    /\ Set(s, [carriers[s] EXCEPT !.live = TRUE, !.main = "starting"])
    /\ UNCHANGED byKey /\ Others

FollowsTable(s) == HasIdentity(IdentityOf[s]) \/ s \in Accessors

StartHandling(s) ==
    /\ carriers[s].main = "starting"
    /\ Set(s, IF FollowsTable(s)
              THEN [carriers[s] EXCEPT !.main = "first", !.follows = TRUE, !.sync = "has"]
              ELSE [carriers[s] EXCEPT !.main = IF s \in Previews THEN "run" ELSE "done"])
    /\ UNCHANGED byKey /\ Others

\* An error of syncDurable: before the workers run the handler returns it, and
\* afterwards the ticking goroutine ends and hands it over.
SyncFails(s) ==
    Set(s, IF carriers[s].main = "first"
           THEN [carriers[s] EXCEPT !.main = "done", !.sync = "ended", !.draft = {}]
           ELSE [carriers[s] EXCEPT !.sync = "ended", !.draft = {}])

SyncRests(s, registered) ==
    Set(s, [carriers[s] EXCEPT !.sync = "rest", !.registered = registered, !.draft = {},
                               !.main = IF @ = "first" THEN "run" ELSE @])

Tick(s) ==
    /\ carriers[s].main = "run" /\ carriers[s].follows /\ carriers[s].sync = "rest"
    /\ Set(s, [carriers[s] EXCEPT !.sync = "has"])
    /\ UNCHANGED byKey /\ Others

SyncHas(s) ==
    /\ carriers[s].sync = "has"
    /\ \/ /\ HasIdentity(IdentityOf[s])
          /\ Set(s, [carriers[s] EXCEPT !.sync = "machine"])
          /\ UNCHANGED byKey
       \/ /\ ~HasIdentity(IdentityOf[s])
          /\ SyncRests(s, FALSE)
          /\ byKey' = IF carriers[s].registered THEN detach(s) ELSE byKey
    /\ Others

SyncMachine(s) ==
    /\ carriers[s].sync = "machine"
    /\ IF HasIdentity(IdentityOf[s])
           THEN Set(s, [carriers[s] EXCEPT !.sync = "rows"])
           ELSE SyncFails(s)
    /\ UNCHANGED byKey /\ Others

SyncRows(s) ==
    /\ carriers[s].sync = "rows"
    /\ IF registriesOpen /\ ForIdentity(IdentityOf[s]) # {}
           THEN Set(s, [carriers[s] EXCEPT !.sync = "install",
                                           !.draft = ForIdentity(IdentityOf[s])])
           ELSE SyncFails(s)
    /\ UNCHANGED byKey /\ Others

SyncInstall(s) ==
    /\ carriers[s].sync = "install"
    /\ \/ /\ carriers[s].registered /\ CanUpdate(s)
          /\ byKey' = UpdateReplicaState(s, carriers[s].draft)
          /\ SyncRests(s, TRUE)
       \/ /\ ~carriers[s].registered /\ CanAttach(s)
          /\ byKey' = attachState(s, carriers[s].draft)
          /\ SyncRests(s, TRUE)
       \/ /\ IF carriers[s].registered THEN ~CanUpdate(s) ELSE ~CanAttach(s)
          /\ SyncFails(s)
          /\ UNCHANGED byKey
    /\ Others

\* The handler returns: a worker's result, the session's end or the context.
\* The deferred Detach runs, and the ticking goroutine is cancelled but not
\* awaited.
HandlerReturns(s) ==
    /\ carriers[s].main = "run"
    /\ Set(s, [carriers[s] EXCEPT !.main = "done"])
    /\ byKey' = detach(s)
    /\ Others

MustReturn(s) == carriers[s].main = "run" /\ (~carriers[s].live \/ carriers[s].sync = "ended")

\* CarrierAssembly closes the session of a handler that returned; the transport
\* may end it at any time.
SessionEnds(s) ==
    /\ carriers[s].live
    /\ Set(s, [carriers[s] EXCEPT !.live = FALSE])
    /\ UNCHANGED byKey /\ Others

-----------------------------------------------------------------------------
(* Requests                                                                *)

\* Public routing may take any replica whose binding has the rule's revision;
\* a probe and a private connection name the one identity they may use.
Eligible(rule) ==
    {i \in Entries :
        /\ carriers[byKey[i].server].live
        /\ rule.exact => i = rule.identity
        /\ \E row \in byKey[i].rows : row.route = rule.route /\ row.revision = rule.revision}

entryFor(q, rule) ==
    /\ selections[q].at = "idle"
    /\ \E i \in Eligible(rule) :
           selections' = [selections EXCEPT ![q] =
                              [at |-> "selected", server |-> byKey[i].server, route |-> rule.route]]
    /\ UNCHANGED <<admitted, byKey, registriesOpen, carriers>>

\* AuthorizeStream
Authorized(s, route) ==
    registriesOpen /\ \E row \in ForIdentity(IdentityOf[s]) : row.route = route

\* A stream opened without asking the table again: a mutant.
OpenUnasked(q) ==
    /\ selections[q].at = "selected"
    /\ selections' = [selections EXCEPT ![q] =
           IF carriers[@.server].live THEN OpenSelection ELSE NoSelection]
    /\ UNCHANGED <<admitted, byKey, registriesOpen, carriers>>

OpenSelected(q) ==
    /\ selections[q].at = "selected"
    /\ selections' = [selections EXCEPT ![q] =
           IF carriers[@.server].live /\ Authorized(@.server, @.route)
               THEN OpenSelection ELSE NoSelection]
    /\ UNCHANGED <<admitted, byKey, registriesOpen, carriers>>

CloseSelected(q) ==
    /\ selections[q].at = "open"
    /\ selections' = [selections EXCEPT ![q] = NoSelection]
    /\ UNCHANGED <<admitted, byKey, registriesOpen, carriers>>

-----------------------------------------------------------------------------
SyncStep(s) == SyncHas(s) \/ SyncMachine(s) \/ SyncRows(s) \/ SyncInstall(s)

DurableNext ==
    \/ \E rows \in AdmissionTables : ReplaceAdmissions(rows)
    \/ CloseRegistries
    \/ \E i \in Identities : WatchEntry(i)
    \/ \E s \in Servers :
           Connect(s) \/ StartHandling(s) \/ Tick(s) \/ SyncStep(s)
               \/ HandlerReturns(s) \/ SessionEnds(s)
    \/ \E q \in Requesters :
           (\E rule \in Rules : entryFor(q, rule)) \/ OpenSelected(q) \/ CloseSelected(q)

\* The goroutines keep running: the ticker, the steps of syncDurable, a handler
\* that has a reason to return, the close that follows it, and the watchers.
DurableFairness ==
    /\ \A i \in Identities : WF_durableVars(WatchEntry(i))
    /\ \A s \in Servers :
           /\ WF_durableVars(StartHandling(s) \/ (MustReturn(s) /\ HandlerReturns(s)))
           /\ WF_durableVars(Tick(s) \/ SyncStep(s))
           /\ WF_durableVars(carriers[s].main = "done" /\ SessionEnds(s))

DurableSpec == DurableInit /\ [][DurableNext]_durableVars /\ DurableFairness

-----------------------------------------------------------------------------
(* Properties                                                              *)

AllRows == UNION AdmissionTables
CarrierEntries == [server : Servers \cup {Unserved}, rows : SUBSET AllRows]
CarrierRecords ==
    [live : BOOLEAN, main : {"away", "starting", "first", "run", "done"},
     sync : {"rest", "has", "machine", "rows", "install", "ended"},
     follows : BOOLEAN, registered : BOOLEAN, draft : SUBSET AllRows]
SelectedRoutes == {rule.route : rule \in Rules} \cup {0}
Selections ==
    [at : {"idle", "selected", "open"}, server : Servers \cup {Unserved}, route : SelectedRoutes]

\* The registries, the handlers and the requests have the shape the code gives
\* them.
DurableTypeOK ==
    /\ admitted \in SUBSET AllRows /\ registriesOpen \in BOOLEAN
    /\ byKey \in [Identities -> CarrierEntries] /\ carriers \in [Servers -> CarrierRecords]
    /\ selections \in [Requesters -> Selections]

\* The registries keep to their limits, and an entry is empty or filed under the
\* identity of the session it names.
RegistriesKeepLimits ==
    /\ Cardinality(admitted) <= MaximumAdmissions
    /\ Cardinality(Entries) <= MaximumCarrierRoutes
    /\ \A i \in Identities :
           byKey[i] = NoEntry \/ (byKey[i].server \in Servers /\ IdentityOf[byKey[i].server] = i)

\* The inductive invariant.
DurableInv == DurableTypeOK /\ RegistriesKeepLimits /\ IsFiniteSet(Entries)

\* "A delayed observation from an overlapping old session cannot mutate its
\* replacement": what an entry says changes only by the handler of the session
\* the entry names, however late the other sessions of the identity are.
ObservationIsItsOwn ==
    [][\A i \in Identities :
           byKey'[i].server = byKey[i].server /\ byKey'[i].rows # byKey[i].rows =>
               carriers[byKey[i].server].sync = "install"
                   /\ carriers'[byKey[i].server].sync # "install"]_durableVars

\* A stream begins only on a route the admission table still holds for the
\* session's identity, whatever the route registry said when it was selected.
OpensOnlyAdmitted ==
    [][\A q \in Requesters :
           selections[q].at # "open" /\ selections'[q].at = "open" =>
               \E row \in admitted :
                   /\ row.identity = IdentityOf[selections[q].server]
                   /\ row.route = selections[q].route
                   /\ Usable(row)]_durableVars

\* A session that is done leaves the route registry for good, even one whose
\* handler had returned, and detached it, while its syncDurable was about to
\* attach it.
EndedSessionIsForgotten ==
    \A s \in Servers :
        carriers[s].main # "away" /\ ~carriers[s].live
            ~> [](byKey[IdentityOf[s]].server # s)

\* An identity that has lost its admissions for good ends up without a
\* selectable entry.
WithdrawnIdentityIsUnselected ==
    \A i \in Identities :
        <>[](ForIdentity(i) = {}) => <>[](\A rule \in Rules : i \notin Eligible(rule))

\* "Accessor carriers remain eligible for in-place durable promotion": a
\* session that lasts and whose identity stays admitted is entered, unless the
\* registry is full, is closed or has another session of that identity.
LastingCarrierIsPromoted ==
    \A s \in Accessors :
        <>[](/\ carriers[s].main \in {"starting", "first", "run"}
             /\ HasIdentity(IdentityOf[s])
             /\ Cardinality(Entries \ {IdentityOf[s]}) < MaximumCarrierRoutes)
            => <>[](byKey[IdentityOf[s]].server # Unserved)
=============================================================================
