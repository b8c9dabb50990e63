--------------------------- MODULE PreviewCarriers ---------------------------
(***************************************************************************)
(* How a preview reaches the edge and leaves it.  The control plane lists  *)
(* admissions; one worker (runtime/preview_carrier.go) pulls them, installs*)
(* them as pending, acknowledges them and then marks and commits them in   *)
(* the expected-admission registry (datacarrier/admission.go).  One        *)
(* handler for each authenticated carrier session attaches what that       *)
(* registry holds for the session's identity to the preview routes of the  *)
(* gateway (edgehttp/preview_carrier_transport.go).  Worker, handlers and  *)
(* the watchers of ended sessions run concurrently and share the two       *)
(* registries, each call under its own lock.                               *)
(*                                                                         *)
(* An admission is [route, identity, gen, rev, expires]; its key is its    *)
(* route.  An identity is [session, process].  Host names and aliases are  *)
(* in PreviewAliases.                                                      *)
(***************************************************************************)
EXTENDS Integers, FiniteSets

CONSTANTS
    Offers,          \* the admissions the control plane may issue
    Carriers,        \* the carrier sessions that may connect
    CarrierIdentity, \* carrier -> the identity its certificate names
    MaxToday,        \* bound on the wall clock
    Unrouted         \* no admission, no carrier

VARIABLES
    today,    \* the wall clock the edge reads
    issued,   \* the control plane: [listed, gone, commands, acked]
    expected, \* route -> [adm, admitted] of the expected-admission registry
    attached, \* route -> [adm, carrier] of the preview route registry
    worker,   \* the preview carrier worker
    handlers  \* carrier -> the handler that serves it

previewVars == <<today, issued, expected, attached, worker, handlers>>

Routes == {a.route : a \in Offers}
NotExpected == [adm |-> Unrouted, admitted |-> FALSE]
NotAttached == [adm |-> Unrouted, carrier |-> Unrouted]
RestingWorker == [pc |-> "rest", now |-> 0, draft |-> {}, orders |-> {}, seen |-> {},
                  pending |-> {}, notes |-> {}]
NewHandler == [pc |-> "new", open |-> FALSE, holds |-> {}, todo |-> {}, current |-> Unrouted]

PreviewInit ==
    /\ today = 0
    /\ issued = [listed |-> {}, gone |-> {}, commands |-> {}, acked |-> {}]
    /\ expected = [r \in Routes |-> NotExpected]
    /\ attached = [r \in Routes |-> NotAttached]
    /\ worker = RestingWorker
    /\ handlers = [c \in Carriers |-> NewHandler]

-----------------------------------------------------------------------------
(* The control plane.  Attachment generations of a route only grow; a      *)
(* released attachment leaves a terminal command until the edge            *)
(* acknowledges it.                                                        *)

\* One record for each route: a later one takes the place of an earlier one.
Overwrite(kept, new) == {o \in kept : \A n \in new : n.route # o.route} \cup new

ServerIssues(a) ==
    /\ a.expires > today
    /\ a \notin issued.listed \cup issued.gone
    /\ \A b \in issued.listed : b.route # a.route
    /\ \A b \in issued.gone : b.route = a.route => b.gen < a.gen
    /\ issued' = [issued EXCEPT !.listed = @ \cup {a}]
    /\ UNCHANGED <<today, expected, attached, worker, handlers>>

ServerReleases(a) ==
    /\ a \in issued.listed
    /\ issued' = [issued EXCEPT !.listed = @ \ {a}, !.gone = @ \cup {a},
                                !.commands = Overwrite(@, {a})]
    /\ UNCHANGED <<today, expected, attached, worker, handlers>>

TimePasses ==
    /\ today < MaxToday
    /\ today' = today + 1
    /\ UNCHANGED <<issued, expected, attached, worker, handlers>>

-----------------------------------------------------------------------------
(* The two registries. *)

ExpectedFor(i) ==
    {expected[r].adm : r \in {q \in Routes : /\ expected[q].admitted
                                             /\ expected[q].adm.identity = i
                                             /\ expected[q].adm.expires > today}}

\* Every change of the expected-admission registry closes `changed`, which
\* wakes the handlers parked in WaitForIdentity.
Changed(hs) ==
    [c \in Carriers |-> IF hs[c].pc = "parked" THEN [hs[c] EXCEPT !.pc = "wait"] ELSE hs[c]]

newer(old, next) ==
    /\ next.gen >= old.gen
    /\ next.identity.process >= old.identity.process
    /\ next.identity.process = old.identity.process => next.identity.session = old.identity.session
    /\ \/ next.gen > old.gen
       \/ next.identity.process > old.identity.process
       \/ next.rev > old.rev

CanAttachPreview(a, c) ==
    LET old == attached[a.route]
    IN  /\ a.expires > today
        /\ \/ old = NotAttached
           \/ old = [adm |-> a, carrier |-> c]
           \/ old # NotAttached /\ newer(old.adm, a)

\* DetachAdmission compares operation, generation, identity and revision with
\* the current entry, and not the carrier session that entry was attached by.
DetachAdmissions(as, routes) ==
    [r \in Routes |->
        IF \E a \in as : /\ a.route = r /\ routes[r] # NotAttached
                         /\ a.gen = routes[r].adm.gen
                         /\ a.identity = routes[r].adm.identity
                         /\ a.rev = routes[r].adm.rev
        THEN NotAttached ELSE routes[r]]

\* Detach compares identity and revision only.
DetachRoute(a, routes) ==
    [r \in Routes |->
        IF /\ r = a.route /\ routes[r] # NotAttached
           /\ routes[r].adm.identity = a.identity /\ routes[r].adm.rev = a.rev
        THEN NotAttached ELSE routes[r]]

-----------------------------------------------------------------------------
(* PreviewCarrierWorker.reconcile.  A step ends at each network call and   *)
(* at each lock another goroutine can take in between; `seen` is a route   *)
(* snapshot that is being worked off.                                      *)

Served == {attached[r].adm : r \in {q \in Routes : attached[q] # NotAttached}}
ExpiredAt(now) == {a \in Served : a.expires <= now}

WorkerBegins ==
    /\ worker.pc = "rest"
    /\ worker' = [worker EXCEPT !.pc = "expiring", !.now = today, !.seen = ExpiredAt(today)]
    /\ UNCHANGED <<today, issued, expected, attached, handlers>>

\* One route of expireLocal: the route, then its admission, then the note the
\* server is still to be given.
ExpireOne ==
    /\ worker.pc \in {"expiring", "flushing"}
    /\ \E a \in worker.seen :
        /\ attached' = DetachRoute(a, attached)
        /\ LET current == expected[a.route].adm
           IN  /\ expected' = [expected EXCEPT ![a.route] =
                                IF current # Unrouted /\ current.gen = a.gen THEN NotExpected ELSE @]
               /\ handlers' = IF expected' = expected THEN handlers ELSE Changed(handlers)
        /\ worker' = [worker EXCEPT !.seen = @ \ {a}, !.notes = Overwrite(@, {a})]
    /\ UNCHANGED <<today, issued>>

\* A failed pull, or one row that no longer validates, keeps the registry.
PullFails ==
    /\ worker.pc = "expiring" /\ worker.seen = {}
    /\ worker' = [worker EXCEPT !.pc = "rest"]
    /\ UNCHANGED <<today, issued, expected, attached, handlers>>

InstallPending(draft) ==
    [r \in Routes |->
        IF ~expected[r].admitted /\ \E a \in draft : a.route = r
        THEN [adm |-> CHOOSE a \in draft : a.route = r, admitted |-> FALSE]
        ELSE expected[r]]

PullInstalls ==
    /\ worker.pc = "expiring" /\ worker.seen = {}
    /\ \A a \in issued.listed : a.expires > worker.now
    /\ expected' = InstallPending(issued.listed)
    /\ handlers' = Changed(handlers)
    /\ worker' = [worker EXCEPT !.pc = "installed", !.draft = issued.listed,
                                !.orders = issued.commands]
    /\ UNCHANGED <<today, issued, attached>>

\* The acknowledgement is refused, or it is recorded and its answer is lost.
AcknowledgeFails ==
    /\ worker.pc = "installed"
    /\ \/ UNCHANGED issued
       \/ issued' = [issued EXCEPT !.acked = @ \cup worker.draft]
    /\ worker' = [worker EXCEPT !.pc = "rest", !.draft = {}, !.orders = {}]
    /\ UNCHANGED <<today, expected, attached, handlers>>

AcknowledgeMarks ==
    /\ worker.pc = "installed"
    /\ issued' = [issued EXCEPT !.acked = @ \cup worker.draft]
    /\ expected' = [r \in Routes |->
                        IF \E a \in worker.draft : a.route = r
                        THEN [adm |-> CHOOSE a \in worker.draft : a.route = r, admitted |-> TRUE]
                        ELSE expected[r]]
    /\ handlers' = Changed(handlers)
    /\ worker' = [worker EXCEPT !.pc = "marked"]
    /\ UNCHANGED <<today, attached>>

\* Commit drops every admission the pull did not list.  A refused alias set
\* ends the reconciliation here.
CommitAdmissions ==
    /\ worker.pc = "marked"
    /\ expected' = [r \in Routes |->
                        IF \E a \in worker.draft : a.route = r THEN expected[r] ELSE NotExpected]
    /\ handlers' = Changed(handlers)
    /\ \/ worker' = [worker EXCEPT !.pc = "committed"]
       \/ worker' = [worker EXCEPT !.pc = "rest", !.draft = {}, !.orders = {}]
    /\ UNCHANGED <<today, issued, attached>>

\* The route snapshot detachRemoved works off.
SurveyRemoved ==
    /\ worker.pc = "committed"
    /\ worker' = [worker EXCEPT !.pc = "detaching",
                    !.seen = {a \in Served : \A b \in worker.draft :
                                ~ /\ b.route = a.route /\ b.identity = a.identity
                                  /\ b.gen = a.gen /\ b.rev = a.rev /\ b.expires > worker.now}]
    /\ UNCHANGED <<today, issued, expected, attached, handlers>>

DetachOne ==
    /\ worker.pc \in {"detaching", "ordering", "closing"}
    /\ \E a \in worker.seen :
        /\ attached' = DetachRoute(a, attached)
        /\ worker' = [worker EXCEPT !.seen = @ \ {a}]
    /\ UNCHANGED <<today, issued, expected, handlers>>

\* The terminal command of an attachment carries a later generation than the
\* attachment it ends.
OrderedAway(a) ==
    \E o \in worker.orders : o.route = a.route /\ o.identity = a.identity
                             /\ o.rev = a.rev /\ a.gen <= o.gen

SurveyOrders ==
    /\ worker.pc = "detaching" /\ worker.seen = {}
    /\ worker' = [worker EXCEPT !.pc = "ordering", !.seen = {a \in Served : OrderedAway(a)}]
    /\ UNCHANGED <<today, issued, expected, attached, handlers>>

\* The rest of applyServerDetachments: the expected admissions go, then the
\* commands are reported; unanswered ones are kept for another attempt.  The
\* second expireLocal starts from a new snapshot.
ApplyOrders ==
    /\ worker.pc = "ordering" /\ worker.seen = {}
    /\ expected' = [r \in Routes |->
                        IF expected[r] # NotExpected /\ OrderedAway(expected[r].adm)
                        THEN NotExpected ELSE expected[r]]
    /\ handlers' = IF expected' = expected THEN handlers ELSE Changed(handlers)
    /\ \E heard, answered \in BOOLEAN :
        /\ answered => heard
        /\ issued' = IF heard THEN [issued EXCEPT !.commands = @ \ worker.orders] ELSE issued
        /\ worker' = [worker EXCEPT !.pc = "flushing", !.seen = ExpiredAt(worker.now),
                        !.draft = {}, !.orders = {},
                        !.pending = IF answered THEN @ ELSE Overwrite(@, worker.orders)]
    /\ UNCHANGED <<today, attached>>

\* flushPending and flushPendingObservations: each batch goes whole or stays.
Flush(next) ==
    \E heard, answered, noted \in BOOLEAN :
        /\ answered => heard
        /\ issued' = IF heard THEN [issued EXCEPT !.commands = @ \ worker.pending] ELSE issued
        /\ worker' = [worker EXCEPT !.pc = next,
                        !.pending = IF answered THEN {} ELSE @,
                        !.notes = IF noted THEN {} ELSE @]

FlushPending ==
    /\ worker.pc = "flushing" /\ worker.seen = {}
    /\ Flush("rest")
    /\ UNCHANGED <<today, expected, attached, handlers>>

\* Shutdown cancels the loop, whose calls then fail and end the pass it is in,
\* waits for it and removes every route.
ShutdownSurvey ==
    /\ worker.pc = "rest"
    /\ worker' = [worker EXCEPT !.pc = "closing", !.seen = Served]
    /\ UNCHANGED <<today, issued, expected, attached, handlers>>

ShutdownFlush ==
    /\ worker.pc = "closing" /\ worker.seen = {}
    /\ Flush("stopped")
    /\ UNCHANGED <<today, expected, attached, handlers>>

-----------------------------------------------------------------------------
(* Carrier sessions and their handlers. *)

\* PeerBinding lets a session in only for an admitted, unexpired admission.
CarrierConnects(c) ==
    /\ handlers[c].pc = "new"
    /\ ExpectedFor(CarrierIdentity[c]) # {}
    /\ handlers' = [handlers EXCEPT ![c].pc = "wait", ![c].open = TRUE]
    /\ UNCHANGED <<today, issued, expected, attached, worker>>

CarrierEnds(c) ==
    /\ handlers[c].open
    /\ handlers' = [handlers EXCEPT ![c].open = FALSE]
    /\ UNCHANGED <<today, issued, expected, attached, worker>>

\* WaitForIdentity looks, and reads the channel to wait on afterwards.
WaitLooks(c) ==
    /\ handlers[c].pc = "wait"
    /\ handlers' = [handlers EXCEPT ![c].pc =
                        IF ExpectedFor(CarrierIdentity[c]) # {} THEN "idle" ELSE "looked"]
    /\ UNCHANGED <<today, issued, expected, attached, worker>>

WaitParks(c) ==
    /\ handlers[c].pc = "looked"
    /\ handlers' = [handlers EXCEPT ![c].pc = "parked"]
    /\ UNCHANGED <<today, issued, expected, attached, worker>>

WaitTimesOut(c) ==
    /\ handlers[c].pc = "parked"
    /\ handlers' = [handlers EXCEPT ![c].pc = "ended"]
    /\ UNCHANGED <<today, issued, expected, attached, worker>>

TickKeeps(c) ==
    LET desired == ExpectedFor(CarrierIdentity[c])
    IN  /\ handlers[c].pc = "idle"
        /\ desired \ handlers[c].holds # {}
        /\ handlers' = [handlers EXCEPT ![c].pc = "trying", ![c].todo = desired \ handlers[c].holds]
        /\ UNCHANGED <<today, issued, expected, attached, worker>>

\* One reconciliation: what is no longer expected is detached and reported,
\* then every admission that is not yet attached is tried in turn.
TickReads(c) ==
    LET desired == ExpectedFor(CarrierIdentity[c])
        stale == handlers[c].holds \ desired
    IN  /\ handlers[c].pc = "idle"
        /\ attached' = DetachAdmissions(stale, attached)
        /\ handlers' = [handlers EXCEPT ![c].pc = IF stale = {} THEN "trying" ELSE "reporting",
                                        ![c].holds = @ \cap desired,
                                        ![c].todo = desired \ handlers[c].holds]
        /\ stale # {} \/ handlers[c].holds # desired
        /\ UNCHANGED <<today, issued, expected, worker>>

TickReports(c) ==
    /\ handlers[c].pc = "reporting"
    /\ handlers' = [handlers EXCEPT ![c].pc = "trying"]
    /\ UNCHANGED <<today, issued, expected, attached, worker>>

\* A refused attachment is tried again by a later tick.
AttachNext(c) ==
    /\ handlers[c].pc = "trying"
    /\ \E a \in handlers[c].todo :
        \/ /\ CanAttachPreview(a, c)
           /\ attached' = [attached EXCEPT ![a.route] = [adm |-> a, carrier |-> c]]
           /\ handlers' = [handlers EXCEPT ![c].pc = "announcing", ![c].current = a,
                                           ![c].todo = @ \ {a}]
        \/ /\ ~CanAttachPreview(a, c)
           /\ handlers' = [handlers EXCEPT ![c].todo = @ \ {a}]
           /\ UNCHANGED attached
    /\ UNCHANGED <<today, issued, expected, worker>>

\* The route is held only once the server has heard `edge_ready`.
AnnounceReady(c) ==
    LET a == handlers[c].current
    IN  /\ handlers[c].pc = "announcing"
        /\ \/ /\ handlers' = [handlers EXCEPT ![c].pc = "trying", ![c].current = Unrouted,
                                              ![c].holds = @ \cup {a}]
              /\ UNCHANGED attached
           \/ /\ handlers' = [handlers EXCEPT ![c].pc = "trying", ![c].current = Unrouted]
              /\ attached' = DetachAdmissions({a}, attached)
        /\ UNCHANGED <<today, issued, expected, worker>>

TickEnds(c) ==
    /\ handlers[c].pc = "trying" /\ handlers[c].todo = {}
    /\ handlers' = [handlers EXCEPT ![c].pc = "idle"]
    /\ UNCHANGED <<today, issued, expected, attached, worker>>

\* closeAttached, when the session has ended.
CloseAttached(c) ==
    /\ handlers[c].pc = "idle" /\ ~handlers[c].open
    /\ attached' = DetachAdmissions(handlers[c].holds, attached)
    /\ handlers' = [handlers EXCEPT ![c].pc = "ended", ![c].holds = {}]
    /\ UNCHANGED <<today, issued, expected, worker>>

\* watchEntry removes the entry it was started for when its session ends.
WatchPreview(r) ==
    /\ attached[r] # NotAttached
    /\ ~handlers[attached[r].carrier].open
    /\ attached' = [attached EXCEPT ![r] = NotAttached]
    /\ UNCHANGED <<today, issued, expected, worker, handlers>>

-----------------------------------------------------------------------------
WorkerStep ==
    \/ WorkerBegins \/ ExpireOne \/ PullFails \/ PullInstalls
    \/ AcknowledgeFails \/ AcknowledgeMarks \/ CommitAdmissions
    \/ SurveyRemoved \/ DetachOne \/ SurveyOrders \/ ApplyOrders \/ FlushPending
    \/ ShutdownSurvey \/ ShutdownFlush

HandlerStep(c) ==
    \/ WaitLooks(c) \/ WaitParks(c) \/ TickReads(c) \/ TickReports(c)
    \/ AttachNext(c) \/ AnnounceReady(c) \/ TickEnds(c) \/ CloseAttached(c)

PreviewNext ==
    \/ \E a \in Offers : ServerIssues(a) \/ ServerReleases(a)
    \/ TimePasses
    \/ WorkerStep
    \/ \E c \in Carriers : CarrierConnects(c) \/ CarrierEnds(c) \/ WaitTimesOut(c) \/ HandlerStep(c)
    \/ \E r \in Routes : WatchPreview(r)

PreviewSpec == PreviewInit /\ [][PreviewNext]_previewVars

WorkerLoop == WorkerBegins \/ ExpireOne \/ CommitAdmissions \/ SurveyRemoved
                  \/ DetachOne \/ SurveyOrders \/ ShutdownFlush

\* The worker and the handlers run; the control plane answers again and
\* again, and withdraws a row that has expired.  Nothing is assumed of the
\* alias sets it sends.
AnswersAndHandlers ==
    /\ WF_previewVars(\E a \in Offers : a.expires <= today /\ ServerReleases(a))
    /\ SF_previewVars(PullInstalls)
    /\ SF_previewVars(AcknowledgeMarks)
    /\ SF_previewVars(ApplyOrders /\ issued'.commands \cap worker.orders = {})
    /\ WF_previewVars(FlushPending)
    /\ \A c \in Carriers : WF_previewVars(HandlerStep(c))
    /\ \A r \in Routes : WF_previewVars(WatchPreview(r))

-----------------------------------------------------------------------------
WorkerClosed == worker.pc \in {"closing", "stopped"}

\* The registries are keyed by route, and what they and the worker hold are
\* admissions the control plane has issued.
PreviewTypeOK ==
    /\ today \in 0..MaxToday
    /\ issued.listed \cup issued.gone \cup issued.acked \cup issued.commands \subseteq Offers
    /\ \A r \in Routes :
        /\ expected[r] = NotExpected \/ (expected[r].adm \in Offers /\ expected[r].adm.route = r)
        /\ attached[r] = NotAttached
             \/ (attached[r].adm \in Offers /\ attached[r].adm.route = r
                 /\ attached[r].carrier \in Carriers)
    /\ worker.pc \in {"rest", "expiring", "installed", "marked", "committed", "detaching",
                       "ordering", "flushing", "closing", "stopped"}
    /\ worker.draft \cup worker.orders \cup worker.seen \cup worker.pending \cup worker.notes
         \subseteq Offers
    /\ \A c \in Carriers :
        /\ handlers[c].pc \in {"new", "wait", "looked", "parked", "idle", "reporting",
                               "trying", "announcing", "ended"}
        /\ handlers[c].holds \cup handlers[c].todo \subseteq Offers

\* No carrier is let in and no route is attached for an admission the control
\* plane has not had the edge's acknowledgement of: pending admissions are
\* invisible, and a lost acknowledgement opens nothing.
ServedWasAcknowledged ==
    /\ Served \subseteq issued.acked
    /\ \A r \in Routes : expected[r].admitted => expected[r].adm \in issued.acked

\* An admission that was admitted is given up only when it has expired, when
\* the control plane has withdrawn it, or for a later attachment of its route:
\* failed pulls and failed acknowledgements keep the last known good set.
KeepsLastKnownGood ==
    [][\A r \in Routes :
        (expected[r].admitted /\ expected'[r] # expected[r])
        => \/ expected[r].adm.expires <= today
           \/ expected[r].adm \in issued.gone
           \/ expected'[r].admitted /\ expected'[r].adm.gen > expected[r].adm.gen]_previewVars

\* A withdrawn preview is taken off the gateway and stays off, although a
\* handler may still attach it once more from a list it read before, and
\* although the worker may never get past a refused alias set.  (A worker that
\* has been shut down leaves the carriers to end on their own.)
WithdrawnIsDetached ==
    \A a \in Offers : a \in issued.gone ~> ([](a \notin Served) \/ WorkerClosed)

\* Once the worker gets past the alias set again and again, every terminal
\* command is acknowledged, whichever answers are lost on the way.
CommandIsAcknowledged ==
    []<>(worker.pc = "committed")
        => \A a \in Offers : a \in issued.commands ~> a \notin issued.commands

\* A handler that found nothing for its session and waits is not left waiting
\* while the registry holds an admission for it, even when the admission was
\* published between its look and its wait.
WaiterProceeds ==
    \A c \in Carriers :
        handlers[c].pc \in {"looked", "parked"}
        ~> \/ handlers[c].pc \notin {"looked", "parked"}
           \/ ExpectedFor(CarrierIdentity[c]) = {}
           \/ WorkerClosed

\* "Stale carrier sessions cannot remove a replacement": what a handler
\* detaches when its session has ended is not a route that another, newer
\* session has attached since.
StaleCloseSparesReplacement ==
    [][\A c \in Carriers : CloseAttached(c) =>
        \A r \in Routes : attached[r].carrier # c => attached'[r] = attached[r]]_previewVars
=============================================================================
