---------------------------- MODULE RouteServing ----------------------------
(* What the generation registry of internal/route promises its callers: one *)
(* route table serves at a time, tables only ever move forward, a lease     *)
(* keeps the generation that admitted it, and a retired generation reported *)
(* as drained has no lease and never gets one again.                        *)
EXTENDS Naturals

CONSTANTS
    Generations,    \* route generation numbers
    Routes,         \* what a request can match
    Leases          \* stream leases

NoGeneration == 0

VARIABLES
    serving,        \* the generation that admits streams
    table,          \* the routes that generation serves
    held,           \* the generation each lease is fenced to
    sealed          \* retired generations whose drain has completed

vars == <<serving, table, held, sealed>>

Init ==
    /\ serving = NoGeneration
    /\ table = {}
    /\ held = [l \in Leases |-> NoGeneration]
    /\ sealed = {}

(* A newer generation becomes the only one that admits streams. *)
Promote(g, t) ==
    /\ g > serving
    /\ serving' = g
    /\ table' = t
    /\ UNCHANGED <<held, sealed>>

(* A stream is admitted by a route of the serving table. *)
Admit(l, r) ==
    /\ held[l] = NoGeneration
    /\ serving # NoGeneration
    /\ r \in table
    /\ held' = [held EXCEPT ![l] = serving]
    /\ UNCHANGED <<serving, table, sealed>>

End(l) ==
    /\ held[l] # NoGeneration
    /\ held' = [held EXCEPT ![l] = NoGeneration]
    /\ UNCHANGED <<serving, table, sealed>>

(* A retired generation is reported drained: nobody holds it any more. *)
Seal(g) ==
    /\ g < serving
    /\ \A l \in Leases : held[l] # g
    /\ sealed' = sealed \cup {g}
    /\ UNCHANGED <<serving, table, held>>

Next ==
    \/ \E g \in Generations, t \in SUBSET Routes : Promote(g, t)
    \/ \E l \in Leases, r \in Routes : Admit(l, r)
    \/ \E l \in Leases : End(l)
    \/ \E g \in Generations : Seal(g)

Spec == Init /\ [][Next]_vars
=============================================================================
