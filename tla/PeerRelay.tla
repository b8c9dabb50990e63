------------------------------ MODULE PeerRelay ------------------------------
(* The Manager of internal/peerrelay: two authorized endpoint legs with the    *)
(* same binding and carrier are paired, bytes are copied between them, and the *)
(* usage is recorded when the relay ends. A relay object is named by the leg   *)
(* whose Attach created it. Each critical section of the manager's mutex is a  *)
(* step; terminate reads the legs under the mutex and closes them after it.    *)
EXTENDS Naturals, FiniteSets

CONSTANTS
    Bindings,           \* relay keys: a binding with its carrier
    Legs,               \* Attach calls
    Admissions,         \* the binding and role each call may have been admitted with
    NoLeg,              \* nil
    MaximumPending, MaximumActive, MaximumConsumed,
    MaximumBytes,       \* of a binding, in chunks, each direction
    Lapsing             \* bound: the bindings that may expire

ASSUME RelayAssumption ==
    /\ NoLeg \notin Legs
    /\ Admissions \subseteq [Legs -> [binding : Bindings, role : {"initiator", "host"}]]
    /\ {MaximumPending, MaximumActive, MaximumConsumed, MaximumBytes} \subseteq Nat

VARIABLES
    legs,           \* the Attach calls and their streams
    relays,         \* Manager.relays: the current relay object of each binding
    objects,        \* relay objects, by the leg that created them
    consumed,       \* Manager.consumed
    lapsed,         \* bindings whose ExpiresAt has passed
    manager         \* draining, closed, and the progress of Close

relayVars == <<legs, relays, objects, consumed, lapsed, manager>>

Roles == {"initiator", "host"}
Other(role) == IF role = "host" THEN "initiator" ELSE "host"

NoRelay ==
    [ends |-> [r \in Roles |-> NoLeg], started |-> FALSE, expired |-> FALSE,
     stop |-> "no", seen |-> {}, wasStarted |-> FALSE, final |-> FALSE,
     copy |-> [r \in Roles |-> "none"], bytes |-> [r \in Roles |-> 0], reports |-> 0]

RelayInit ==
    /\ \E a \in Admissions :
        legs = [l \in Legs |-> [state |-> "new", binding |-> a[l].binding, role |-> a[l].role,
                                relay |-> NoLeg, open |-> TRUE]]
    /\ relays = [k \in Bindings |-> NoLeg]
    /\ objects = [l \in Legs |-> NoRelay]
    /\ consumed = {}
    /\ lapsed = {}
    /\ manager = [draining |-> FALSE, closed |-> FALSE, collected |-> {}, closeReturned |-> FALSE]

Live == {k \in Bindings : relays[k] # NoLeg}
active == {k \in Live : objects[relays[k]].started}
pending == Live \ active

KeyOf(c) == legs[c].binding
EndsOf(c) == {objects[c].ends[r] : r \in Roles} \ {NoLeg}
ClosesStreams(s) == [l \in Legs |-> IF l \in s THEN [legs[l] EXCEPT !.open = FALSE] ELSE legs[l]]

-----------------------------------------------------------------------------
(* Attach: the binding is checked against the clock, then the mutex is taken.  *)

AttachBegins(l) ==
    /\ legs[l].state = "new" /\ legs[l].binding \notin lapsed
    /\ legs' = [legs EXCEPT ![l].state = "admitted"]
    /\ UNCHANGED <<relays, objects, consumed, lapsed, manager>>

pruneConsumedAll == {}
pruneConsumedLocked == consumed \ lapsed

AttachRefused(l) ==
    LET k == legs[l].binding
        c == relays[k]
    IN  \/ manager.draining
        \/ k \in pruneConsumedLocked
        \/ /\ c = NoLeg
           /\ \/ Cardinality(pruneConsumedLocked) + Cardinality(Live) >= MaximumConsumed
              \/ Cardinality(pending) >= MaximumPending
        \/ /\ c # NoLeg
           /\ \/ objects[c].expired
              \/ objects[c].ends[legs[l].role] # NoLeg
              \/ ~objects[c].started /\ Cardinality(active) >= MaximumActive

WithEnd(o, role, l, paired) ==
    [o EXCEPT !.ends[role] = l, !.started = paired,
              !.copy = IF paired THEN [r \in Roles |-> "copying"] ELSE o.copy]

Attached(l) ==
    LET k == legs[l].binding
        created == relays[k] = NoLeg
        c == IF created THEN l ELSE relays[k]
        paired == ~created
    IN  /\ relays' = [relays EXCEPT ![k] = c]
        /\ objects' = [objects EXCEPT ![c] = WithEnd(objects[c], legs[l].role, l, paired)]
        /\ legs' = [legs EXCEPT ![l].state = "attached", ![l].relay = c]

AttachLocked(l) ==
    /\ legs[l].state = "admitted"
    /\ consumed' = pruneConsumedLocked
    /\ \/ /\ AttachRefused(l)
          /\ legs' = [legs EXCEPT ![l].state = "returned", ![l].open = FALSE]
          /\ UNCHANGED <<relays, objects>>
       \/ ~AttachRefused(l) /\ Attached(l)
    /\ UNCHANGED <<lapsed, manager>>

AttachReturns(l) ==
    /\ legs[l].state = "attached" /\ objects[legs[l].relay].final
    /\ legs' = [legs EXCEPT ![l].state = "returned"]
    /\ UNCHANGED <<relays, objects, consumed, lapsed, manager>>

-----------------------------------------------------------------------------
(* terminate runs once per relay: it reads the legs and whether the relay has  *)
(* started, unlocks, closes those legs, and finalizes a relay not started.     *)

terminate(c) ==
    /\ objects[c].stop = "no"
    /\ objects' = [objects EXCEPT ![c].stop = "closing", ![c].seen = EndsOf(c),
                                  ![c].wasStarted = objects[c].started]
    /\ UNCHANGED <<legs, relays, consumed, lapsed, manager>>

Owned(c) == relays[KeyOf(c)] = c

RevokeRelay(c) == Owned(c) /\ terminate(c)

(* The request behind a leg ends.                                              *)
fail(l) == legs[l].state = "attached" /\ Owned(legs[l].relay) /\ terminate(legs[l].relay)

expirePending(c) ==
    /\ Owned(c) /\ KeyOf(c) \in lapsed
    /\ ~objects[c].started /\ ~objects[c].expired
    /\ objects' = [objects EXCEPT ![c].expired = TRUE]
    /\ UNCHANGED <<legs, relays, consumed, lapsed, manager>>

ExpiredTerminates(c) == objects[c].expired /\ terminate(c)

finalizeAgain(o) == [o EXCEPT !.final = TRUE, !.reports = IF o.started THEN @ + 1 ELSE @]

(* The first finalize of a relay records its usage if its legs were paired.    *)
finalize(o) == IF o.final THEN o ELSE [o EXCEPT !.final = TRUE, !.reports = IF o.started THEN @ + 1 ELSE @]

Finalizes(c, o, closing) ==
    /\ objects' = [objects EXCEPT ![c] = finalize(o)]
    /\ legs' = ClosesStreams(closing)
    /\ relays' = IF Owned(c) /\ ~o.final THEN [relays EXCEPT ![KeyOf(c)] = NoLeg] ELSE relays
    /\ consumed' = IF o.final THEN consumed ELSE consumed \cup {KeyOf(c)}
    /\ UNCHANGED <<lapsed, manager>>

TerminateEnds(c) ==
    LET o == [objects[c] EXCEPT !.stop = "stopped", !.seen = {}, !.wasStarted = FALSE]
        seen == objects[c].seen
    IN  /\ objects[c].stop = "closing"
        /\ IF objects[c].wasStarted
           THEN /\ objects' = [objects EXCEPT ![c] = o]
                /\ legs' = ClosesStreams(seen)
                /\ UNCHANGED <<relays, consumed, lapsed, manager>>
           ELSE Finalizes(c, o, seen)

-----------------------------------------------------------------------------
(* run: one copier towards each end. A read and the write of what it yields    *)
(* are one step; the end of the source, an error, or a chunk past the byte     *)
(* limit ends the copy, and so does an operation on a closed stream. A copy's  *)
(* count is dropped when it ends.                                              *)

Open(c, role) == legs[objects[c].ends[role]].open

CopyEnds(o, role) == [o EXCEPT !.copy[role] = "ended", !.bytes[role] = 0]

limitedWrite(o, role) ==
    IF o.bytes[role] < MaximumBytes THEN [o EXCEPT !.bytes[role] = @ + 1] ELSE CopyEnds(o, role)

CopyForwards(c, role) ==
    /\ objects[c].copy[role] = "copying" /\ Open(c, Other(role))
    /\ \E o \in {CopyEnds(objects[c], role)}
                \cup IF Open(c, role) THEN {limitedWrite(objects[c], role)} ELSE {} :
        objects' = [objects EXCEPT ![c] = o]
    /\ UNCHANGED <<legs, relays, consumed, lapsed, manager>>

CopyStops(c, role) ==
    /\ objects[c].copy[role] = "copying" /\ ~Open(c, Other(role))
    /\ objects' = [objects EXCEPT ![c] = CopyEnds(objects[c], role)]
    /\ UNCHANGED <<legs, relays, consumed, lapsed, manager>>

RunEnds(c) ==
    /\ \A r \in Roles : objects[c].copy[r] = "ended"
    /\ Finalizes(c, [objects[c] EXCEPT !.copy = [r \in Roles |-> "done"]], EndsOf(c))

-----------------------------------------------------------------------------
BeginRelayDrain ==
    /\ ~manager.draining
    /\ manager' = [manager EXCEPT !.draining = TRUE]
    /\ UNCHANGED <<legs, relays, objects, consumed, lapsed>>

CloseManager ==
    /\ ~manager.closed
    /\ manager' = [manager EXCEPT !.closed = TRUE, !.draining = TRUE,
                                  !.collected = {relays[k] : k \in Live}]
    /\ UNCHANGED <<legs, relays, objects, consumed, lapsed>>

CloseTerminates(c) == c \in manager.collected /\ terminate(c)

CloseReturns ==
    /\ manager.closed /\ ~manager.closeReturned
    /\ \A c \in manager.collected : objects[c].final
    /\ manager' = [manager EXCEPT !.closeReturned = TRUE]
    /\ UNCHANGED <<legs, relays, objects, consumed, lapsed>>

Lapses(k) ==
    /\ k \in Lapsing \ lapsed
    /\ lapsed' = lapsed \cup {k}
    /\ UNCHANGED <<legs, relays, objects, consumed, manager>>

RelayNext ==
    \/ BeginRelayDrain \/ CloseManager \/ CloseReturns
    \/ \E k \in Bindings : Lapses(k)
    \/ \E l \in Legs :
        \/ AttachBegins(l) \/ AttachLocked(l) \/ AttachReturns(l) \/ fail(l)
        \/ RevokeRelay(l) \/ expirePending(l) \/ ExpiredTerminates(l) \/ CloseTerminates(l)
        \/ TerminateEnds(l) \/ RunEnds(l)
        \/ \E r \in Roles : CopyForwards(l, r) \/ CopyStops(l, r)

(* The goroutines of a relay and the call to Close take their steps; nothing   *)
(* is assumed of the peers.                                                    *)
RelayFairness ==
    /\ WF_relayVars(CloseReturns)
    /\ \A l \in Legs : WF_relayVars(\/ AttachReturns(l) \/ CloseTerminates(l) \/ TerminateEnds(l)
                                    \/ RunEnds(l) \/ \E r \in Roles : CopyStops(l, r))

RelaySpec == RelayInit /\ [][RelayNext]_relayVars /\ RelayFairness

-----------------------------------------------------------------------------
(* The manager, its relays and the Attach calls have the shape manager.go      *)
(* gives them.                                                                 *)
RelayType ==
    [ends : [Roles -> Legs \cup {NoLeg}], started : BOOLEAN, expired : BOOLEAN,
     stop : {"no", "closing", "stopped"}, seen : SUBSET Legs, wasStarted : BOOLEAN, final : BOOLEAN,
     copy : [Roles -> {"none", "copying", "ended", "done"}], bytes : [Roles -> Nat], reports : Nat]
RelayTypeOK ==
    /\ legs \in [Legs -> [state : {"new", "admitted", "attached", "returned"}, binding : Bindings,
                          role : Roles, relay : Legs \cup {NoLeg}, open : BOOLEAN]]
    /\ relays \in [Bindings -> Legs \cup {NoLeg}]
    /\ objects \in [Legs -> RelayType]
    /\ consumed \subseteq Bindings /\ lapsed \subseteq Bindings
    /\ manager \in [draining : BOOLEAN, closed : BOOLEAN, collected : SUBSET Legs, closeReturned : BOOLEAN]

(* Attach's limits hold through pairing, termination and expiry: pending and   *)
(* active relays and remembered stream handles each stay within their maximum. *)
RelayWithinCapacity ==
    /\ Cardinality(pending) <= MaximumPending
    /\ Cardinality(active) <= MaximumActive
    /\ Cardinality(consumed \ lapsed) + Cardinality(Live) <= MaximumConsumed

(* A relay whose legs were paired is recorded once when it ends, whether its   *)
(* copies, a cancelled request, a revocation or Close end it first, and one    *)
(* that never paired is not recorded.                                          *)
RelayReportedOnce ==
    \A l \in Legs : objects[l].reports = IF objects[l].final /\ objects[l].started THEN 1 ELSE 0

(* "Each logical stream uses a distinct opaque one-time admission handle"      *)
(* (p2p-v1 contract): while a binding is valid, one relay is made for it.      *)
Made(c) == EndsOf(c) # {}
HandleUsedOnce ==
    \A c, d \in Legs :
        Made(c) /\ Made(d) /\ c # d /\ KeyOf(c) = KeyOf(d) => KeyOf(c) \in lapsed

(* A relay in the map is one of its binding, made and not final; one that was  *)
(* made is in the map until it is final, and remembered until it lapses; what  *)
(* was not made is in nobody's hands.                                          *)
MapHoldsTheUnfinished ==
    /\ \A k \in Bindings : relays[k] # NoLeg =>
        KeyOf(relays[k]) = k /\ Made(relays[k]) /\ ~objects[relays[k]].final
    /\ \A c \in Legs : Made(c) =>
        /\ legs[c].state \in {"attached", "returned"}
        /\ objects[c].final => KeyOf(c) \in consumed \cup lapsed
        /\ ~objects[c].final => Owned(c)
UnmadeIsUntouched ==
    /\ \A c \in Legs : ~Made(c) => objects[c] = NoRelay /\ c \notin manager.collected
    /\ \A l \in Legs : legs[l].state = "attached" => legs[l].relay # NoLeg

(* The inductive invariant.                                                    *)
RelayInv ==
    RelayTypeOK /\ MapHoldsTheUnfinished /\ UnmadeIsUntouched /\ RelayReportedOnce /\ HandleUsedOnce

(* Close returns, whatever the peers do and however its termination of a relay *)
(* meets a second leg, another termination or the end of the copies.           *)
RelayCloseReturns == manager.closed ~> manager.closeReturned
=============================================================================
