--------------------------- MODULE CarrierProofs ---------------------------
(* Theorems about the carriers of connectors: who owns a carrier, from its     *)
(* admission to Shutdown, and how it comes to serve durable routes. Each part  *)
(* has its inductive invariant in its own module. And of peers that meet       *)
(* through this node, for any number of bindings, calls and limits: a binding  *)
(* makes one relay while it is valid, and a paired relay is recorded once; a   *)
(* signaling session joins two endpoints that have named each other, and a     *)
(* credential attaches once.                                                   *)
EXTENDS CarrierService, DurableRoutes, PeerRelay, PeerSignaling, TLAPS

-----------------------------------------------------------------------------
(* Peer relays                                                                 *)

LegType == [state : {"new", "admitted", "attached", "returned"}, binding : Bindings,
            role : Roles, relay : Legs \cup {NoLeg}, open : BOOLEAN]

(* What a relay's owner, its handle and its record depend on.                  *)
SameRelay(c) ==
    /\ objects'[c].ends = objects[c].ends /\ objects'[c].started = objects[c].started
    /\ objects'[c].final = objects[c].final /\ objects'[c].reports = objects[c].reports
Untouched(c) == objects'[c] = objects[c]
SameLeg(l) ==
    /\ legs'[l].binding = legs[l].binding /\ legs'[l].role = legs[l].role
    /\ legs[l].state \in {"attached", "returned"} => legs'[l].state \in {"attached", "returned"}
    /\ legs'[l].state = "attached" => legs[l].state = "attached" /\ legs'[l].relay = legs[l].relay

(* A step that makes, pairs and ends no relay.                                 *)
Background ==
    /\ relays' = relays /\ consumed' \in {consumed, consumed \ lapsed} /\ lapsed \subseteq lapsed'
    /\ \A l \in Legs : SameLeg(l) /\ SameRelay(l)
    /\ \A c \in Legs : ~Made(c) => Untouched(c) /\ c \notin manager'.collected

(* Attach makes a relay for leg l, or pairs it with the one in the map.        *)
Joins(l, c) ==
    /\ legs[l].state = "admitted"
    /\ KeyOf(l) \notin consumed \ lapsed
    /\ c = IF relays[KeyOf(l)] = NoLeg THEN l ELSE relays[KeyOf(l)]
    /\ relays' = [relays EXCEPT ![KeyOf(l)] = c]
    /\ consumed' = consumed \ lapsed /\ lapsed' = lapsed /\ manager' = manager
    /\ \A d \in Legs \ {c} : Untouched(d)
    /\ objects'[c].ends = [objects[c].ends EXCEPT ![legs[l].role] = l]
    /\ objects'[c].final = objects[c].final /\ objects'[c].reports = objects[c].reports
    /\ \A d \in Legs \ {l} : legs'[d] = legs[d]
    /\ legs'[l] = [legs[l] EXCEPT !.state = "attached", !.relay = c]

(* The first or a later finalize of a relay that was made.                     *)
Ends(c) ==
    /\ Made(c)
    /\ relays' = IF Owned(c) /\ ~objects[c].final THEN [relays EXCEPT ![KeyOf(c)] = NoLeg] ELSE relays
    /\ consumed' = IF objects[c].final THEN consumed ELSE consumed \cup {KeyOf(c)}
    /\ lapsed' = lapsed /\ manager' = manager
    /\ \A d \in Legs \ {c} : Untouched(d)
    /\ objects'[c].ends = objects[c].ends /\ objects'[c].started = objects[c].started
    /\ objects'[c].final
    /\ objects'[c].reports = IF ~objects[c].final /\ objects[c].started THEN objects[c].reports + 1
                             ELSE objects[c].reports
    /\ \A l \in Legs : SameLeg(l)

-----------------------------------------------------------------------------
LEMMA TypesOf ==
    ASSUME RelayTypeOK, NEW l \in Legs
    PROVE  /\ legs[l] \in LegType /\ objects[l] \in RelayType
           /\ KeyOf(l) \in Bindings /\ NoLeg \notin Legs
  BY RelayAssumption, Zenon DEF RelayTypeOK, LegType, KeyOf

(* A relay that its binding names, that was expired or that Close collected    *)
(* was made.                                                                   *)
LEMMA OwnedIsMade ==
    ASSUME RelayInv, NEW c \in Legs, \/ Owned(c) \/ objects[c].expired \/ objects[c].stop # "no"
                                     \/ c \in manager.collected \/ \E r \in Roles : objects[c].copy[r] # "none"
    PROVE  Made(c)
<1>1. Owned(c) => Made(c)
  BY TypesOf DEF RelayInv, MapHoldsTheUnfinished, Owned
<1>2. ~Made(c) => objects[c] = NoRelay /\ c \notin manager.collected
  BY Zenon DEF RelayInv, UnmadeIsUntouched
<1>3. objects[c] = NoRelay => /\ ~objects[c].expired /\ objects[c].stop = "no"
                              /\ \A r \in Roles : objects[c].copy[r] = "none"
  BY DEF NoRelay
<1> QED  BY <1>1, <1>2, <1>3, Zenon

LEMMA SameLegs ==
    ASSUME RelayTypeOK, NEW l \in Legs
    PROVE  legs'[l] = legs[l] => SameLeg(l)
  BY Zenon DEF SameLeg

LEMMA SameObject ==
    ASSUME NEW c, Untouched(c)
    PROVE  SameRelay(c)
  BY Zenon DEF SameRelay, Untouched

LEMMA TerminateIsBackground ==
    ASSUME RelayInv, NEW c \in Legs, Made(c), terminate(c)
    PROVE  Background
<1>1. objects \in [Legs -> RelayType] /\ RelayTypeOK
  BY Zenon DEF RelayInv, RelayTypeOK
<1>2. SameRelay(c) /\ \A d \in Legs \ {c} : Untouched(d)
  BY <1>1, Zenon DEF terminate, SameRelay, Untouched, RelayType
<1> QED  BY <1>1, <1>2, SameLegs, SameObject, Zenon DEF terminate, Background, RelayInv, UnmadeIsUntouched

LEMMA FinalizesEnds ==
    ASSUME RelayInv, NEW c \in Legs, Made(c), NEW o \in RelayType, NEW s,
           o.ends = objects[c].ends, o.started = objects[c].started,
           o.final = objects[c].final, o.reports = objects[c].reports,
           Finalizes(c, o, s)
    PROVE  Ends(c)
<1>1. objects \in [Legs -> RelayType] /\ RelayTypeOK
  BY Zenon DEF RelayInv, RelayTypeOK
<1>2. objects'[c] = finalize(o) /\ \A d \in Legs \ {c} : Untouched(d)
  BY <1>1, Zenon DEF Finalizes, Untouched
<1>3. /\ finalize(o).ends = o.ends /\ finalize(o).started = o.started /\ finalize(o).final
      /\ finalize(o).reports = IF ~o.final /\ o.started THEN o.reports + 1 ELSE o.reports
  BY Zenon DEF finalize, RelayType
<1>4. \A l \in Legs : SameLeg(l)
  <2> SUFFICES ASSUME NEW l \in Legs PROVE SameLeg(l)
    BY Zenon
  <2>1. legs[l] \in LegType
    BY <1>1, TypesOf, Zenon
  <2>2. legs'[l] = legs[l] \/ legs'[l] = [legs[l] EXCEPT !.open = FALSE]
    BY Zenon DEF Finalizes, ClosesStreams
  <2> QED  BY <2>1, <2>2, Zenon DEF SameLeg, LegType
<1> QED  BY <1>2, <1>3, <1>4, Zenon DEF Ends, Finalizes

(* Every step makes or pairs a relay, ends one, or leaves them as they are.    *)
LEMMA Effects ==
    ASSUME RelayInv, [RelayNext]_relayVars
    PROVE  \/ Background
           \/ \E l, c \in Legs : Joins(l, c)
           \/ \E c \in Legs : Ends(c)
<1> DEFINE Effect == \/ Background
                     \/ \E l, c \in Legs : Joins(l, c)
                     \/ \E c \in Legs : Ends(c)
<1> SUFFICES Effect
  BY Zenon
<1> USE DEF Effect
<1>0. /\ objects \in [Legs -> RelayType] /\ RelayTypeOK /\ legs \in [Legs -> LegType]
      /\ relays \in [Bindings -> Legs \cup {NoLeg}] /\ NoLeg \notin Legs
      /\ \A c \in Legs : ~Made(c) => c \notin manager.collected
  BY RelayAssumption, Zenon DEF RelayInv, RelayTypeOK, LegType, UnmadeIsUntouched
<1>1. ASSUME objects' = objects, relays' = relays, consumed' \in {consumed, consumed \ lapsed},
             lapsed \subseteq lapsed', \A l \in Legs : SameLeg(l),
             \A c \in Legs : ~Made(c) => c \notin manager'.collected
      PROVE  Background
  BY <1>1, SameObject, Zenon DEF Background, Untouched, SameRelay
<1>2. ASSUME legs' = legs
      PROVE  \A l \in Legs : SameLeg(l)
  BY <1>0, <1>2, SameLegs, Zenon
<1>3. CASE UNCHANGED relayVars
  BY <1>3, <1>1, <1>2, <1>0, Zenon DEF relayVars
<1>4. CASE BeginRelayDrain
  <2>1. manager'.collected = manager.collected
    BY <1>4, <1>0, Zenon DEF BeginRelayDrain, RelayTypeOK
  <2> QED  BY <2>1, <1>4, <1>1, <1>2, <1>0, Zenon DEF BeginRelayDrain
<1>5. CASE CloseManager
  <2>1. manager'.collected = {relays[k] : k \in Live}
    BY <1>5, <1>0, Zenon DEF CloseManager, RelayTypeOK
  <2>2. \A c \in Legs : ~Made(c) => c \notin manager'.collected
    BY <2>1, <1>0 DEF Live, RelayInv, MapHoldsTheUnfinished
  <2> QED  BY <2>2, <1>5, <1>1, <1>2, <1>0, Zenon DEF CloseManager
<1>6. CASE CloseReturns
  <2>1. manager'.collected = manager.collected
    BY <1>6, <1>0, Zenon DEF CloseReturns, RelayTypeOK
  <2> QED  BY <2>1, <1>6, <1>1, <1>2, <1>0, Zenon DEF CloseReturns
<1>7. ASSUME NEW k \in Bindings, Lapses(k)
      PROVE  Effect
  BY <1>7, <1>1, <1>2, <1>0, Zenon DEF Lapses
<1>8. ASSUME NEW l \in Legs, AttachBegins(l)
      PROVE  Effect
  <2>1. \A d \in Legs : SameLeg(d)
    BY <1>8, <1>0, Zenon DEF AttachBegins, SameLeg, LegType
  <2> QED  BY <2>1, <1>8, <1>1, <1>0, Zenon DEF AttachBegins
<1>9. ASSUME NEW l \in Legs, AttachReturns(l)
      PROVE  Effect
  <2>1. \A d \in Legs : SameLeg(d)
    BY <1>9, <1>0, Zenon DEF AttachReturns, SameLeg, LegType
  <2> QED  BY <2>1, <1>9, <1>1, <1>0, Zenon DEF AttachReturns
<1>10. ASSUME NEW l \in Legs, AttachLocked(l)
       PROVE  Effect
  <2>1. CASE AttachRefused(l) /\ legs' = [legs EXCEPT ![l].state = "returned", ![l].open = FALSE]
             /\ UNCHANGED <<relays, objects>>
    <3>1. \A d \in Legs : SameLeg(d)
      BY <2>1, <1>10, <1>0, Zenon DEF AttachLocked, SameLeg, LegType
    <3> QED  BY <3>1, <2>1, <1>10, <1>1, <1>0, Zenon DEF AttachLocked, pruneConsumedLocked
  <2>2. CASE ~AttachRefused(l) /\ Attached(l)
    <3> DEFINE c == IF relays[KeyOf(l)] = NoLeg THEN l ELSE relays[KeyOf(l)]
    <3>1. c \in Legs /\ KeyOf(l) \in Bindings
      BY <1>0, Zenon DEF KeyOf, LegType
    <3>2. KeyOf(l) \notin consumed \ lapsed
      BY <2>2, Zenon DEF AttachRefused, pruneConsumedLocked, KeyOf
    <3>3. \A d \in Legs \ {c} : Untouched(d)
      BY <2>2, <1>0, Zenon DEF Attached, KeyOf, Untouched
    <3>4. objects[c] \in RelayType /\ legs[l].role \in Roles
      BY <3>1, <1>0, Zenon DEF LegType
    <3>5. /\ objects'[c].ends = [objects[c].ends EXCEPT ![legs[l].role] = l]
          /\ objects'[c].final = objects[c].final /\ objects'[c].reports = objects[c].reports
      <4>1. objects'[c] = WithEnd(objects[c], legs[l].role, l, ~(relays[KeyOf(l)] = NoLeg))
        BY <2>2, <3>1, <1>0, Zenon DEF Attached, KeyOf
      <4> QED  BY <4>1, <3>4, Zenon DEF WithEnd, RelayType
    <3>6. /\ \A d \in Legs \ {l} : legs'[d] = legs[d]
          /\ legs'[l] = [legs[l] EXCEPT !.state = "attached", !.relay = c]
      BY <2>2, <1>0, Zenon DEF Attached, KeyOf, LegType
    <3>7. relays' = [relays EXCEPT ![KeyOf(l)] = c]
      BY <2>2, Zenon DEF Attached, KeyOf
    <3>8. Joins(l, c)
      BY <3>2, <3>3, <3>5, <3>6, <3>7, <1>10, Zenon DEF Joins, AttachLocked, pruneConsumedLocked
    <3> QED  BY <3>8, <3>1, Zenon
  <2> QED  BY <2>1, <2>2, <1>10, Zenon DEF AttachLocked
<1>11. ASSUME NEW l \in Legs, fail(l)
       PROVE  Effect
  <2>1. legs[l].relay \in Legs
    BY <1>11, <1>0, Zenon DEF fail, LegType, RelayInv, UnmadeIsUntouched
  <2> QED  BY <2>1, <1>11, OwnedIsMade, TerminateIsBackground, Zenon DEF fail
<1>12. ASSUME NEW c \in Legs, RevokeRelay(c) \/ ExpiredTerminates(c) \/ CloseTerminates(c)
       PROVE  Effect
  BY <1>12, OwnedIsMade, TerminateIsBackground, Zenon DEF RevokeRelay, ExpiredTerminates, CloseTerminates
<1>13. ASSUME NEW c \in Legs, Made(c), NEW o, objects' = [objects EXCEPT ![c] = o],
              o.ends = objects[c].ends, o.started = objects[c].started,
              o.final = objects[c].final, o.reports = objects[c].reports,
              \A l \in Legs : SameLeg(l), UNCHANGED <<relays, consumed, lapsed, manager>>
       PROVE  Background
  <2>1. SameRelay(c) /\ \A d \in Legs \ {c} : Untouched(d)
    BY <1>13, <1>0, Zenon DEF SameRelay, Untouched
  <2> QED  BY <2>1, <1>13, <1>0, SameObject, Zenon DEF Background
<1>14. ASSUME NEW c \in Legs, expirePending(c)
       PROVE  Effect
  <2>1. Made(c)
    BY <1>14, OwnedIsMade, Zenon DEF expirePending
  <2>2. SameRelay(c) /\ \A d \in Legs \ {c} : Untouched(d)
    BY <1>14, <1>0 DEF SameRelay, Untouched, expirePending, RelayType
  <2> QED  BY <2>1, <2>2, <1>14, <1>0, <1>2, SameObject, Zenon DEF Background, expirePending
<1>15. ASSUME NEW c \in Legs, TerminateEnds(c)
       PROVE  Effect
  <2> DEFINE o == [objects[c] EXCEPT !.stop = "stopped", !.seen = {}, !.wasStarted = FALSE]
  <2>1. Made(c)
    BY <1>15, OwnedIsMade, Zenon DEF TerminateEnds
  <2>2. /\ o \in RelayType /\ o.ends = objects[c].ends /\ o.started = objects[c].started
        /\ o.final = objects[c].final /\ o.reports = objects[c].reports
    <3>1. objects[c] \in RelayType /\ {} \in SUBSET Legs
      BY <1>0, Zenon
    <3> QED  BY <3>1, Zenon DEF RelayType
  <2>3. \A l \in Legs : legs' = ClosesStreams(objects[c].seen) => SameLeg(l)
    BY <1>0 DEF ClosesStreams, SameLeg, LegType
  <2> HIDE DEF o
  <2>4. CASE objects[c].wasStarted
    BY <2>1, <2>2, <2>3, <2>4, <1>13, <1>15, Zenon DEF TerminateEnds, o
  <2>5. CASE ~objects[c].wasStarted
    BY <2>1, <2>2, <2>5, FinalizesEnds, <1>15, Zenon DEF TerminateEnds, o
  <2> QED  BY <2>4, <2>5, Zenon
<1>16. ASSUME NEW c \in Legs, RunEnds(c)
       PROVE  Effect
  <2> DEFINE o == [objects[c] EXCEPT !.copy = [r \in Roles |-> "done"]]
  <2>1. Made(c)
    BY <1>16, OwnedIsMade, Zenon DEF RunEnds, Roles
  <2>2. /\ o \in RelayType /\ o.ends = objects[c].ends /\ o.started = objects[c].started
        /\ o.final = objects[c].final /\ o.reports = objects[c].reports
    <3>1. /\ objects[c] \in RelayType
          /\ [r \in Roles |-> "done"] \in [Roles -> {"none", "copying", "ended", "done"}]
      BY <1>0, Zenon
    <3> QED  BY <3>1, Zenon DEF RelayType
  <2> HIDE DEF o
  <2>3. Finalizes(c, o, EndsOf(c))
    BY <1>16, Zenon DEF RunEnds, o
  <2> QED  BY <2>1, <2>2, <2>3, FinalizesEnds, Zenon
<1>17. ASSUME NEW c \in Legs, NEW r \in Roles, CopyForwards(c, r) \/ CopyStops(c, r)
       PROVE  Effect
  <2>1. Made(c)
    BY <1>17, OwnedIsMade, Zenon DEF CopyForwards, CopyStops
  <2>2. PICK o \in {CopyEnds(objects[c], r), limitedWrite(objects[c], r)} : objects' = [objects EXCEPT ![c] = o]
    BY <1>17, Zenon DEF CopyForwards, CopyStops
  <2>3. /\ o.ends = objects[c].ends /\ o.started = objects[c].started
        /\ o.final = objects[c].final /\ o.reports = objects[c].reports
    <3>1. objects[c] \in RelayType
      BY <1>0, Zenon
    <3>2. o = CopyEnds(objects[c], r) \/ o = [objects[c] EXCEPT !.bytes[r] = @ + 1]
      BY Zenon DEF limitedWrite
    <3>3. CASE o = CopyEnds(objects[c], r)
      BY <3>1, <3>3, Zenon DEF CopyEnds, RelayType
    <3>4. CASE o = [objects[c] EXCEPT !.bytes[r] = @ + 1]
      BY <3>1, <3>4, Zenon DEF RelayType
    <3> QED  BY <3>2, <3>3, <3>4, Zenon
  <2>4. legs' = legs /\ UNCHANGED <<relays, consumed, lapsed, manager>>
    BY <1>17, Zenon DEF CopyForwards, CopyStops
  <2> QED  BY <2>1, <2>2, <2>3, <2>4, <1>2, <1>13, Zenon
<1> HIDE DEF Effect
<1> QED  BY <1>3, <1>4, <1>5, <1>6, <1>7, <1>8, <1>9, <1>10, <1>11, <1>12, <1>14, <1>15, <1>16, <1>17, Zenon
         DEF RelayNext

-----------------------------------------------------------------------------
LEMMA ClosedTyped ==
    ASSUME RelayTypeOK, NEW s
    PROVE  ClosesStreams(s) \in [Legs -> LegType]
<1>1. legs \in [Legs -> LegType]
  BY Zenon DEF RelayTypeOK, LegType
<1> QED  BY <1>1, Zenon DEF ClosesStreams, LegType

LEMMA FinalizeTyped ==
    ASSUME RelayTypeOK, NEW c \in Legs, NEW o \in RelayType, NEW s, Finalizes(c, o, s)
    PROVE  RelayTypeOK'
<1>1. finalize(o) \in RelayType
  <2>1. o.reports + 1 \in Nat /\ o.reports \in Nat
    BY DEF RelayType
  <2>2. [o EXCEPT !.final = TRUE, !.reports = IF o.started THEN @ + 1 ELSE @] \in RelayType
    BY <2>1, Zenon DEF RelayType
  <2> QED  BY <2>2, Zenon DEF finalize
<1>2. objects' \in [Legs -> RelayType]
  BY <1>1, Zenon DEF Finalizes, RelayTypeOK
<1>3. legs' \in [Legs -> LegType] /\ KeyOf(c) \in Bindings
  BY ClosedTyped, TypesOf, Zenon DEF Finalizes
<1>4. relays' \in [Bindings -> Legs \cup {NoLeg}] /\ consumed' \subseteq Bindings
  BY <1>3, Zenon DEF Finalizes, RelayTypeOK
<1> QED  BY <1>2, <1>3, <1>4, Zenon DEF Finalizes, RelayTypeOK, LegType

LEMMA TerminateTyped ==
    ASSUME RelayTypeOK, NEW c \in Legs, terminate(c)
    PROVE  RelayTypeOK'
<1>1. objects[c] \in RelayType
  BY TypesOf, Zenon
<1>2. EndsOf(c) \in SUBSET Legs
  BY <1>1 DEF EndsOf, RelayType
<1>3. [objects[c] EXCEPT !.stop = "closing", !.seen = EndsOf(c), !.wasStarted = objects[c].started] \in RelayType
  BY <1>1, <1>2, Zenon DEF RelayType
<1>4. objects' = [objects EXCEPT ![c] =
          [objects[c] EXCEPT !.stop = "closing", !.seen = EndsOf(c), !.wasStarted = objects[c].started]]
  BY Zenon DEF terminate, RelayTypeOK
<1>5. objects' \in [Legs -> RelayType]
  BY <1>3, <1>4, Zenon DEF RelayTypeOK
<1> QED  BY <1>5, Zenon DEF terminate, RelayTypeOK

LEMMA TypeInductive ==
    ASSUME RelayInv, [RelayNext]_relayVars
    PROVE  RelayTypeOK'
<1>0. /\ objects \in [Legs -> RelayType] /\ RelayTypeOK /\ legs \in [Legs -> LegType]
      /\ relays \in [Bindings -> Legs \cup {NoLeg}] /\ NoLeg \notin Legs
  BY RelayAssumption, Zenon DEF RelayInv, RelayTypeOK, LegType
<1>1. CASE UNCHANGED relayVars
  BY <1>1, <1>0, Zenon DEF relayVars, RelayTypeOK
<1>2. CASE BeginRelayDrain \/ CloseReturns
  BY <1>2, <1>0, ZenonT(30) DEF BeginRelayDrain, CloseReturns, RelayTypeOK
<1>3. CASE CloseManager
  <2>1. {relays[k] : k \in Live} \in SUBSET Legs
    BY <1>0, Zenon DEF Live
  <2>2. manager' \in [draining : BOOLEAN, closed : BOOLEAN, collected : SUBSET Legs, closeReturned : BOOLEAN]
    BY <2>1, <1>3, <1>0, Zenon DEF CloseManager, RelayTypeOK
  <2> QED  BY <2>2, <1>3, <1>0, Zenon DEF CloseManager, RelayTypeOK
<1>4. ASSUME NEW k \in Bindings, Lapses(k)
      PROVE  RelayTypeOK'
  BY <1>4, <1>0, Zenon DEF Lapses, RelayTypeOK
<1>5. ASSUME NEW l \in Legs, AttachBegins(l) \/ AttachReturns(l)
      PROVE  RelayTypeOK'
  <2>1. legs' \in [Legs -> LegType]
    BY <1>5, <1>0 DEF AttachBegins, AttachReturns, LegType
  <2> QED  BY <2>1, <1>5, <1>0, Zenon DEF AttachBegins, AttachReturns, RelayTypeOK, LegType
<1>6. ASSUME NEW l \in Legs, AttachLocked(l)
      PROVE  RelayTypeOK'
  <2>1. consumed' \subseteq Bindings /\ lapsed' = lapsed /\ manager' = manager
    BY <1>6, <1>0, Zenon DEF AttachLocked, pruneConsumedLocked, RelayTypeOK
  <2>2. CASE legs' = [legs EXCEPT ![l].state = "returned", ![l].open = FALSE] /\ UNCHANGED <<relays, objects>>
    <3>1. legs' \in [Legs -> LegType]
      BY <2>2, <1>0, ZenonT(30) DEF LegType
    <3> QED  BY <2>1, <2>2, <3>1, <1>0, Zenon DEF RelayTypeOK, LegType
  <2>3. CASE Attached(l)
    <3> DEFINE c == IF relays[KeyOf(l)] = NoLeg THEN l ELSE relays[KeyOf(l)]
               o == WithEnd(objects[c], legs[l].role, l, ~(relays[KeyOf(l)] = NoLeg))
    <3>1. c \in Legs /\ KeyOf(l) \in Bindings /\ objects[c] \in RelayType /\ legs[l].role \in Roles
      BY <1>0, Zenon DEF KeyOf, LegType
    <3>2. [r \in Roles |-> "copying"] \in [Roles -> {"none", "copying", "ended", "done"}]
      BY Zenon
    <3>3. o \in RelayType
      <4>1. [objects[c].ends EXCEPT ![legs[l].role] = l] \in [Roles -> Legs \cup {NoLeg}]
        BY <3>1, Zenon DEF RelayType
      <4>2. (relays[KeyOf(l)] # NoLeg) \in BOOLEAN
        BY Zenon
      <4> HIDE DEF c
      <4> QED  BY <3>1, <3>2, <4>1, <4>2, Zenon DEF WithEnd, RelayType
    <3>4. objects' = [objects EXCEPT ![c] = o] /\ relays' = [relays EXCEPT ![KeyOf(l)] = c]
      BY <2>3, Zenon DEF Attached, KeyOf
    <3>5. legs' = [legs EXCEPT ![l].state = "attached", ![l].relay = c]
      BY <2>3, Zenon DEF Attached, KeyOf
    <3> HIDE DEF c, o
    <3>6. legs' \in [Legs -> LegType]
      <4>1. legs[l] \in LegType
        BY <1>0, Zenon
      <4>2. [legs[l] EXCEPT !.state = "attached", !.relay = c] \in LegType
        BY <3>1, <4>1, Zenon DEF LegType
      <4>3. legs' = [legs EXCEPT ![l] = [legs[l] EXCEPT !.state = "attached", !.relay = c]]
        BY <3>5, <1>0, Zenon
      <4> QED  BY <4>2, <4>3, <1>0, Zenon
    <3>7. objects' \in [Legs -> RelayType] /\ relays' \in [Bindings -> Legs \cup {NoLeg}]
      BY <3>1, <3>3, <3>4, <1>0, Zenon
    <3> QED  BY <3>6, <3>7, <2>1, <1>0, Zenon DEF RelayTypeOK, LegType
  <2> QED  BY <2>2, <2>3, <1>6, Zenon DEF AttachLocked
<1>7. ASSUME NEW l \in Legs, fail(l)
      PROVE  RelayTypeOK'
  <2>1. legs[l].relay \in Legs
    BY <1>7, <1>0, Zenon DEF fail, LegType, RelayInv, UnmadeIsUntouched
  <2> QED  BY <2>1, <1>7, <1>0, TerminateTyped, Zenon DEF fail
<1>8. ASSUME NEW c \in Legs, RevokeRelay(c) \/ ExpiredTerminates(c) \/ CloseTerminates(c)
      PROVE  RelayTypeOK'
  BY <1>8, <1>0, TerminateTyped, Zenon DEF RevokeRelay, ExpiredTerminates, CloseTerminates
<1>9. ASSUME NEW c \in Legs, NEW o \in RelayType, objects' = [objects EXCEPT ![c] = o],
             UNCHANGED <<relays, consumed, lapsed, manager>>, legs' \in [Legs -> LegType]
      PROVE  RelayTypeOK'
  BY <1>9, <1>0, Zenon DEF RelayTypeOK, LegType
<1>10. ASSUME NEW c \in Legs, expirePending(c)
       PROVE  RelayTypeOK'
  <2>1. [objects[c] EXCEPT !.expired = TRUE] \in RelayType
    <3>1. objects[c] \in RelayType
      BY <1>0, Zenon
    <3> QED  BY <3>1, Zenon DEF RelayType
  <2>2. objects' = [objects EXCEPT ![c] = [objects[c] EXCEPT !.expired = TRUE]]
    BY <1>10, <1>0, Zenon DEF expirePending
  <2> QED  BY <2>1, <2>2, <1>9, <1>10, <1>0, Zenon DEF expirePending
<1>11. ASSUME NEW c \in Legs, TerminateEnds(c)
       PROVE  RelayTypeOK'
  <2> DEFINE o == [objects[c] EXCEPT !.stop = "stopped", !.seen = {}, !.wasStarted = FALSE]
  <2>1. objects[c] \in RelayType /\ {} \in SUBSET Legs
    BY <1>0, Zenon
  <2>2. o \in RelayType
    BY <2>1, Zenon DEF RelayType
  <2> HIDE DEF o
  <2>3. CASE objects[c].wasStarted
    BY <2>2, <2>3, <1>9, <1>11, <1>0, ClosedTyped DEF TerminateEnds, o
  <2>4. CASE ~objects[c].wasStarted
    BY <2>2, <2>4, <1>11, <1>0, FinalizeTyped, Zenon DEF TerminateEnds, o
  <2> QED  BY <2>3, <2>4, Zenon
<1>12. ASSUME NEW c \in Legs, RunEnds(c)
       PROVE  RelayTypeOK'
  <2> DEFINE o == [objects[c] EXCEPT !.copy = [r \in Roles |-> "done"]]
  <2>1. objects[c] \in RelayType /\ [r \in Roles |-> "done"] \in [Roles -> {"none", "copying", "ended", "done"}]
    BY <1>0, Zenon
  <2>2. o \in RelayType
    BY <2>1, Zenon DEF RelayType
  <2> HIDE DEF o
  <2> QED  BY <2>2, <1>12, <1>0, FinalizeTyped, Zenon DEF RunEnds, o
<1>13. ASSUME NEW c \in Legs, NEW r \in Roles, CopyForwards(c, r) \/ CopyStops(c, r)
       PROVE  RelayTypeOK'
  <2>1. PICK o \in {CopyEnds(objects[c], r), limitedWrite(objects[c], r)} : objects' = [objects EXCEPT ![c] = o]
    BY <1>13, Zenon DEF CopyForwards, CopyStops
  <2>2. objects[c] \in RelayType
    BY <1>0, Zenon
  <2>3. CopyEnds(objects[c], r) \in RelayType
    BY <2>2, Zenon DEF CopyEnds, RelayType
  <2>4. [objects[c] EXCEPT !.bytes[r] = @ + 1] \in RelayType
    BY <2>2 DEF RelayType
  <2>5. o \in RelayType
    BY <2>3, <2>4, Zenon DEF limitedWrite
  <2> QED  BY <2>1, <2>5, <1>9, <1>13, <1>0, Zenon DEF CopyForwards, CopyStops
<1> QED  BY <1>1, <1>2, <1>3, <1>4, <1>5, <1>6, <1>7, <1>8, <1>10, <1>11, <1>12, <1>13, Zenon
         DEF RelayNext

-----------------------------------------------------------------------------
LEMMA SameEndsSameMade ==
    ASSUME NEW c, objects'[c].ends = objects[c].ends
    PROVE  Made(c)' <=> Made(c)
  BY Zenon DEF Made, EndsOf

LEMMA KeysStay ==
    ASSUME NEW l, SameLeg(l)
    PROVE  KeyOf(l)' = KeyOf(l)
  BY Zenon DEF SameLeg, KeyOf

LEMMA BackgroundKeeps ==
    ASSUME RelayInv, Background
    PROVE  (MapHoldsTheUnfinished /\ UnmadeIsUntouched /\ RelayReportedOnce /\ HandleUsedOnce)'
<1>1. \A c \in Legs : (Made(c)' <=> Made(c)) /\ KeyOf(c)' = KeyOf(c) /\ SameRelay(c) /\ SameLeg(c)
  BY SameEndsSameMade, KeysStay, Zenon DEF Background, SameRelay
<1>2. relays' = relays /\ relays \in [Bindings -> Legs \cup {NoLeg}] /\ consumed \cup lapsed \subseteq consumed' \cup lapsed'
  BY Zenon DEF Background, RelayInv, RelayTypeOK
<1>3. MapHoldsTheUnfinished'
  <2>1. \A k \in Bindings : relays'[k] # NoLeg =>
            KeyOf(relays[k])' = k /\ Made(relays[k])' /\ ~objects'[relays[k]].final
    BY <1>1, <1>2, Zenon DEF RelayInv, MapHoldsTheUnfinished, SameRelay
  <2>2. \A c \in Legs : Made(c)' =>
            /\ legs'[c].state \in {"attached", "returned"}
            /\ objects'[c].final => KeyOf(c)' \in consumed' \cup lapsed'
            /\ ~objects'[c].final => Owned(c)'
    <3> SUFFICES ASSUME NEW c \in Legs, Made(c)'
                 PROVE  /\ legs'[c].state \in {"attached", "returned"}
                        /\ objects'[c].final => KeyOf(c)' \in consumed' \cup lapsed'
                        /\ ~objects'[c].final => Owned(c)'
      BY Zenon
    <3>1. /\ legs[c].state \in {"attached", "returned"}
          /\ objects[c].final => KeyOf(c) \in consumed \cup lapsed
          /\ ~objects[c].final => Owned(c)
      BY <1>1, Zenon DEF RelayInv, MapHoldsTheUnfinished
    <3>2. Owned(c)' <=> Owned(c)
      BY <1>1, <1>2, Zenon DEF Owned
    <3> QED  BY <3>1, <3>2, <1>1, <1>2, Zenon DEF SameRelay, SameLeg
  <2> QED  BY <2>1, <2>2, <1>2, Zenon DEF MapHoldsTheUnfinished
<1>4. UnmadeIsUntouched'
  BY <1>1, Zenon DEF Background, Untouched, SameLeg, RelayInv, UnmadeIsUntouched
<1>5. RelayReportedOnce'
  BY <1>1, Zenon DEF SameRelay, RelayInv, RelayReportedOnce
<1>6. HandleUsedOnce'
  BY <1>1, Zenon DEF Background, RelayInv, HandleUsedOnce
<1> QED  BY <1>3, <1>4, <1>5, <1>6, Zenon

LEMMA JoinsKeeps ==
    ASSUME RelayInv, NEW l \in Legs, NEW c \in Legs, Joins(l, c)
    PROVE  (MapHoldsTheUnfinished /\ UnmadeIsUntouched /\ RelayReportedOnce /\ HandleUsedOnce)'
<1> DEFINE k0 == KeyOf(l)
<1>0. /\ relays \in [Bindings -> Legs \cup {NoLeg}] /\ NoLeg \notin Legs /\ k0 \in Bindings
      /\ objects[c] \in RelayType /\ legs[l].role \in Roles /\ legs[l] \in LegType
  BY TypesOf, Zenon DEF RelayInv, RelayTypeOK, LegType
<1>1. ~Made(l)
  BY Zenon DEF Joins, RelayInv, MapHoldsTheUnfinished
<1>2. KeyOf(c) = k0 /\ ~objects[c].final
  <2>1. CASE relays[k0] = NoLeg
    <3>1. c = l /\ objects[l] = NoRelay
      BY <2>1, <1>1, Zenon DEF Joins, RelayInv, UnmadeIsUntouched
    <3> QED  BY <3>1 DEF NoRelay
  <2>2. CASE relays[k0] # NoLeg
    BY <2>2, <1>0, Zenon DEF Joins, RelayInv, MapHoldsTheUnfinished
  <2> QED  BY <2>1, <2>2, Zenon
<1>3. Made(c)' /\ ~objects'[c].final
  <2>1. objects'[c].ends[legs[l].role] = l
    BY <1>0, Zenon DEF Joins, RelayType
  <2> QED  BY <2>1, <1>0, <1>2, SMTT(30) DEF Joins, Made, EndsOf
<1>4. \A d \in Legs : KeyOf(d)' = KeyOf(d)
  BY <1>0, ZenonT(30) DEF Joins, KeyOf, LegType
<1>5. \A d \in Legs \ {c} : (Made(d)' <=> Made(d)) /\ Untouched(d)
  BY SameEndsSameMade, Zenon DEF Joins, Untouched
<1>6. /\ relays'[k0] = c /\ \A k \in Bindings \ {k0} : relays'[k] = relays[k]
      /\ consumed \cup lapsed = consumed' \cup lapsed'
  BY <1>0, Zenon DEF Joins
<1>7. \A d \in Legs \ {l} : legs'[d] = legs[d]
  BY Zenon DEF Joins
<1>8. legs'[l].state = "attached" /\ legs'[l].relay = c
  BY <1>0, Zenon DEF Joins, LegType
<1>9. c = l \/ (Made(c) /\ c # l /\ relays[k0] = c)
  BY <1>0, <1>1, Zenon DEF Joins, RelayInv, MapHoldsTheUnfinished
<1>10. \A d \in Legs \ {c} : ~objects[d].final /\ Made(d) => Owned(d) /\ KeyOf(d) # k0
  BY <1>9, <1>0 DEF RelayInv, MapHoldsTheUnfinished, Owned, Joins
<1> HIDE DEF k0
<1>11. MapHoldsTheUnfinished'
  <2>1. ASSUME NEW k \in Bindings, NEW d \in Legs, relays'[k] = d
        PROVE  KeyOf(d)' = k /\ Made(d)' /\ ~objects'[d].final
    <3>1. CASE k = k0
      BY <3>1, <2>1, <1>6, <1>2, <1>3, <1>4, Zenon
    <3>2. CASE k # k0
      <4>1. relays[k] = d /\ d # NoLeg
        BY <3>2, <1>6, <1>0, <2>1, Zenon
      <4>2. KeyOf(d) = k /\ Made(d) /\ ~objects[d].final
        BY <4>1, <1>0, Zenon DEF RelayInv, MapHoldsTheUnfinished
      <4>3. d # c
        BY <4>2, <3>2, <1>2, Zenon
      <4> QED  BY <4>2, <4>3, <1>4, <1>5, Zenon DEF Untouched
    <3> QED  BY <3>1, <3>2, Zenon
  <2>2. ASSUME NEW d \in Legs, Made(d)'
        PROVE  /\ legs'[d].state \in {"attached", "returned"}
               /\ objects'[d].final => KeyOf(d)' \in consumed' \cup lapsed'
               /\ ~objects'[d].final => Owned(d)'
    <3>1. CASE d = c
      <4>1. legs'[c].state \in {"attached", "returned"}
        BY <1>7, <1>8, <1>9, Zenon DEF RelayInv, MapHoldsTheUnfinished
      <4>2. Owned(c)'
        BY <1>2, <1>4, <1>6, Zenon DEF Owned
      <4> QED  BY <3>1, <4>1, <4>2, <1>3, Zenon
    <3>2. CASE d # c
      <4>1. Made(d) /\ d # l /\ objects'[d] = objects[d] /\ KeyOf(d)' = KeyOf(d) /\ KeyOf(d) \in Bindings
        BY <3>2, <1>1, <1>4, <1>5, <2>2, TypesOf, Zenon DEF Untouched, RelayInv
      <4>2. /\ legs[d].state \in {"attached", "returned"}
            /\ objects[d].final => KeyOf(d) \in consumed \cup lapsed
        BY <4>1, Zenon DEF RelayInv, MapHoldsTheUnfinished
      <4>3. ~objects[d].final => Owned(d)'
        BY <4>1, <3>2, <1>10, <1>6, Zenon DEF Owned
      <4> QED  BY <4>1, <4>2, <4>3, <1>6, <1>7, Zenon
    <3> QED  BY <3>1, <3>2, Zenon
  <2>3. \A k \in Bindings : relays'[k] # NoLeg => relays'[k] \in Legs
    BY <1>0, Zenon DEF Joins
  <2>4. \A k \in Bindings : relays'[k] # NoLeg =>
            KeyOf(relays[k])' = k /\ Made(relays[k])' /\ ~objects'[relays'[k]].final
    BY <2>1, <2>3, Zenon DEF KeyOf, Made, EndsOf
  <2> QED  BY <2>2, <2>4, Zenon DEF MapHoldsTheUnfinished
<1>12. UnmadeIsUntouched'
  <2>1. \A d \in Legs : ~Made(d)' => objects'[d] = NoRelay /\ d \notin manager'.collected
    BY <1>3, <1>5, Zenon DEF Untouched, RelayInv, UnmadeIsUntouched, Joins
  <2>2. \A d \in Legs : legs'[d].state = "attached" => legs'[d].relay # NoLeg
    BY <1>0, <1>7, <1>8, Zenon DEF RelayInv, UnmadeIsUntouched
  <2> QED  BY <2>1, <2>2, Zenon DEF UnmadeIsUntouched
<1>13. RelayReportedOnce'
  <2>1. objects[c].reports = 0 /\ objects'[c].reports = 0
    BY <1>2, Zenon DEF RelayInv, RelayReportedOnce, Joins
  <2> QED  BY <2>1, <1>3, <1>5, Zenon DEF RelayInv, RelayReportedOnce, Untouched
<1>14. HandleUsedOnce'
  <2>1. ASSUME NEW d \in Legs \ {c}, Made(d), KeyOf(d) = k0
        PROVE  k0 \in lapsed
    <3>1. objects[d].final
      BY <2>1, <1>10, Zenon
    <3>2. k0 \in consumed \cup lapsed
      BY <3>1, <2>1, Zenon DEF RelayInv, MapHoldsTheUnfinished
    <3> QED  BY <3>2, Zenon DEF Joins, k0
  <2>2. lapsed' = lapsed
    BY Zenon DEF Joins
  <2> QED  BY <2>1, <2>2, <1>2, <1>4, <1>5, Zenon DEF RelayInv, HandleUsedOnce
<1> QED  BY <1>11, <1>12, <1>13, <1>14, Zenon

LEMMA EndsKeeps ==
    ASSUME RelayInv, NEW c \in Legs, Ends(c)
    PROVE  (MapHoldsTheUnfinished /\ UnmadeIsUntouched /\ RelayReportedOnce /\ HandleUsedOnce)'
<1>0. relays \in [Bindings -> Legs \cup {NoLeg}] /\ NoLeg \notin Legs /\ KeyOf(c) \in Bindings
  BY TypesOf, Zenon DEF RelayInv, RelayTypeOK
<1>1. \A d \in Legs : (Made(d)' <=> Made(d)) /\ KeyOf(d)' = KeyOf(d) /\ SameLeg(d)
  BY SameEndsSameMade, KeysStay, Zenon DEF Ends, Untouched
<1>2. Made(c) /\ objects'[c].final /\ objects'[c].started = objects[c].started
  BY Zenon DEF Ends
<1>3. KeyOf(c) \in consumed' \cup lapsed' /\ consumed \subseteq consumed' /\ lapsed' = lapsed
  <2>1. objects[c].final => KeyOf(c) \in consumed \cup lapsed
    BY <1>2, Zenon DEF RelayInv, MapHoldsTheUnfinished
  <2> QED  BY <2>1, Zenon DEF Ends
<1>4. \A k \in Bindings : relays'[k] # NoLeg => relays'[k] = relays[k] /\ relays[k] # c
  BY <1>0, Zenon DEF Ends, Owned, RelayInv, MapHoldsTheUnfinished
<1>5. \A d \in Legs \ {c} : Owned(d) => relays'[KeyOf(d)] = d
  BY <1>0, TypesOf, Zenon DEF Ends, Owned, RelayInv
<1>6. MapHoldsTheUnfinished'
  <2>1. ASSUME NEW k \in Bindings, NEW d \in Legs, relays'[k] = d
        PROVE  KeyOf(d)' = k /\ Made(d)' /\ ~objects'[d].final
    <3>1. relays[k] = d /\ d # c
      BY <2>1, <1>4, <1>0, Zenon
    <3>2. KeyOf(d) = k /\ Made(d) /\ ~objects[d].final
      BY <3>1, <1>0, Zenon DEF RelayInv, MapHoldsTheUnfinished
    <3> QED  BY <3>1, <3>2, <1>1, Zenon DEF Ends, Untouched
  <2>2. ASSUME NEW d \in Legs, Made(d)'
        PROVE  /\ legs'[d].state \in {"attached", "returned"}
               /\ objects'[d].final => KeyOf(d)' \in consumed' \cup lapsed'
               /\ ~objects'[d].final => Owned(d)'
    <3>1. Made(d) /\ KeyOf(d)' = KeyOf(d) /\ legs'[d].state \in {"attached", "returned"}
      BY <2>2, <1>1, Zenon DEF RelayInv, MapHoldsTheUnfinished, SameLeg
    <3>2. CASE d = c
      BY <3>1, <3>2, <1>2, <1>3, Zenon
    <3>3. CASE d # c
      BY <3>1, <3>3, <1>3, <1>5 DEF RelayInv, MapHoldsTheUnfinished, Ends, Untouched, Owned
    <3> QED  BY <3>2, <3>3, Zenon
  <2>3. \A k \in Bindings : relays'[k] # NoLeg => relays'[k] \in Legs
    BY <1>0, Zenon DEF Ends
  <2>4. \A k \in Bindings : relays'[k] # NoLeg =>
            KeyOf(relays[k])' = k /\ Made(relays[k])' /\ ~objects'[relays'[k]].final
    BY <2>1, <2>3, Zenon DEF KeyOf, Made, EndsOf
  <2> QED  BY <2>2, <2>4, Zenon DEF MapHoldsTheUnfinished
<1>7. UnmadeIsUntouched'
  BY <1>1, <1>2 DEF Ends, Untouched, SameLeg, RelayInv, UnmadeIsUntouched
<1>8. RelayReportedOnce'
  BY DEF RelayInv, RelayReportedOnce, Ends, Untouched
<1>9. HandleUsedOnce'
  BY <1>1, <1>3, Zenon DEF RelayInv, HandleUsedOnce
<1> QED  BY <1>6, <1>7, <1>8, <1>9, Zenon

LEMMA RelayInitInv ==
    ASSUME RelayInit
    PROVE  RelayInv
<1>1. PICK a \in Admissions :
        legs = [l \in Legs |-> [state |-> "new", binding |-> a[l].binding, role |-> a[l].role,
                                relay |-> NoLeg, open |-> TRUE]]
  BY Zenon DEF RelayInit
<1>2. \A l \in Legs : a[l].binding \in Bindings /\ a[l].role \in Roles
  BY RelayAssumption, Zenon DEF Roles
<1>3. NoRelay \in RelayType /\ \A c \in Legs : objects[c] = NoRelay
  <2>1. NoRelay \in RelayType
    BY Zenon DEF NoRelay, RelayType
  <2> QED  BY <2>1, Zenon DEF RelayInit
<1>4. \A c \in Legs : ~Made(c)
  BY <1>3 DEF Made, EndsOf, NoRelay
<1>5. RelayTypeOK
  BY <1>1, <1>2, <1>3, Zenon DEF RelayInit, RelayTypeOK
<1>6. MapHoldsTheUnfinished /\ UnmadeIsUntouched
  BY <1>1, <1>3, <1>4, Zenon DEF RelayInit, MapHoldsTheUnfinished, UnmadeIsUntouched
<1>7. RelayReportedOnce /\ HandleUsedOnce
  BY <1>3, <1>4 DEF RelayReportedOnce, HandleUsedOnce, NoRelay
<1> QED  BY <1>5, <1>6, <1>7, Zenon DEF RelayInv

LEMMA RelayNextInv ==
    ASSUME RelayInv, [RelayNext]_relayVars
    PROVE  RelayInv'
<1>1. (MapHoldsTheUnfinished /\ UnmadeIsUntouched /\ RelayReportedOnce /\ HandleUsedOnce)'
  BY Effects, BackgroundKeeps, JoinsKeeps, EndsKeeps, Zenon
<1> QED  BY <1>1, TypeInductive, Zenon DEF RelayInv

(* The map of relays, their owners and the remembered handles agree in every   *)
(* state of the manager (manager.go's mutex protects them together).           *)
THEOREM RelayInvariant == RelaySpec => []RelayInv
<1>1. RelayInit => RelayInv
  BY RelayInitInv, Zenon
<1>2. RelayInv /\ [RelayNext]_relayVars => RelayInv'
  BY RelayNextInv, Zenon
<1> QED  BY <1>1, <1>2, PTL DEF RelaySpec

(* finalize records a relay whose legs were paired once, whichever of its      *)
(* copies, a cancelled request, a revocation, an expiry and Close ends it, for *)
(* any number of legs and bindings.                                            *)
THEOREM RelayRecordedOnce == RelaySpec => []RelayReportedOnce
<1>1. RelayInv => RelayReportedOnce
  BY Zenon DEF RelayInv
<1> QED  BY <1>1, RelayInvariant, PTL

(* Attach makes one relay for a binding while the binding is valid: a handle   *)
(* whose relay has ended is refused until it lapses, whatever the pruning of   *)
(* the remembered handles does in between.                                     *)
THEOREM OneRelayPerHandle == RelaySpec => []HandleUsedOnce
<1>1. RelayInv => HandleUsedOnce
  BY Zenon DEF RelayInv
<1> QED  BY <1>1, RelayInvariant, PTL

-----------------------------------------------------------------------------
(* Peer signaling                                                              *)

Early == {"new", "authenticated"}

(* A step that seats no endpoint: what it may do to calls, sessions and        *)
(* remembered credentials.                                                     *)
CallsQuiet ==
    /\ calls' \in [Attachments -> CallRecords]
    /\ \A b \in Attachments :
        /\ calls'[b].admission = calls[b].admission /\ calls'[b].talk = calls[b].talk
        /\ calls'[b].state \in Early => calls[b].state \in Early
        /\ calls'[b].state = "attached" => calls[b].state = "attached"
        /\ calls'[b].now \subseteq overdue
TalksQuiet ==
    /\ talks' \in [Attachments -> TalkRecords]
    /\ \A t \in Attachments, r \in Sides : talks'[t].endpoints[r] \in {talks[t].endpoints[r], Nobody}
RoomsQuiet ==
    /\ rooms' \in [SessionKeys -> Attachments \cup {Nobody}]
    /\ \A k \in SessionKeys : rooms'[k] \in {rooms[k], Nobody}
CredentialsQuiet ==
    /\ used' \subseteq CredentialIds /\ overdue' \subseteq CredentialIds /\ stopped' \in BOOLEAN
    /\ stopped' \/ (used \subseteq used' \cup overdue' /\ ~stopped)
    /\ overdue \subseteq overdue'
SeatsNobody == CallsQuiet /\ TalksQuiet /\ RoomsQuiet /\ CredentialsQuiet

LEMMA SeatsNobodyKeeps ==
  ASSUME SignalingInv, SeatsNobody  PROVE  SignalingInv'
<1>1. \A t \in Attachments, r \in Sides :
        /\ talks[t].endpoints[r] \in Attachments \cup {Nobody} /\ talks'[t].endpoints[r] \in Attachments \cup {Nobody}
        /\ talks'[t].endpoints[r] \in {talks[t].endpoints[r], Nobody}
  BY DEF SignalingInv, SeatsNobody, SignalingTypeOK, TalkRecords, TalksQuiet
<1>2. EndpointsSitAtTheirSide'
  BY <1>1 DEF SignalingInv, SeatsNobody, EndpointsSitAtTheirSide, CallsQuiet
<1>3. SidesNameEachOther'
  <2> SUFFICES ASSUME NEW t \in Attachments, NEW e \in Attachments, NEW f \in Attachments,
                      e = talks'[t].endpoints["controlling"], f = talks'[t].endpoints["controlled"]
               PROVE  /\ calls'[e].admission.peer = calls'[f].admission.endpoint
                      /\ calls'[f].admission.peer = calls'[e].admission.endpoint
    BY <1>1 DEF SidesNameEachOther, Sides
  <2>1. e = talks[t].endpoints["controlling"] /\ f = talks[t].endpoints["controlled"] /\ e # Nobody /\ f # Nobody
    BY <1>1, SignalingAssumption, Zenon DEF Sides
  <2> QED  BY <2>1, Zenon DEF SignalingInv, SidesNameEachOther, SeatsNobody, CallsQuiet
<1>4. UnattachedMadeNothing'
  <2>3. \A t \in Attachments : calls'[t].state = "attached" => calls'[t].talk # Nobody
    BY Zenon DEF SeatsNobody, CallsQuiet, SignalingInv, UnattachedMadeNothing
  <2> SUFFICES ASSUME NEW t \in Attachments, calls'[t].state \in Early
               PROVE  /\ calls'[t].talk = Nobody /\ \A r \in Sides : talks'[t].endpoints[r] = Nobody
                      /\ \A k \in SessionKeys : rooms'[k] # t
    BY <2>3, Zenon DEF UnattachedMadeNothing, Early
  <2>1. calls[t].state \in Early /\ t # Nobody /\ calls'[t].talk = calls[t].talk
    BY SignalingAssumption, Zenon DEF SeatsNobody, CallsQuiet
  <2>2. /\ calls[t].talk = Nobody /\ \A r \in Sides : talks[t].endpoints[r] = Nobody
        /\ \A k \in SessionKeys : rooms[k] # t
    BY <2>1, Zenon DEF SignalingInv, UnattachedMadeNothing, Early
  <2> QED  BY <1>1, <2>1, <2>2, Zenon DEF SeatsNobody, RoomsQuiet
<1>5. AttachedIsRemembered'
  <2> SUFFICES ASSUME NEW a \in Attachments
               PROVE  /\ calls'[a].now \subseteq overdue'
                      /\ calls'[a].talk # Nobody => stopped' \/ calls'[a].admission.id \in used' \cup overdue'
    BY Zenon DEF AttachedIsRemembered
  <2> QED  BY Zenon DEF SignalingInv, SeatsNobody, CallsQuiet, CredentialsQuiet, AttachedIsRemembered
<1>6. SignalingTypeOK'
  BY Zenon DEF SeatsNobody, CallsQuiet, TalksQuiet, RoomsQuiet, CredentialsQuiet, SignalingTypeOK
<1> QED  BY <1>2, <1>3, <1>4, <1>5, <1>6, Zenon DEF SignalingInv

(* One call, or one session, replaced by another value.                        *)
LEMMA CallReplaced ==
  ASSUME SignalingInv, NEW a \in Attachments, NEW c \in CallRecords, calls' = [calls EXCEPT ![a] = c],
         c.admission = calls[a].admission, c.talk = calls[a].talk, c.now \subseteq overdue,
         c.state \in Early => calls[a].state \in Early, c.state = "attached" => calls[a].state = "attached"
  PROVE  CallsQuiet
  BY Zenon DEF SignalingInv, SignalingTypeOK, AttachedIsRemembered, CallsQuiet

LEMMA TalkReplaced ==
  ASSUME SignalingInv, NEW t \in Attachments, NEW x \in TalkRecords, talks' = [talks EXCEPT ![t] = x],
         \A r \in Sides : x.endpoints[r] \in {talks[t].endpoints[r], Nobody}
  PROVE  TalksQuiet
  BY Zenon DEF SignalingInv, SignalingTypeOK, TalksQuiet

LEMMA KeptIsQuiet ==
  ASSUME SignalingInv
  PROVE  /\ calls' = calls => CallsQuiet
         /\ talks' = talks => TalksQuiet
         /\ rooms' = rooms => RoomsQuiet
         /\ UNCHANGED <<used, overdue, stopped>> => CredentialsQuiet
  BY Zenon DEF SignalingInv, SignalingTypeOK, AttachedIsRemembered, CallsQuiet, TalksQuiet, RoomsQuiet, CredentialsQuiet

LEMMA RoomClosed ==
  ASSUME SignalingInv, NEW k, rooms' = rooms \/ rooms' = [rooms EXCEPT ![k] = Nobody]
  PROVE  RoomsQuiet
  BY Zenon DEF SignalingInv, SignalingTypeOK, RoomsQuiet

(* A session that is done has no endpoint.                                     *)
LEMMA FinishedFacts ==
  ASSUME NEW x \in TalkRecords
  PROVE  Finished(x) \in TalkRecords /\ \A r \in Sides : Finished(x).endpoints[r] = Nobody
<1>1. NoTalk \in TalkRecords /\ \A r \in Sides : NoTalk.endpoints[r] = Nobody
  <2>1. [r \in Sides |-> Nobody] \in [Sides -> Attachments \cup {Nobody}]
    BY Zenon
  <2>2. [r \in Sides |-> <<>>] \in [Sides -> Seq(Kinds)]
    OBVIOUS
  <2> QED  BY <2>1, <2>2, Zenon DEF NoTalk, TalkRecords
<1>2. PICK n \in TalkRecords : n = NoTalk
  BY <1>1, Zenon
<1>3. x.completed \in SUBSET Sides
  BY Zenon DEF TalkRecords
<1>4. /\ [n EXCEPT !.completed = x.completed, !.done = TRUE] \in TalkRecords
      /\ [n EXCEPT !.completed = x.completed, !.done = TRUE].endpoints = n.endpoints
  BY <1>3, Zenon DEF TalkRecords
<1>5. Finished(x) = [n EXCEPT !.completed = x.completed, !.done = TRUE]
  BY <1>2, Zenon DEF Finished
<1> QED  BY <1>1, <1>2, <1>4, <1>5, Zenon

LEMMA SignalingFacts ==
  ASSUME SignalingInv
  PROVE  /\ \A a \in Attachments : /\ calls[a] \in CallRecords /\ talks[a] \in TalkRecords
                                   /\ calls[a].admission \in AdmissionSet /\ calls[a].now \subseteq overdue
                                   /\ calls[a].admission.role \in Sides
                                   /\ calls[a].state = "attached" => calls[a].talk \in Attachments
                                   /\ calls[a].admission.key \in SessionKeys
                                   /\ calls[a].admission.id \in CredentialIds
         /\ rooms \in [SessionKeys -> Attachments \cup {Nobody}]
         /\ used \subseteq CredentialIds /\ overdue \subseteq CredentialIds /\ stopped \in BOOLEAN
  BY SignalingAssumption, Zenon
     DEF SignalingInv, SignalingTypeOK, CallRecords, AttachedIsRemembered, SessionKeys, CredentialIds, UnattachedMadeNothing

LEMMA NewValidatorTyped == NewValidator \in ValidatorRecords
<1>1. 0 \in 0..MaxAccepted
  BY SignalingAssumption
<1> QED  BY <1>1, Zenon DEF NewValidator, ValidatorRecords

LEMMA AuthenticatesKeeps ==
  ASSUME SignalingInv, NEW a \in Attachments, Authenticates(a)  PROVE  SignalingInv'
<1>1. PICK c \in CallRecords : c = calls[a]
  BY SignalingFacts, Zenon
<1> DEFINE d == [c EXCEPT !.state = "authenticated", !.now = overdue]
<1>2. /\ d \in CallRecords /\ d.admission = c.admission /\ d.talk = c.talk /\ d.now = overdue
      /\ d.state \in Early /\ c.state \in Early /\ d.state # "attached"
  <2>1. overdue \in SUBSET CredentialIds
    BY SignalingFacts, Zenon
  <2> QED  BY <1>1, <2>1, Zenon DEF CallRecords, Early, Authenticates
<1>3. calls' = [calls EXCEPT ![a] = d]
  BY <1>1, Zenon DEF Authenticates, SignalingInv, SignalingTypeOK
<1> HIDE DEF d
<1>4. SeatsNobody
  <2>1. CallsQuiet
    BY <1>1, <1>2, <1>3, CallReplaced, Zenon
  <2> QED  BY <2>1, KeptIsQuiet, Zenon DEF SeatsNobody, Authenticates
<1> QED  BY <1>4, SeatsNobodyKeeps, Zenon

LEMMA watchEndsKeeps ==
  ASSUME SignalingInv, NEW a \in Attachments, watchEnds(a)  PROVE  SignalingInv'
<1>1. PICK c \in CallRecords : c = calls[a] /\ c.now \subseteq overdue
  BY SignalingFacts, Zenon
<1> DEFINE d == [c EXCEPT !.released = TRUE]
<1>2. /\ d \in CallRecords /\ d.admission = c.admission /\ d.talk = c.talk /\ d.now = c.now /\ d.state = c.state
  BY Zenon DEF CallRecords
<1>3. calls' = [calls EXCEPT ![a] = d]
  BY <1>1, Zenon DEF watchEnds, SignalingInv, SignalingTypeOK
<1> HIDE DEF d
<1>4. SeatsNobody
  <2>1. CallsQuiet
    BY <1>1, <1>2, <1>3, CallReplaced, Zenon
  <2> QED  BY <2>1, KeptIsQuiet, Zenon DEF SeatsNobody, watchEnds
<1> QED  BY <1>4, SeatsNobodyKeeps, Zenon

LEMMA SendMessageKeeps ==
  ASSUME SignalingInv, NEW a \in Attachments, SendMessage(a)  PROVE  SignalingInv'
<1>1. PICK c \in CallRecords : c = calls[a] /\ c.now \subseteq overdue
  BY SignalingFacts, Zenon
<1>2. PICK t \in Attachments, to \in Sides, v \in ValidatorRecords :
        t = calls[a].talk /\ to = opposite(calls[a].admission.role) /\ v = calls[a].validator
  <2>1. calls[a].validator \in ValidatorRecords
    BY <1>1, Zenon DEF CallRecords
  <2>2. opposite(calls[a].admission.role) \in Sides
    BY Zenon DEF opposite, Sides
  <2>3. calls[a].talk \in Attachments
    BY SignalingFacts, Zenon DEF SendMessage, Registered
  <2> QED  BY <2>1, <2>2, <2>3, Zenon
<1>3. PICK kind \in Kinds :
        /\ v.accepted < MaxAccepted
        /\ calls' = [calls EXCEPT ![a].validator = AfterAccept(v, kind)]
        /\ talks' = talks \/ talks' = [talks EXCEPT ![t].inbox[to] = Append(@, kind)]
        /\ UNCHANGED <<rooms, used, overdue, stopped>>
  BY <1>2, Zenon DEF SendMessage
<1>4. AfterAccept(v, kind) \in ValidatorRecords
  <2>1. v.accepted + 1 \in 0..MaxAccepted
    BY <1>3, SignalingAssumption DEF ValidatorRecords
  <2> QED  BY <2>1, Zenon DEF AfterAccept, ValidatorRecords
<1>5. CallsQuiet
  <2>1. PICK w \in ValidatorRecords : w = AfterAccept(v, kind)
    BY <1>4, Zenon
  <2> DEFINE d == [c EXCEPT !.validator = w]
  <2>2. d \in CallRecords /\ d.admission = c.admission /\ d.talk = c.talk /\ d.now = c.now /\ d.state = c.state
    BY Zenon DEF CallRecords
  <2>3. calls' = [calls EXCEPT ![a] = d]
    BY <1>1, <1>3, <2>1, Zenon DEF SignalingInv, SignalingTypeOK
  <2> HIDE DEF d
  <2> QED  BY <1>1, <2>2, <2>3, CallReplaced, Zenon
<1>6. TalksQuiet
  <2>1. CASE talks' = talks
    BY <2>1, KeptIsQuiet, Zenon
  <2>2. CASE talks' = [talks EXCEPT ![t].inbox[to] = Append(@, kind)]
    <3>1. PICK x \in TalkRecords : x = talks[t]
      BY SignalingFacts, Zenon
    <3> DEFINE y == [x EXCEPT !.inbox[to] = Append(@, kind)]
    <3>2. x.inbox[to] \in Seq(Kinds)
      BY Zenon DEF TalkRecords
    <3>3. Append(x.inbox[to], kind) \in Seq(Kinds)
      BY <3>2
    <3>4. y \in TalkRecords /\ y.endpoints = x.endpoints
      BY <3>3, Zenon DEF TalkRecords
    <3>5. talks' = [talks EXCEPT ![t] = y]
      BY <2>2, <3>1, Zenon DEF SignalingInv, SignalingTypeOK
    <3> HIDE DEF y
    <3> QED  BY <3>1, <3>4, <3>5, TalkReplaced, Zenon
  <2> QED  BY <1>3, <2>1, <2>2, Zenon
<1> QED  BY <1>3, <1>5, <1>6, KeptIsQuiet, SeatsNobodyKeeps, Zenon DEF SeatsNobody

LEMMA ReceiveKeeps ==
  ASSUME SignalingInv, NEW a \in Attachments, Receive(a)  PROVE  SignalingInv'
<1>1. PICK t \in Attachments, r \in Sides : t = calls[a].talk /\ r = calls[a].admission.role
  BY SignalingFacts, Zenon DEF Receive, Registered
<1>2. PICK x \in TalkRecords : x = talks[t]
  BY SignalingFacts, Zenon
<1>3. /\ x.inbox[r] # <<>>
      /\ talks' = [talks EXCEPT ![t].inbox[r] = Tail(@), ![t].heard[r] = Append(@, Head(talks[t].inbox[r]))]
      /\ UNCHANGED <<calls, rooms, used, overdue, stopped>>
  BY <1>1, <1>2, Zenon DEF Receive
<1>4. PICK q \in Seq(Kinds), h \in Seq(Kinds) : q = x.inbox[r] /\ h = x.heard[r]
  BY Zenon DEF TalkRecords
<1>5. Tail(q) \in Seq(Kinds) /\ Append(h, Head(q)) \in Seq(Kinds)
  BY <1>3, <1>4
<1>6. PICK q2 \in Seq(Kinds), h2 \in Seq(Kinds) : q2 = Tail(x.inbox[r]) /\ h2 = Append(x.heard[r], Head(x.inbox[r]))
  BY <1>4, <1>5, Zenon
<1> DEFINE y == [x EXCEPT !.inbox[r] = q2, !.heard[r] = h2]
<1>7. y \in TalkRecords /\ y.endpoints = x.endpoints
  BY Zenon DEF TalkRecords
<1>8. talks' = [talks EXCEPT ![t] = y]
  <2>1. x.inbox \in [Sides -> Seq(Kinds)] /\ x.heard \in [Sides -> Seq(Kinds)]
    BY Zenon DEF TalkRecords
  <2> QED  BY <1>2, <1>3, <1>6, <2>1, Zenon DEF SignalingInv, SignalingTypeOK
<1> HIDE DEF y
<1>9. TalksQuiet
  BY <1>2, <1>7, <1>8, TalkReplaced, Zenon
<1> QED  BY <1>3, <1>9, KeptIsQuiet, SeatsNobodyKeeps, Zenon DEF SeatsNobody

LEMMA EndedIsQuiet ==
  ASSUME SignalingInv, NEW a \in Attachments, calls' = Ended(a)  PROVE  CallsQuiet
<1>1. PICK c \in CallRecords : c = calls[a] /\ c.now \subseteq overdue
  BY SignalingFacts, Zenon
<1>2. PICK n \in ValidatorRecords : n = NewValidator
  BY NewValidatorTyped, Zenon
<1> DEFINE d == [c EXCEPT !.state = "ended", !.released = TRUE, !.validator = n]
<1>3. d \in CallRecords /\ d.admission = c.admission /\ d.talk = c.talk /\ d.now = c.now /\ d.state = "ended"
  BY Zenon DEF CallRecords
<1>4. calls' = [calls EXCEPT ![a] = d]
  BY <1>1, <1>2, Zenon DEF SignalingInv, SignalingTypeOK, Ended
<1> HIDE DEF d
<1> QED  BY <1>1, <1>3, <1>4, CallReplaced, Zenon DEF Early

LEMMA CloseAttachmentKeeps ==
  ASSUME SignalingInv, NEW a \in Attachments, CloseAttachment(a)  PROVE  SignalingInv'
<1>1. PICK t \in Attachments : t = calls[a].talk
  BY SignalingFacts, Zenon DEF CloseAttachment
<1>2. TalksQuiet
  <2>1. PICK x \in TalkRecords : x = talks[t]
    BY SignalingFacts, Zenon
  <2>2. PICK f \in TalkRecords : f = Finished(x) /\ \A r \in Sides : f.endpoints[r] = Nobody
    BY FinishedFacts, Zenon
  <2>3. talks' = [talks EXCEPT ![t] = f]
    BY <1>1, <2>1, <2>2, Zenon DEF CloseAttachment
  <2>4. \A r \in Sides : f.endpoints[r] \in {talks[t].endpoints[r], Nobody}
    BY <2>2, Zenon
  <2> QED  BY <2>3, <2>4, TalkReplaced, Zenon
<1>3. RoomsQuiet
  BY RoomClosed, Zenon DEF CloseAttachment
<1>4. CallsQuiet /\ CredentialsQuiet
  BY EndedIsQuiet, KeptIsQuiet, Zenon DEF CloseAttachment
<1> QED  BY <1>2, <1>3, <1>4, SeatsNobodyKeeps, Zenon DEF SeatsNobody

LEMMA CompleteKeeps ==
  ASSUME SignalingInv, NEW a \in Attachments, Complete(a)  PROVE  SignalingInv'
<1>1. PICK t \in Attachments, r \in Sides : t = calls[a].talk /\ r = calls[a].admission.role
  BY SignalingFacts, Zenon DEF Complete
<1>2. PICK x \in TalkRecords : x = talks[t]
  BY SignalingFacts, Zenon
<1> DEFINE y == [x EXCEPT !.endpoints[r] = Nobody, !.completed = @ \cup {r}]
<1>3. y \in TalkRecords /\ \A s \in Sides : y.endpoints[s] \in {x.endpoints[s], Nobody}
  BY Zenon DEF TalkRecords
<1>4. talks' = talks \/ talks' = [talks EXCEPT ![t] = y] \/ talks' = [talks EXCEPT ![t] = Finished(y)]
  BY <1>1, <1>2, Zenon DEF Complete
<1> HIDE DEF y
<1>5. TalksQuiet
  BY <1>2, <1>3, <1>4, FinishedFacts, TalkReplaced, KeptIsQuiet
<1>6. RoomsQuiet
  BY RoomClosed, Zenon DEF Complete
<1>7. CallsQuiet /\ CredentialsQuiet
  BY EndedIsQuiet, KeptIsQuiet, Zenon DEF Complete
<1> QED  BY <1>5, <1>6, <1>7, SeatsNobodyKeeps, Zenon DEF SeatsNobody

LEMMA ServiceEndsKeep ==
  ASSUME SignalingInv, ServiceClose \/ Overdue  PROVE  SignalingInv'
<1>1. CASE ServiceClose
  <2>1. TalksQuiet
    BY <1>1, SignalingFacts, FinishedFacts, Zenon DEF ServiceClose, TalksQuiet
  <2>2. RoomsQuiet
    BY <1>1, Zenon DEF ServiceClose, RoomsQuiet
  <2>3. CredentialsQuiet
    BY <1>1, SignalingFacts, Zenon DEF ServiceClose, CredentialsQuiet
  <2> QED  BY <1>1, <2>1, <2>2, <2>3, KeptIsQuiet, SeatsNobodyKeeps, Zenon DEF SeatsNobody, ServiceClose
<1>2. CASE Overdue
  <2>1. CredentialsQuiet
    BY <1>2, SignalingFacts, Zenon DEF Overdue, CredentialsQuiet, CredentialIds
  <2> QED  BY <1>2, <2>1, KeptIsQuiet, SeatsNobodyKeeps, Zenon DEF SeatsNobody, Overdue
<1> QED  BY <1>1, <1>2, Zenon

(* Attach past its conditions: the call takes its side of a session that has   *)
(* that side free and, on the other, nobody or the peer it names.              *)
LEMMA AttachesKeeps ==
  ASSUME SignalingInv, NEW a \in Attachments, Attaches(a)  PROVE  SignalingInv'
<1> DEFINE now == calls[a].now
           left == RoomsLeft(now)
           sub == TalksLeft(now)
<1>1. PICK c \in CallRecords : c = calls[a] /\ c.now \subseteq overdue /\ c.state = "authenticated"
  BY SignalingFacts, Zenon DEF Attaches
<1>2. PICK m \in AdmissionSet : m = calls[a].admission /\ m.role \in Sides /\ m.key \in SessionKeys /\ m.id \in CredentialIds
  BY SignalingFacts, Zenon
<1>3. left \in [SessionKeys -> Attachments \cup {Nobody}] /\ \A k \in SessionKeys : left[k] \in {rooms[k], Nobody}
  BY SignalingFacts, Zenon DEF RoomsLeft
<1>4. /\ sub \in [Attachments -> TalkRecords]
      /\ \A t \in Attachments, r \in Sides : sub[t].endpoints[r] \in {talks[t].endpoints[r], Nobody}
  BY SignalingFacts, FinishedFacts, Zenon DEF TalksLeft
<1>5. UsedLeft(now) \subseteq CredentialIds /\ used \subseteq UsedLeft(now) \cup overdue
  BY <1>1, SignalingFacts, Zenon DEF UsedLeft
<1>6. UNCHANGED <<overdue, stopped>>
  BY Zenon DEF Attaches
<1>7. CASE ~MayAttach(m, left, now)
  <2> DEFINE d == [c EXCEPT !.state = "ended", !.released = TRUE, !.now = {}]
  <2>1. d \in CallRecords /\ d.admission = c.admission /\ d.talk = c.talk /\ d.now = {} /\ d.state = "ended"
    BY Zenon DEF CallRecords
  <2>2. calls' = [calls EXCEPT ![a] = d]
    BY <1>1, <1>2, <1>7, Zenon DEF Attaches
  <2>3. CallsQuiet
    <3> HIDE DEF d
    <3> QED  BY <1>1, <2>1, <2>2, CallReplaced, Zenon DEF Early
  <2>4. \/ stopped /\ UNCHANGED <<rooms, used, talks>>
        \/ ~stopped /\ rooms' = left /\ used' = UsedLeft(now) /\ talks' = sub
    BY <1>2, <1>7, Zenon DEF Attaches
  <2>5. TalksQuiet /\ RoomsQuiet
    <3> HIDE DEF left, sub
    <3> QED  BY <1>3, <1>4, <2>4, KeptIsQuiet, Zenon DEF TalksQuiet, RoomsQuiet
  <2>6. CredentialsQuiet
    BY <1>5, <1>6, <2>4, SignalingFacts, Zenon DEF CredentialsQuiet
  <2> QED  BY <2>3, <2>5, <2>6, SeatsNobodyKeeps, Zenon DEF SeatsNobody
<1>8. CASE MayAttach(m, left, now)
  <2>1. PICK t \in Attachments :
          /\ t = IF left[m.key] = Nobody THEN a ELSE left[m.key]
          /\ \A r \in Sides : r = m.role => sub[t].endpoints[r] = Nobody
          /\ LET peer == sub[t].endpoints[opposite(m.role)]
             IN  peer = Nobody \/ /\ calls[peer].admission.endpoint = m.peer
                                  /\ calls[peer].admission.peer = m.endpoint
    <3>1. opposite(m.role) \in Sides
      BY Zenon DEF opposite, Sides
    <3>2. CASE left[m.key] = Nobody
      <4>1. \A r \in Sides : talks[a].endpoints[r] = Nobody
        BY <1>1, Zenon DEF SignalingInv, UnattachedMadeNothing
      <4>2. \A r \in Sides : sub[a].endpoints[r] = Nobody
        <5> HIDE DEF sub
        <5> QED  BY <1>4, <4>1, Zenon
      <4> HIDE DEF left, sub
      <4> QED  BY <3>1, <3>2, <4>2, Zenon
    <3>3. CASE left[m.key] # Nobody
      <4>1. left[m.key] \in Attachments
        <5> HIDE DEF left
        <5> QED  BY <1>2, <1>3, <3>3, Zenon
      <4>2. PICK t \in Attachments : t = left[m.key]
        BY <4>1, Zenon
      <4>3. talks[t].endpoints[m.role] = Nobody /\ reciprocal(t, m)
        BY <1>8, <3>3, <4>2, Zenon DEF MayAttach
      <4>4. \A r \in Sides : sub[t].endpoints[r] \in {talks[t].endpoints[r], Nobody}
        <5> HIDE DEF sub
        <5> QED  BY <1>4, Zenon
      <4> HIDE DEF left, sub
      <4> QED  BY <1>2, <3>1, <3>3, <4>2, <4>3, <4>4, Zenon DEF reciprocal
    <3> QED  BY <3>2, <3>3, Zenon
  <2>2. ~stopped
    BY <1>8, Zenon DEF MayAttach
  <2> DEFINE d == [c EXCEPT !.state = "attached", !.talk = t, !.now = {}]
  <2>3. d \in CallRecords /\ d.admission = m /\ d.talk = t /\ d.now = {} /\ d.state = "attached"
    BY <1>1, <1>2, Zenon DEF CallRecords
  <2>4. calls' = [calls EXCEPT ![a] = d]
    BY <1>1, <1>2, <1>8, <2>1, Zenon DEF Attaches
  <2>5. /\ rooms' = [left EXCEPT ![m.key] = t] /\ used' = UsedLeft(now) \cup {m.id}
        /\ talks' = [sub EXCEPT ![t].endpoints[m.role] = a]
    BY <1>2, <1>8, <2>1, <2>2, Zenon DEF Attaches
  <2> HIDE DEF d, left, sub
  <2>6. /\ calls' \in [Attachments -> CallRecords] /\ calls'[a] = d
        /\ \A b \in Attachments \ {a} : calls'[b] = calls[b]
    BY <2>3, <2>4, Zenon DEF SignalingInv, SignalingTypeOK
  <2>7. \A b \in Attachments : calls'[b].admission = calls[b].admission
    BY <1>2, <2>3, <2>6, Zenon
  <2>8. PICK x \in TalkRecords : x = sub[t]
    BY <1>4, Zenon
  <2> DEFINE y == [x EXCEPT !.endpoints[m.role] = a]
  <2>9. /\ y \in TalkRecords /\ y.endpoints[m.role] = a
        /\ \A r \in Sides : r # m.role => y.endpoints[r] = x.endpoints[r]
    BY <1>2, Zenon DEF TalkRecords
  <2>10. talks' = [sub EXCEPT ![t] = y]
    BY <1>4, <2>5, <2>8, Zenon
  <2> HIDE DEF y
  <2>11. /\ talks' \in [Attachments -> TalkRecords] /\ talks'[t] = y
         /\ \A s \in Attachments \ {t} : talks'[s] = sub[s]
    BY <1>4, <2>9, <2>10, Zenon
  <2>12. \A s \in Attachments, r \in Sides :
           /\ talks'[s].endpoints[r] \in {talks[s].endpoints[r], Nobody} \/ (s = t /\ r = m.role /\ talks'[s].endpoints[r] = a)
           /\ talks[s].endpoints[r] \in Attachments \cup {Nobody}
           /\ talks'[s].endpoints[r] \in Attachments \cup {Nobody}
    <3>1. \A s \in Attachments, r \in Sides :
            talks[s].endpoints[r] \in Attachments \cup {Nobody} /\ talks'[s].endpoints[r] \in Attachments \cup {Nobody}
      BY <2>11, SMTT(30) DEF SignalingInv, SignalingTypeOK, TalkRecords
    <3> QED  BY <1>4, <2>8, <2>9, <2>11, <3>1, Zenon
  <2>13. rooms' \in [SessionKeys -> Attachments \cup {Nobody}] /\ \A k \in SessionKeys : rooms'[k] \in {rooms[k], Nobody, t}
    BY <1>2, <1>3, <2>5, Zenon
  <2>14. SignalingTypeOK'
    BY <1>2, <1>5, <1>6, <2>5, <2>6, <2>11, <2>13, SignalingFacts, Zenon DEF SignalingTypeOK
  <2>15. EndpointsSitAtTheirSide'
    BY <1>2, <2>7, <2>12, SMTT(30) DEF SignalingInv, EndpointsSitAtTheirSide
  <2>16. SidesNameEachOther'
    <3> SUFFICES ASSUME NEW s \in Attachments, NEW e \in Attachments, NEW f \in Attachments,
                        e = talks'[s].endpoints["controlling"], f = talks'[s].endpoints["controlled"]
                 PROVE  /\ calls'[e].admission.peer = calls'[f].admission.endpoint
                        /\ calls'[f].admission.peer = calls'[e].admission.endpoint
      BY <2>12 DEF SidesNameEachOther, Sides
    <3>1. e # Nobody /\ f # Nobody /\ "controlling" \in Sides /\ "controlled" \in Sides
      BY SignalingAssumption, Zenon DEF Sides
    <3>2. CASE s # t
      <4>1. e = talks[s].endpoints["controlling"] /\ f = talks[s].endpoints["controlled"]
        BY <2>12, <3>1, <3>2, Zenon
      <4>2. /\ calls[e].admission.peer = calls[f].admission.endpoint
            /\ calls[f].admission.peer = calls[e].admission.endpoint
        BY <3>1, <4>1, Zenon DEF SignalingInv, SidesNameEachOther
      <4> QED  BY <2>7, <4>2, Zenon
    <3>3. CASE s = t
      <4>1. CASE m.role = "controlling"
        <5>1. e = a /\ f = sub[t].endpoints["controlled"] /\ opposite(m.role) = "controlled"
          BY <2>8, <2>9, <2>11, <3>1, <3>3, <4>1, Zenon DEF opposite
        <5> QED  BY <1>2, <2>1, <2>7, <3>1, <5>1, Zenon
      <4>2. CASE m.role = "controlled"
        <5>1. f = a /\ e = sub[t].endpoints["controlling"] /\ opposite(m.role) = "controlling"
          BY <2>8, <2>9, <2>11, <3>1, <3>3, <4>2, Zenon DEF opposite
        <5> QED  BY <1>2, <2>1, <2>7, <3>1, <5>1, Zenon
      <4> QED  BY <1>2, <4>1, <4>2, Zenon DEF Sides
    <3> QED  BY <3>2, <3>3, Zenon
  <2>17. UnattachedMadeNothing'
    <3>1. \A s \in Attachments : calls'[s].state \in Early => s # a /\ calls[s].state \in Early /\ calls'[s].talk = calls[s].talk
      BY <2>3, <2>6, Zenon DEF Early
    <3>2. \A s \in Attachments : calls'[s].state = "attached" => calls'[s].talk # Nobody
      BY <2>3, <2>6, SignalingAssumption DEF SignalingInv, UnattachedMadeNothing
    <3>3. t = a \/ \E k \in SessionKeys : rooms[k] = t
      BY <1>2, <1>3, <2>1, SignalingAssumption, Zenon
    <3>4. \A s \in Attachments : calls'[s].state \in Early => s # t
      BY <3>1, <3>3, Zenon DEF SignalingInv, UnattachedMadeNothing, Early
    <3>5. ASSUME NEW s \in Attachments, calls'[s].state \in Early
          PROVE  /\ calls'[s].talk = Nobody /\ \A r \in Sides : talks'[s].endpoints[r] = Nobody
                 /\ \A k \in SessionKeys : rooms'[k] # s
      <4>1. /\ calls[s].talk = Nobody /\ \A r \in Sides : talks[s].endpoints[r] = Nobody
            /\ \A k \in SessionKeys : rooms[k] # s
        BY <3>1, <3>5, Zenon DEF SignalingInv, UnattachedMadeNothing, Early
      <4>2. s # t /\ s # Nobody /\ calls'[s].talk = calls[s].talk
        BY <3>1, <3>4, <3>5, SignalingAssumption, Zenon
      <4> QED  BY <2>12, <2>13, <4>1, <4>2, Zenon
    <3> QED  BY <3>2, <3>5, Zenon DEF UnattachedMadeNothing, Early
  <2>18. AttachedIsRemembered'
    <3> SUFFICES ASSUME NEW b \in Attachments
                 PROVE  /\ calls'[b].now \subseteq overdue'
                        /\ calls'[b].talk # Nobody => stopped' \/ calls'[b].admission.id \in used' \cup overdue'
      BY Zenon DEF AttachedIsRemembered
    <3>1. CASE b = a
      BY <1>6, <2>3, <2>5, <2>6, <3>1, Zenon
    <3>2. CASE b # a
      BY <1>5, <1>6, <2>5, <2>6, <3>2, Zenon DEF SignalingInv, AttachedIsRemembered
    <3> QED  BY <3>1, <3>2, Zenon
  <2> QED  BY <2>14, <2>15, <2>16, <2>17, <2>18, Zenon DEF SignalingInv
<1> QED  BY <1>7, <1>8, Zenon

(* The calls, sessions and credentials of internal/peersignaling satisfy the   *)
(* inductive invariant, for any number of calls, keys and limits.              *)
THEOREM SignalingInvariant == SignalingSpec => []SignalingInv
<1>1. SignalingInit => SignalingInv
  <2> SUFFICES ASSUME SignalingInit  PROVE  SignalingInv
    BY Zenon
  <2>1. PICK p \in Presented :
          calls = [a \in Attachments |-> [state |-> "new", admission |-> p[a], now |-> {}, talk |-> Nobody,
                                          validator |-> NewValidator, released |-> FALSE]]
    BY Zenon DEF SignalingInit
  <2>2. \A a \in Attachments : p[a] \in AdmissionSet
    BY DEF AdmissionSet
  <2>3. /\ calls \in [Attachments -> CallRecords]
        /\ \A a \in Attachments : calls[a].state = "new" /\ calls[a].talk = Nobody /\ calls[a].now = {}
    BY <2>1, <2>2, NewValidatorTyped, Zenon DEF CallRecords
  <2>4. NoTalk \in TalkRecords /\ \A r \in Sides : NoTalk.endpoints[r] = Nobody
    <3>1. [r \in Sides |-> Nobody] \in [Sides -> Attachments \cup {Nobody}]
      BY Zenon
    <3>2. [r \in Sides |-> <<>>] \in [Sides -> Seq(Kinds)]
      OBVIOUS
    <3> QED  BY <3>1, <3>2, Zenon DEF NoTalk, TalkRecords
  <2>5. /\ talks \in [Attachments -> TalkRecords]
        /\ \A t \in Attachments, r \in Sides : talks[t].endpoints[r] = Nobody
    BY <2>4, Zenon DEF SignalingInit
  <2>6. SignalingTypeOK
    BY <2>3, <2>5, Zenon DEF SignalingInit, SignalingTypeOK
  <2>7. \A k \in SessionKeys : rooms[k] = Nobody
    BY Zenon DEF SignalingInit
  <2> QED  BY <2>3, <2>5, <2>6, <2>7, SignalingAssumption, Zenon
           DEF SignalingInv, EndpointsSitAtTheirSide, SidesNameEachOther, UnattachedMadeNothing,
               AttachedIsRemembered, Sides
<1>2. SignalingInv /\ [SignalingNext]_signalingVars => SignalingInv'
  <2> SUFFICES ASSUME SignalingInv, [SignalingNext]_signalingVars  PROVE  SignalingInv'
    BY Zenon
  <2>1. CASE UNCHANGED signalingVars
    BY <2>1, KeptIsQuiet, SeatsNobodyKeeps, Zenon DEF signalingVars, SeatsNobody
  <2>2. ASSUME NEW a \in Attachments, watchExpires(a)  PROVE  SignalingInv'
    BY <2>2, CloseAttachmentKeeps, Zenon DEF watchExpires
  <2> QED  BY <2>1, <2>2, ServiceEndsKeep, AuthenticatesKeeps, AttachesKeeps, SendMessageKeeps, ReceiveKeeps, Zenon,
              CloseAttachmentKeeps, watchEndsKeeps, CompleteKeeps DEF SignalingNext
<1> QED  BY <1>1, <1>2, PTL DEF SignalingSpec

(* Two endpoints that share a signaling session have named each other and have *)
(* opposite roles, however Attach calls, expiry and closes interleave.         *)
THEOREM PeersNameEachOther == SignalingSpec => []PeersAreReciprocal
<1>1. SignalingInv => PeersAreReciprocal
  <2> SUFFICES ASSUME SignalingInv, NEW t \in Attachments, NEW e \in EndpointsOf(t), NEW f \in EndpointsOf(t), e # f
               PROVE  /\ calls[e].admission.peer = calls[f].admission.endpoint
                      /\ calls[e].admission.role # calls[f].admission.role
    BY Zenon DEF PeersAreReciprocal
  <2>1. PICK r \in Sides, s \in Sides : /\ e = talks[t].endpoints[r] /\ f = talks[t].endpoints[s]
                                        /\ e # Nobody /\ f # Nobody /\ r # s
    BY Zenon DEF EndpointsOf
  <2>2. calls[e].admission.role = r /\ calls[f].admission.role = s
    BY <2>1, Zenon DEF SignalingInv, EndpointsSitAtTheirSide
  <2> QED  BY <2>1, <2>2, Zenon DEF SignalingInv, SidesNameEachOther, Sides
<1> QED  BY <1>1, SignalingInvariant, PTL

(* A credential that has attached does not attach again until it has expired,  *)
(* though consumed forgets by the clock of whichever call comes by.            *)
THEOREM CredentialsAttachOnce == SignalingSpec => CredentialAttachesOnce
<1> DEFINE Once == \A a \in Attachments : calls[a].state = "authenticated" /\ calls'[a].state = "attached" =>
                \A b \in Attachments : calls[b].talk # Nobody /\ calls[b].admission.id = calls[a].admission.id =>
                    calls[a].admission.id \in overdue
<1>1. SignalingInv /\ [SignalingNext]_signalingVars => [Once]_signalingVars
  <2> SUFFICES ASSUME SignalingInv, SignalingNext,
                      NEW a \in Attachments, calls[a].state = "authenticated", calls'[a].state = "attached",
                      NEW b \in Attachments, calls[b].talk # Nobody, calls[b].admission.id = calls[a].admission.id
               PROVE  calls[a].admission.id \in overdue
    BY Zenon
  <2>1. Attaches(a)
    <3>1. PICK d \in Attachments : Authenticates(d) \/ Attaches(d) \/ SendMessage(d) \/ CloseAttachment(d)
                                    \/ watchEnds(d) \/ Complete(d)
      BY Zenon DEF SignalingNext, ServiceClose, Overdue, Receive, watchExpires
    <3>2. d = a
      BY <3>1, Zenon DEF SignalingInv, SignalingTypeOK, Authenticates, Attaches, SendMessage, CloseAttachment, watchEnds,
                  Complete, Ended
    <3> QED  BY <3>1, <3>2, Zenon DEF SignalingInv, SignalingTypeOK, Authenticates, SendMessage, CloseAttachment, watchEnds,
                  Complete, Registered
  <2>2. MayAttach(calls[a].admission, RoomsLeft(calls[a].now), calls[a].now)
    <3>1. CASE ~MayAttach(calls[a].admission, RoomsLeft(calls[a].now), calls[a].now)
      <4>1. calls'[a] = [calls[a] EXCEPT !.state = "ended", !.released = TRUE, !.now = {}]
        BY <2>1, <3>1, Zenon DEF Attaches, SignalingInv, SignalingTypeOK
      <4>2. PICK c \in CallRecords : c = calls[a]
        BY SignalingFacts, Zenon
      <4>3. [c EXCEPT !.state = "ended", !.released = TRUE, !.now = {}].state = "ended"
        BY Zenon DEF CallRecords
      <4> QED  BY <4>1, <4>2, <4>3, Zenon
    <3> QED  BY <3>1, Zenon
  <2>3. ~stopped /\ calls[a].admission.id \notin used \ calls[a].now
    BY <2>2, Zenon DEF MayAttach, UsedLeft
  <2> QED  BY <2>3, Zenon DEF SignalingInv, AttachedIsRemembered
<1>2. SignalingSpec => [][SignalingNext]_signalingVars
  BY Zenon DEF SignalingSpec
<1>3. [Once]_signalingVars <=> [\A a \in Attachments : calls[a].state = "authenticated" /\ calls'[a].state = "attached" =>
                \A b \in Attachments : calls[b].talk # Nobody /\ calls[b].admission.id = calls[a].admission.id =>
                    calls[a].admission.id \in overdue]_signalingVars
  BY Zenon
<1> QED  BY <1>1, <1>2, SignalingInvariant, PTL DEF CredentialAttachesOnce
-----------------------------------------------------------------------------
(* Who owns a carrier                                                          *)

(* What PeersAreOwned asks of one peer.                                        *)
OwnedPeer(r) ==
    /\ r \in PeerRecords
    /\ r.pc = "none" => r.server = "none"
    /\ r.pc = "gone" => r.server = "closed"
    /\ r.handler # "none" => r.pc \in {"waiting", "gone"}
    /\ service = "closed" /\ r.pc \in {"tracked", "waiting"} => r.server = "closed"

LEMMA PeerIsOwned == ASSUME ServiceInv, NEW p \in Peers PROVE OwnedPeer(peers[p])
BY Zenon DEF ServiceInv, PeersAreOwned, OwnedPeer

(* A step of one peer, of which the loop and the queue see nothing.            *)
LEMMA PeerStep ==
  ASSUME ServiceInv, UNCHANGED <<service, queue, assembly>>,
         NEW p \in Peers, NEW r, peers' = [peers EXCEPT ![p] = r], OwnedPeer(r),
         peers[p].pc \in {"waiting", "gone"} => r.pc \in {"waiting", "gone"},
         r.handler = "running" => peers[p].handler = "running"
  PROVE  ServiceInv'
<1>1. peers \in [Peers -> PeerRecords] /\ r \in PeerRecords /\ queue \in Seq(Peers)
  BY Zenon DEF ServiceInv, PeersAreOwned, OwnedPeer
<1>2. peers' \in [Peers -> PeerRecords] /\ peers'[p] = r /\ \A q \in Peers \ {p} : peers'[q] = peers[q]
  BY <1>1, Zenon
<1>3. \A i \in 1..Len(queue) : queue[i] \in Peers
  BY <1>1
<1>4. \A q \in Peers : peers[q].pc \in {"waiting", "gone"} => peers'[q].pc \in {"waiting", "gone"}
  BY <1>2, Zenon
<1>5. PeersAreOwned'
  <2>1. \A q \in Peers : OwnedPeer(peers'[q])
    BY <1>2, PeerIsOwned, Zenon
  <2>2. \A i \in 1..Len(queue') : peers'[queue'[i]].pc \in {"waiting", "gone"}
    BY <1>3, <1>4, Zenon DEF ServiceInv, PeersAreOwned
  <2>3. assembly'.loop = "slot" => assembly'.peer \in Peers /\ peers'[assembly'.peer].pc \in {"waiting", "gone"}
    BY <1>4, Zenon DEF ServiceInv, PeersAreOwned
  <2> QED  BY <1>2, <2>1, <2>2, <2>3, Zenon DEF ServiceInv, PeersAreOwned, OwnedPeer
<1>6. ShutdownLeavesNoHandler'
  <2> SUFFICES ASSUME assembly.shutdown = "returned" PROVE ShutdownLeavesNoHandler'
    BY Zenon DEF ShutdownLeavesNoHandler
  <2>1. assembly.loop = "done" /\ service = "closed" /\ \A q \in Peers : peers[q].handler # "running"
    BY Zenon DEF ServiceInv, PeersAreOwned, ShutdownLeavesNoHandler, Handling
  <2>2. \A q \in Peers : peers'[q].handler # "running"
    BY <1>2, <2>1, Zenon
  <2>3. \A q \in Peers : peers'[q].pc \in {"tracked", "waiting"} => peers'[q].server = "closed"
    BY <1>2, <2>1, PeerIsOwned, Zenon DEF OwnedPeer
  <2> QED  BY <2>1, <2>2, <2>3, Zenon DEF ShutdownLeavesNoHandler, Handling
<1> QED  BY <1>5, <1>6, Zenon DEF ServiceInv

LEMMA PeerMovesKeep ==
  ASSUME ServiceInv, NEW p \in Peers,
         AdmitPeer(p) \/ TrackPeer(p) \/ ForgetPeer(p) \/ PeerLeaves(p) \/ EndHandler(p)
  PROVE  ServiceInv'
<1>1. PICK s \in PeerRecords : s = peers[p] /\ OwnedPeer(s)
  BY PeerIsOwned, Zenon DEF OwnedPeer
<1>2. UNCHANGED <<service, queue, assembly>>
  BY Zenon DEF AdmitPeer, TrackPeer, ForgetPeer, PeerLeaves, EndHandler
<1>3. CASE AdmitPeer(p)
  <2> DEFINE r == [s EXCEPT !.pc = "created", !.server = "open"]
  <2>1. peers' = [peers EXCEPT ![p] = r] /\ s.pc = "none"
    BY <1>1, <1>3, Zenon DEF AdmitPeer
  <2>2. r \in PeerRecords /\ r.pc = "created" /\ r.server = "open" /\ r.handler = s.handler
    BY Zenon DEF PeerRecords
  <2> HIDE DEF r
  <2> QED  BY <1>1, <1>2, <2>1, <2>2, PeerStep, Zenon DEF OwnedPeer
<1>4. CASE TrackPeer(p)
  <2>1. CASE service = "open"
    <3> DEFINE r == [s EXCEPT !.pc = "tracked"]
    <3>1. peers' = [peers EXCEPT ![p] = r] /\ s.pc = "created"
      BY <1>1, <1>4, <2>1, Zenon DEF TrackPeer
    <3>2. r \in PeerRecords /\ r.pc = "tracked" /\ r.handler = s.handler
      BY Zenon DEF PeerRecords
    <3> HIDE DEF r
    <3> QED  BY <1>1, <1>2, <2>1, <3>1, <3>2, PeerStep, Zenon DEF OwnedPeer
  <2>2. CASE service # "open"
    <3> DEFINE r == [s EXCEPT !.pc = "gone", !.server = "closed"]
    <3>1. peers' = [peers EXCEPT ![p] = r]
      BY <1>1, <1>4, <2>2, Zenon DEF TrackPeer
    <3>2. r \in PeerRecords /\ r.pc = "gone" /\ r.server = "closed" /\ r.handler = s.handler
      BY Zenon DEF PeerRecords
    <3> HIDE DEF r
    <3> QED  BY <1>1, <1>2, <3>1, <3>2, PeerStep, Zenon DEF OwnedPeer
  <2> QED  BY <2>1, <2>2, Zenon
<1>5. CASE ForgetPeer(p)
  <2> DEFINE r == [s EXCEPT !.pc = "gone", !.server = "closed"]
  <2>1. peers' = [peers EXCEPT ![p] = r]
    BY <1>1, <1>5, Zenon DEF ForgetPeer
  <2>2. r \in PeerRecords /\ r.pc = "gone" /\ r.server = "closed" /\ r.handler = s.handler
    BY Zenon DEF PeerRecords
  <2> HIDE DEF r
  <2> QED  BY <1>1, <1>2, <2>1, <2>2, PeerStep, Zenon DEF OwnedPeer
<1>6. CASE PeerLeaves(p)
  <2> DEFINE r == [s EXCEPT !.request = FALSE]
             t == [s EXCEPT !.server = "closed"]
  <2>1. (peers' = [peers EXCEPT ![p] = r] \/ peers' = [peers EXCEPT ![p] = t]) /\ s.server = "open"
    BY <1>1, <1>6, Zenon DEF PeerLeaves
  <2>2. r \in PeerRecords /\ r.pc = s.pc /\ r.server = s.server /\ r.handler = s.handler
    BY Zenon DEF PeerRecords
  <2>3. t \in PeerRecords /\ t.pc = s.pc /\ t.server = "closed" /\ t.handler = s.handler
    BY Zenon DEF PeerRecords
  <2> HIDE DEF r, t
  <2>4. OwnedPeer(r) /\ OwnedPeer(t)
    BY <1>1, <2>1, <2>2, <2>3, Zenon DEF OwnedPeer
  <2> QED  BY <1>1, <1>2, <2>1, <2>2, <2>3, <2>4, PeerStep, Zenon
<1>7. CASE EndHandler(p)
  <2> DEFINE r == [s EXCEPT !.handler = "ended", !.server = "closed"]
  <2>1. peers' = [peers EXCEPT ![p] = r] /\ s.handler = "running"
    BY <1>1, <1>7, Zenon DEF EndHandler
  <2>2. r \in PeerRecords /\ r.pc = s.pc /\ r.server = "closed" /\ r.handler = "ended"
    BY Zenon DEF PeerRecords
  <2> HIDE DEF r
  <2> QED  BY <1>1, <1>2, <2>1, <2>2, PeerStep, Zenon DEF OwnedPeer
<1> QED  BY <1>3, <1>4, <1>5, <1>6, <1>7, Zenon

LEMMA QueueKeeps == ASSUME ServiceInv, NEW p \in Peers, QueuePeer(p) PROVE ServiceInv'
<1>1. PICK s \in PeerRecords : s = peers[p] /\ OwnedPeer(s) /\ s.pc = "tracked"
  BY PeerIsOwned, Zenon DEF OwnedPeer, QueuePeer
<1>2. CASE UNCHANGED queue
  <2> DEFINE r == [s EXCEPT !.pc = "waiting", !.server = "closed"]
  <2>1. r \in PeerRecords /\ r.pc = "waiting" /\ r.server = "closed" /\ r.handler = s.handler
    BY Zenon DEF PeerRecords
  <2>2. UNCHANGED <<service, queue, assembly>> /\ peers' = [peers EXCEPT ![p] = r]
    <3>1. queue \in Seq(Peers)
      BY Zenon DEF ServiceInv, PeersAreOwned
    <3>2. queue' # Append(queue, p)
      BY <1>2, <3>1
    <3> QED  BY <1>1, <1>2, <3>2, Zenon DEF QueuePeer
  <2> HIDE DEF r
  <2> QED  BY <1>1, <2>1, <2>2, PeerStep, Zenon DEF OwnedPeer
<1>3. CASE queue' = Append(queue, p)
  <2> DEFINE r == [s EXCEPT !.pc = "waiting"]
  <2>1. r \in PeerRecords /\ r.pc = "waiting" /\ r.server = s.server /\ r.handler = s.handler
    BY Zenon DEF PeerRecords
  <2>2. /\ peers \in [Peers -> PeerRecords] /\ queue \in Seq(Peers)
        /\ assembly \in AssemblyRecords
    BY Zenon DEF ServiceInv, PeersAreOwned
  <2>3. UNCHANGED <<service, assembly>> /\ peers' = [peers EXCEPT ![p] = r]
    <3>1. queue' # queue
      BY <1>3, <2>2
    <3> QED  BY <1>1, <1>3, <3>1, Zenon DEF QueuePeer
  <2> HIDE DEF r
  <2>4. peers' \in [Peers -> PeerRecords] /\ peers'[p] = r /\ \A q \in Peers \ {p} : peers'[q] = peers[q]
    BY <2>1, <2>2, <2>3, Zenon
  <2>5. \A q \in Peers : OwnedPeer(peers'[q])
    BY <1>1, <2>1, <2>4, PeerIsOwned, Zenon DEF OwnedPeer
  <2>6. queue' \in Seq(Peers) /\ \A i \in 1..Len(queue') : peers'[queue'[i]].pc \in {"waiting", "gone"}
    <3>1. queue' \in Seq(Peers) /\ Len(queue') = Len(queue) + 1 /\ queue'[Len(queue) + 1] = p
      BY <1>3, <2>2
    <3>2. \A i \in 1..Len(queue) : queue'[i] = queue[i] /\ queue[i] \in Peers /\ peers[queue[i]].pc \in {"waiting", "gone"}
      BY <1>3, <2>2 DEF ServiceInv, PeersAreOwned
    <3>3. \A i \in 1..Len(queue) : peers'[queue'[i]].pc \in {"waiting", "gone"}
      BY <2>1, <2>4, <3>2, Zenon
    <3>4. Len(queue) \in Nat
      BY <2>2
    <3>5. \A i \in 1..Len(queue') : i \in 1..Len(queue) \/ i = Len(queue) + 1
      BY <3>1, <3>4
    <3> QED  BY <2>1, <2>4, <3>1, <3>3, <3>5, Zenon
  <2>7. assembly'.loop = "slot" => assembly'.peer \in Peers /\ peers'[assembly'.peer].pc \in {"waiting", "gone"}
    BY <2>1, <2>3, <2>4, Zenon DEF ServiceInv, PeersAreOwned
  <2>8. PeersAreOwned'
    BY <2>2, <2>3, <2>4, <2>5, <2>6, <2>7, Zenon DEF ServiceInv, PeersAreOwned, OwnedPeer
  <2>9. ShutdownLeavesNoHandler'
    <3> SUFFICES ASSUME assembly.shutdown = "returned" PROVE ShutdownLeavesNoHandler'
      BY <2>3, Zenon DEF ShutdownLeavesNoHandler
    <3>1. assembly.loop = "done" /\ service = "closed" /\ \A q \in Peers : peers[q].handler # "running"
      BY Zenon DEF ServiceInv, PeersAreOwned, ShutdownLeavesNoHandler, Handling
    <3>2. \A q \in Peers : peers'[q].handler # "running"
      BY <1>1, <2>1, <2>4, <3>1, Zenon
    <3>3. \A q \in Peers : peers'[q].pc \in {"tracked", "waiting"} => peers'[q].server = "closed"
      BY <2>5, <3>1, Zenon DEF OwnedPeer
    <3> QED  BY <2>3, <3>1, <3>2, <3>3, Zenon DEF ShutdownLeavesNoHandler, Handling
  <2> QED  BY <2>8, <2>9, Zenon DEF ServiceInv
<1> QED  BY <1>2, <1>3, Zenon DEF QueuePeer

(* A step of the loop, of Close or of Shutdown that leaves the peers alone.    *)
LEMMA AssemblyStep ==
  ASSUME ServiceInv, UNCHANGED <<peers, service>>, assembly' \in AssemblyRecords, queue' \in Seq(Peers),
         \A i \in 1..Len(queue') : peers[queue'[i]].pc \in {"waiting", "gone"},
         assembly'.loop = "slot" => assembly'.peer \in Peers /\ peers[assembly'.peer].pc \in {"waiting", "gone"},
         assembly'.shutdown = "returned" => service = "closed" /\ assembly'.loop = "done" /\ Handling = {}
  PROVE  ServiceInv'
<1>1. PeersAreOwned'
  BY Zenon DEF ServiceInv, PeersAreOwned
<1>2. ShutdownLeavesNoHandler'
  BY Zenon DEF ServiceInv, PeersAreOwned, ShutdownLeavesNoHandler, Handling
<1> QED  BY <1>1, <1>2, Zenon DEF ServiceInv

LEMMA LoopKeeps ==
  ASSUME ServiceInv, LoopAcceptsPeer \/ LoopStops \/ CancelAssembly \/ AwaitHandlers \/ ShutdownTimesOut
  PROVE  ServiceInv'
<1>1. PICK a \in AssemblyRecords : a = assembly
  BY Zenon DEF ServiceInv, PeersAreOwned
<1>2. /\ UNCHANGED <<peers, service>> /\ queue \in Seq(Peers)
      /\ \A i \in 1..Len(queue) : peers[queue[i]].pc \in {"waiting", "gone"}
      /\ a.loop = "slot" => a.peer \in Peers /\ peers[a.peer].pc \in {"waiting", "gone"}
      /\ a.shutdown = "returned" => service = "closed" /\ a.loop = "done" /\ Handling = {}
  BY <1>1, Zenon DEF LoopAcceptsPeer, LoopStops, CancelAssembly, AwaitHandlers, ShutdownTimesOut,
       ServiceInv, PeersAreOwned, ShutdownLeavesNoHandler
<1>3. CASE LoopAcceptsPeer
  <2>1. queue # <<>> /\ queue' = Tail(queue) /\ a.loop = "accept"
        /\ assembly' = [a EXCEPT !.loop = "slot", !.peer = Head(queue)]
    BY <1>1, <1>3, Zenon DEF LoopAcceptsPeer
  <2>2. PICK h \in Peers : h = Head(queue) /\ h = queue[1] /\ 1 \in 1..Len(queue)
    BY <1>2, <2>1
  <2>3. assembly' = [a EXCEPT !.loop = "slot", !.peer = h]
    BY <2>1, <2>2, Zenon
  <2>4. assembly' \in AssemblyRecords /\ assembly'.loop = "slot" /\ assembly'.peer = h /\ assembly'.shutdown = a.shutdown
    BY <2>3, Zenon DEF AssemblyRecords
  <2>5. queue' \in Seq(Peers) /\ Len(queue') = Len(queue) - 1 /\ \A i \in 1..Len(queue') : queue'[i] = queue[i + 1]
    BY <1>2, <2>1
  <2>6. \A i \in 1..Len(queue') : peers[queue'[i]].pc \in {"waiting", "gone"}
    <3>1. Len(queue) \in Nat
      BY <1>2
    <3>2. \A i \in 1..Len(queue') : i + 1 \in 1..Len(queue)
      BY <2>5, <3>1
    <3> QED  BY <1>2, <2>5, <3>2, Zenon
  <2>7. peers[h].pc \in {"waiting", "gone"} /\ a.shutdown # "returned"
    BY <1>2, <2>1, <2>2, Zenon
  <2> QED  BY <1>2, <2>4, <2>5, <2>6, <2>7, AssemblyStep, Zenon
<1>4. CASE LoopStops
  <2>1. assembly' = [a EXCEPT !.loop = "done"] /\ a.loop = "accept" /\ UNCHANGED queue
    BY <1>1, <1>4, Zenon DEF LoopStops
  <2>2. assembly' \in AssemblyRecords /\ assembly'.loop = "done" /\ assembly'.shutdown = a.shutdown
    BY <2>1, Zenon DEF AssemblyRecords
  <2> QED  BY <1>2, <2>1, <2>2, AssemblyStep, Zenon
<1>5. CASE CancelAssembly
  <2>1. assembly' = [a EXCEPT !.canceled = TRUE, !.shutdown = "canceled"] /\ UNCHANGED queue
    BY <1>1, <1>5, Zenon DEF CancelAssembly
  <2>2. /\ assembly' \in AssemblyRecords /\ assembly'.loop = a.loop /\ assembly'.peer = a.peer
        /\ assembly'.shutdown = "canceled"
    BY <2>1, Zenon DEF AssemblyRecords
  <2> QED  BY <1>2, <2>1, <2>2, AssemblyStep, Zenon
<1>6. CASE AwaitHandlers
  <2>1. /\ assembly' = [a EXCEPT !.shutdown = "returned"] /\ UNCHANGED queue
        /\ service = "closed" /\ a.loop = "done" /\ Handling = {}
    BY <1>1, <1>6, Zenon DEF AwaitHandlers
  <2>2. /\ assembly' \in AssemblyRecords /\ assembly'.loop = a.loop
    BY <2>1, Zenon DEF AssemblyRecords
  <2> QED  BY <1>2, <2>1, <2>2, AssemblyStep, Zenon
<1>7. CASE ShutdownTimesOut
  <2>1. assembly' = [a EXCEPT !.shutdown = "late"] /\ UNCHANGED queue
    BY <1>1, <1>7, Zenon DEF ShutdownTimesOut
  <2>2. /\ assembly' \in AssemblyRecords /\ assembly'.loop = a.loop /\ assembly'.peer = a.peer
        /\ assembly'.shutdown = "late"
    BY <2>1, Zenon DEF AssemblyRecords
  <2> QED  BY <1>2, <2>1, <2>2, AssemblyStep, Zenon
<1> QED  BY <1>3, <1>4, <1>5, <1>6, <1>7, Zenon

LEMMA StartHandlerKeeps == ASSUME ServiceInv, StartHandler PROVE ServiceInv'
<1>1. PICK a \in AssemblyRecords : a = assembly /\ a.loop = "slot"
  BY Zenon DEF ServiceInv, PeersAreOwned, StartHandler
<1>2. PICK p \in Peers : p = a.peer /\ peers[p].pc \in {"waiting", "gone"}
  BY <1>1, Zenon DEF ServiceInv, PeersAreOwned
<1>3. PICK s \in PeerRecords : s = peers[p] /\ OwnedPeer(s)
  BY PeerIsOwned, Zenon DEF OwnedPeer
<1>4. /\ a.shutdown # "returned" /\ UNCHANGED <<service, queue>> /\ peers \in [Peers -> PeerRecords]
      /\ queue \in Seq(Peers) /\ \A i \in 1..Len(queue) : queue[i] \in Peers /\ peers[queue[i]].pc \in {"waiting", "gone"}
  <2>1. queue \in Seq(Peers)
    BY Zenon DEF ServiceInv, PeersAreOwned
  <2>2. \A i \in 1..Len(queue) : queue[i] \in Peers
    BY <2>1
  <2> QED  BY <1>1, <2>1, <2>2, Zenon DEF ServiceInv, PeersAreOwned, ShutdownLeavesNoHandler, StartHandler
<1>5. \E r \in PeerRecords :
        /\ peers' = [peers EXCEPT ![p] = r] /\ OwnedPeer(r) /\ r.pc = s.pc
        /\ assembly' \in AssemblyRecords /\ assembly'.loop # "slot" /\ assembly'.shutdown = a.shutdown
  <2>1. CASE /\ peers' = [peers EXCEPT ![assembly.peer].handler = "running"]
             /\ assembly' = [assembly EXCEPT !.loop = "accept", !.peer = NoPeer]
    <3> DEFINE r == [s EXCEPT !.handler = "running"]
    <3>1. peers' = [peers EXCEPT ![p] = r] /\ assembly' = [a EXCEPT !.loop = "accept", !.peer = NoPeer]
      BY <1>1, <1>2, <1>3, <2>1, Zenon
    <3>2. r \in PeerRecords /\ r.pc = s.pc /\ r.server = s.server /\ r.handler = "running"
      BY Zenon DEF PeerRecords
    <3>3. assembly' \in AssemblyRecords /\ assembly'.loop = "accept" /\ assembly'.shutdown = a.shutdown
      BY <3>1, Zenon DEF AssemblyRecords
    <3> HIDE DEF r
    <3>4. OwnedPeer(r)
      BY <1>2, <1>3, <3>2, Zenon DEF OwnedPeer
    <3> QED  BY <3>1, <3>2, <3>3, <3>4, Zenon
  <2>2. CASE /\ peers' = [peers EXCEPT ![assembly.peer].server = "closed"]
             /\ assembly' = [assembly EXCEPT !.loop = "done", !.peer = NoPeer]
    <3> DEFINE r == [s EXCEPT !.server = "closed"]
    <3>1. peers' = [peers EXCEPT ![p] = r] /\ assembly' = [a EXCEPT !.loop = "done", !.peer = NoPeer]
      BY <1>1, <1>2, <1>3, <2>2, Zenon
    <3>2. r \in PeerRecords /\ r.pc = s.pc /\ r.server = "closed" /\ r.handler = s.handler
      BY Zenon DEF PeerRecords
    <3>3. assembly' \in AssemblyRecords /\ assembly'.loop = "done" /\ assembly'.shutdown = a.shutdown
      BY <3>1, Zenon DEF AssemblyRecords
    <3> HIDE DEF r
    <3>4. OwnedPeer(r)
      BY <1>2, <1>3, <3>2, Zenon DEF OwnedPeer
    <3> QED  BY <3>1, <3>2, <3>3, <3>4, Zenon
  <2> QED  BY <2>1, <2>2, Zenon DEF StartHandler
<1>6. PICK r \in PeerRecords :
        /\ peers' = [peers EXCEPT ![p] = r] /\ OwnedPeer(r) /\ r.pc = s.pc
        /\ assembly' \in AssemblyRecords /\ assembly'.loop # "slot" /\ assembly'.shutdown = a.shutdown
  BY <1>5, Zenon
<1>7. peers' \in [Peers -> PeerRecords] /\ peers'[p] = r /\ \A q \in Peers \ {p} : peers'[q] = peers[q]
  BY <1>4, <1>6, Zenon
<1>8. (\A q \in Peers : OwnedPeer(peers'[q])) /\ (\A q \in Peers : peers'[q].pc = peers[q].pc)
  BY <1>3, <1>6, <1>7, PeerIsOwned, Zenon
<1>9. PeersAreOwned'
  <2>1. \A i \in 1..Len(queue') : peers'[queue'[i]].pc \in {"waiting", "gone"}
    BY <1>4, <1>8, Zenon
  <2> QED  BY <1>1, <1>4, <1>6, <1>7, <1>8, <2>1, Zenon DEF ServiceInv, PeersAreOwned, OwnedPeer
<1> QED  BY <1>4, <1>6, <1>9, Zenon DEF ServiceInv, ShutdownLeavesNoHandler

(* Close: a server tracked before it is closed by it, one tracked later finds  *)
(* the service done.                                                           *)
LEMMA CloseKeeps == ASSUME ServiceInv, ServiceDone \/ CloseServers PROVE ServiceInv'
<1>1. /\ UNCHANGED <<queue, assembly>> /\ queue \in Seq(Peers) /\ assembly.shutdown # "returned"
      /\ service' \in {"done", "closed"} /\ peers \in [Peers -> PeerRecords]
  BY Zenon DEF ServiceDone, CloseServers, ServiceInv, PeersAreOwned
<1>2. ASSUME NEW p \in Peers
      PROVE  /\ peers'[p] \in PeerRecords /\ peers'[p].pc = peers[p].pc /\ peers'[p].handler = peers[p].handler
             /\ peers'[p].pc = "none" => peers'[p].server = "none"
             /\ peers'[p].pc = "gone" => peers'[p].server = "closed"
             /\ service' = "closed" /\ peers'[p].pc \in {"tracked", "waiting"} => peers'[p].server = "closed"
  <2>1. PICK s \in PeerRecords : s = peers[p] /\ OwnedPeer(s)
    BY PeerIsOwned, Zenon DEF OwnedPeer
  <2>2. CASE ServiceDone
    BY <2>1, <2>2, Zenon DEF ServiceDone, OwnedPeer
  <2>3. CASE CloseServers
    <3>1. peers'[p] = IF s.pc \in {"tracked", "waiting"} THEN [s EXCEPT !.server = "closed"] ELSE s
      BY <2>1, <2>3, Zenon DEF CloseServers
    <3>2. CASE s.pc \in {"tracked", "waiting"}
      <4>1. peers'[p] \in PeerRecords /\ peers'[p].pc = s.pc /\ peers'[p].server = "closed"
            /\ peers'[p].handler = s.handler
        BY <3>1, <3>2, Zenon DEF PeerRecords
      <4> QED  BY <2>1, <3>2, <4>1, Zenon DEF OwnedPeer
    <3>3. CASE s.pc \notin {"tracked", "waiting"}
      BY <2>1, <3>1, <3>3, Zenon DEF OwnedPeer
    <3> QED  BY <3>2, <3>3, Zenon
  <2> QED  BY <2>2, <2>3, Zenon
<1>3. peers' \in [Peers -> PeerRecords]
  <2>1. CASE ServiceDone
    BY <1>1, <2>1, Zenon DEF ServiceDone
  <2>2. CASE CloseServers
    BY <1>2, <2>2, Zenon DEF CloseServers
  <2> QED  BY <2>1, <2>2, Zenon
<1>4. \A i \in 1..Len(queue) : queue[i] \in Peers /\ peers[queue[i]].pc \in {"waiting", "gone"}
  BY <1>1 DEF ServiceInv, PeersAreOwned
<1>5. \A i \in 1..Len(queue') : peers'[queue'[i]].pc \in {"waiting", "gone"}
  BY <1>1, <1>2, <1>4, Zenon
<1>6. PeersAreOwned'
  <2>1. /\ assembly \in AssemblyRecords
        /\ assembly.loop = "slot" => assembly.peer \in Peers /\ peers[assembly.peer].pc \in {"waiting", "gone"}
        /\ \A p \in Peers : peers[p].handler # "none" => peers[p].pc \in {"waiting", "gone"}
    BY Zenon DEF ServiceInv, PeersAreOwned
  <2>2. \A p \in Peers : peers'[p].handler # "none" => peers'[p].pc \in {"waiting", "gone"}
    BY <1>2, <2>1, Zenon
  <2>3. assembly.loop = "slot" => assembly.peer \in Peers /\ peers'[assembly.peer].pc \in {"waiting", "gone"}
    BY <1>2, <2>1, Zenon
  <2> QED  BY <1>1, <1>2, <1>3, <1>5, <2>1, <2>2, <2>3, Zenon DEF PeersAreOwned
<1> QED  BY <1>1, <1>6, Zenon DEF ServiceInv, ShutdownLeavesNoHandler

(* http_carrier.go and carrier_assembly.go: the inductive invariant of peers,  *)
(* queue, loop and Shutdown, for any number of peers and any limits.           *)
THEOREM CarriersAreOwned == ServiceSpec => []ServiceInv
<1>1. ServiceInit => ServiceInv
  <2> SUFFICES ASSUME ServiceInit PROVE ServiceInv
    BY Zenon
  <2>1. /\ NewPeer \in PeerRecords /\ assembly \in AssemblyRecords /\ queue \in Seq(Peers) /\ Len(queue) = 0
        /\ assembly.loop = "accept" /\ assembly.shutdown = "no"
    BY DEF ServiceInit, NewPeer, PeerRecords, AssemblyRecords
  <2>2. \A p \in Peers : peers[p] = NewPeer
    BY Zenon DEF ServiceInit
  <2>3. peers \in [Peers -> PeerRecords]
    BY <2>1, Zenon DEF ServiceInit
  <2> QED  BY <2>1, <2>2, <2>3 DEF ServiceInit, ServiceInv, PeersAreOwned, ShutdownLeavesNoHandler, NewPeer
<1>2. ServiceInv /\ [ServiceNext]_serviceVars => ServiceInv'
  <2> SUFFICES ASSUME ServiceInv, [ServiceNext]_serviceVars PROVE ServiceInv'
    BY Zenon
  <2>1. CASE UNCHANGED serviceVars
    BY <2>1, Zenon DEF serviceVars, ServiceInv, PeersAreOwned, ShutdownLeavesNoHandler, Handling
  <2>2. CASE ServiceNext
    BY <2>2, PeerMovesKeep, QueueKeeps, LoopKeeps, StartHandlerKeeps, CloseKeeps, Zenon DEF ServiceNext
  <2> QED  BY <2>1, <2>2, Zenon
<1> QED  BY <1>1, <1>2, PTL DEF ServiceSpec

(* CarrierAssembly.Shutdown: once it has returned without an error no handler  *)
(* runs or can be started, and every server that is tracked is closed.         *)
THEOREM AssemblyShutdownIsQuiet == ServiceSpec => []ShutdownLeavesNoHandler
<1>1. ServiceInv => ShutdownLeavesNoHandler
  BY Zenon DEF ServiceInv
<1> QED  BY <1>1, CarriersAreOwned, PTL

(* HTTPService.Close: a server that is still open once Close has returned has  *)
(* yet to be tracked, and will find the service done.                          *)
THEOREM ClosedServiceIsEmpty == ServiceSpec => []ClosedServiceOwnsNothing
<1>1. ServiceInv => ClosedServiceOwnsNothing
  <2> SUFFICES ASSUME ServiceInv, service = "closed", NEW p \in Peers, peers[p].server = "open"
               PROVE  peers[p].pc = "created" /\ peers[p].handler = "none"
    BY Zenon DEF ClosedServiceOwnsNothing
  <2>1. OwnedPeer(peers[p])
    BY PeerIsOwned, Zenon
  <2> QED  BY <2>1, Zenon DEF OwnedPeer, PeerRecords
<1> QED  BY <1>1, CarriersAreOwned, PTL

-----------------------------------------------------------------------------
(* Durable routes                                                              *)

(* What becomes of the route registry in one step: nothing, one entry emptied, *)
(* all of them, or the entry of a session attached or updated.                 *)
RegistryMoves ==
    \/ UNCHANGED byKey
    \/ \E i \in Identities : byKey' = [byKey EXCEPT ![i] = NoEntry]
    \/ byKey' = [i \in Identities |-> NoEntry]
    \/ \E s \in Servers, rows \in SUBSET AllRows :
           (CanAttach(s) /\ byKey' = attachState(s, rows)) \/ (CanUpdate(s) /\ byKey' = UpdateReplicaState(s, rows))

Filed(i, entry) == entry = NoEntry \/ (entry.server \in Servers /\ IdentityOf[entry.server] = i)

INSTANCE FiniteSetTheorems

LEMMA NoEntryFacts == NoEntry \in CarrierEntries /\ NoEntry.server = Unserved
BY Zenon DEF NoEntry, CarrierEntries

LEMMA EntriesAre ==
  ASSUME DurableInv
  PROVE  /\ byKey \in [Identities -> CarrierEntries] /\ IsFiniteSet(Entries)
         /\ Cardinality(Entries) \in Nat /\ Cardinality(Entries) <= MaximumCarrierRoutes
         /\ \A i \in Identities : Filed(i, byKey[i])
BY FS_CardinalityType, Zenon DEF DurableInv, DurableTypeOK, RegistriesKeepLimits, Filed

LEMMA RegistryStep ==
  ASSUME DurableInv, RegistryMoves
  PROVE  /\ byKey' \in [Identities -> CarrierEntries] /\ IsFiniteSet(Entries')
         /\ Cardinality(Entries') <= MaximumCarrierRoutes
         /\ \A i \in Identities : Filed(i, byKey'[i])
<1>1. CASE UNCHANGED byKey
  <2>1. Entries' = Entries
    BY <1>1, Zenon DEF Entries
  <2> QED  BY <1>1, <2>1, EntriesAre, Zenon
<1>2. CASE \E i \in Identities : byKey' = [byKey EXCEPT ![i] = NoEntry]
  <2>1. PICK i \in Identities : byKey' = [byKey EXCEPT ![i] = NoEntry]
    BY <1>2, Zenon
  <2>2. byKey' \in [Identities -> CarrierEntries]
    BY <2>1, EntriesAre, NoEntryFacts, Zenon
  <2>3. byKey'[i] = NoEntry /\ \A j \in Identities \ {i} : byKey'[j] = byKey[j]
    BY <2>1, EntriesAre, Zenon
  <2>4. Entries' \subseteq Entries
    BY <2>3, NoEntryFacts, Zenon DEF Entries
  <2>5. IsFiniteSet(Entries') /\ Cardinality(Entries') \in Nat /\ Cardinality(Entries') <= Cardinality(Entries)
    BY <2>4, EntriesAre, FS_Subset, FS_CardinalityType, Zenon
  <2>6. Cardinality(Entries') <= MaximumCarrierRoutes
    BY <2>5, EntriesAre, DurableAssumption
  <2> QED  BY <2>2, <2>3, <2>5, <2>6, EntriesAre, Zenon DEF Filed
<1>3. CASE byKey' = [i \in Identities |-> NoEntry]
  <2>1. Entries' = {}
    BY <1>3, NoEntryFacts, Zenon DEF Entries
  <2>2. IsFiniteSet(Entries') /\ Cardinality(Entries') = 0
    BY <2>1, FS_EmptySet, Zenon
  <2> QED  BY <1>3, <2>2, NoEntryFacts, DurableAssumption DEF Filed
<1>4. ASSUME NEW s \in Servers, NEW rows \in SUBSET AllRows, NEW entry, entry = [server |-> s, rows |-> rows],
             byKey' = [byKey EXCEPT ![IdentityOf[s]] = entry],
             byKey[IdentityOf[s]].server # Unserved \/ Cardinality(Entries) < MaximumCarrierRoutes
      PROVE  /\ byKey' \in [Identities -> CarrierEntries] /\ IsFiniteSet(Entries')
             /\ Cardinality(Entries') <= MaximumCarrierRoutes
             /\ \A i \in Identities : Filed(i, byKey'[i])
  <2>1. PICK i \in Identities : i = IdentityOf[s]
    BY DurableAssumption, Zenon
  <2>2. entry \in CarrierEntries /\ entry.server = s
    BY <1>4, Zenon DEF CarrierEntries
  <2>3. byKey' \in [Identities -> CarrierEntries] /\ byKey'[i] = entry /\ \A j \in Identities \ {i} : byKey'[j] = byKey[j]
    BY <1>4, <2>1, <2>2, EntriesAre, Zenon
  <2>4. Entries' = Entries \cup {i}
    BY <2>2, <2>3, DurableAssumption, Zenon DEF Entries
  <2>5. IsFiniteSet(Entries') /\ Cardinality(Entries') = IF i \in Entries THEN Cardinality(Entries) ELSE Cardinality(Entries) + 1
    BY <2>4, EntriesAre, FS_AddElement, Zenon
  <2>6. i \in Entries <=> byKey[i].server # Unserved
    BY Zenon DEF Entries
  <2>7. Cardinality(Entries') <= MaximumCarrierRoutes
    BY <1>4, <2>1, <2>5, <2>6, EntriesAre, DurableAssumption, SMTT(30)
  <2> QED  BY <2>1, <2>2, <2>3, <2>5, <2>7, EntriesAre, Zenon DEF Filed
<1>5. ASSUME NEW s \in Servers, NEW rows \in SUBSET AllRows, CanAttach(s) /\ byKey' = attachState(s, rows)
      PROVE  /\ byKey' \in [Identities -> CarrierEntries] /\ IsFiniteSet(Entries')
             /\ Cardinality(Entries') <= MaximumCarrierRoutes
             /\ \A i \in Identities : Filed(i, byKey'[i])
  BY <1>4, <1>5, Zenon DEF CanAttach, attachState
<1>6. ASSUME NEW s \in Servers, NEW rows \in SUBSET AllRows, CanUpdate(s) /\ byKey' = UpdateReplicaState(s, rows)
      PROVE  /\ byKey' \in [Identities -> CarrierEntries] /\ IsFiniteSet(Entries')
             /\ Cardinality(Entries') <= MaximumCarrierRoutes
             /\ \A i \in Identities : Filed(i, byKey'[i])
  <2>1. PICK e \in CarrierEntries : e = byKey[IdentityOf[s]] /\ e.server = s
    BY <1>6, EntriesAre, DurableAssumption, Zenon DEF CanUpdate
  <2>2. byKey' = [byKey EXCEPT ![IdentityOf[s]] = [e EXCEPT !.rows = rows]]
    BY <1>6, <2>1, Zenon DEF UpdateReplicaState
  <2>3. [e EXCEPT !.rows = rows] = [server |-> s, rows |-> rows]
    BY <2>1 DEF CarrierEntries
  <2>4. byKey' = [byKey EXCEPT ![IdentityOf[s]] = [server |-> s, rows |-> rows]] /\ byKey[IdentityOf[s]].server # Unserved
    BY <2>1, <2>2, <2>3, DurableAssumption, Zenon
  <2> QED  BY <1>4, <2>4, Zenon
<1> QED  BY <1>1, <1>2, <1>3, <1>5, <1>6, Zenon DEF RegistryMoves

(* The step of one handler.                                                    *)
LEMMA ServerStep ==
  ASSUME DurableInv, NEW s \in Servers, NEW c \in CarrierRecords, Set(s, c), Others, RegistryMoves
  PROVE  DurableInv'
<1>1. carriers' \in [Servers -> CarrierRecords]
  BY Zenon DEF DurableInv, DurableTypeOK, Set
<1>2. UNCHANGED <<admitted, registriesOpen, selections>>
  BY Zenon DEF Others
<1>3. DurableTypeOK'
  BY <1>1, <1>2, RegistryStep, Zenon DEF DurableInv, DurableTypeOK
<1> QED  BY <1>2, <1>3, RegistryStep, Zenon DEF DurableInv, RegistriesKeepLimits, Filed

(* syncDurable's results, as records.                                          *)
LEMMA FailedRecord ==
  ASSUME DurableInv, NEW s \in Servers, SyncFails(s)
  PROVE  \E c \in CarrierRecords : Set(s, c) /\ c.sync = "ended"
<1>1. PICK r \in CarrierRecords : r = carriers[s]
  BY Zenon DEF DurableInv, DurableTypeOK
<1>2. CASE r.main = "first"
  <2> DEFINE c == [r EXCEPT !.main = "done", !.sync = "ended", !.draft = {}]
  <2>1. Set(s, c)
    BY <1>1, <1>2, Zenon DEF SyncFails, Set
  <2>2. c \in CarrierRecords /\ c.sync = "ended"
    BY Zenon DEF CarrierRecords
  <2> QED  BY <2>1, <2>2, Zenon
<1>3. CASE r.main # "first"
  <2> DEFINE c == [r EXCEPT !.sync = "ended", !.draft = {}]
  <2>1. Set(s, c)
    BY <1>1, <1>3, Zenon DEF SyncFails, Set
  <2>2. c \in CarrierRecords /\ c.sync = "ended"
    BY Zenon DEF CarrierRecords
  <2> QED  BY <2>1, <2>2, Zenon
<1> QED  BY <1>2, <1>3, Zenon

LEMMA RestedRecord ==
  ASSUME DurableInv, NEW s \in Servers, NEW registered \in BOOLEAN, SyncRests(s, registered)
  PROVE  \E c \in CarrierRecords : Set(s, c) /\ c.sync = "rest"
<1>1. PICK r \in CarrierRecords : r = carriers[s]
  BY Zenon DEF DurableInv, DurableTypeOK
<1>2. PICK m \in {"away", "starting", "first", "run", "done"} : m = IF r.main = "first" THEN "run" ELSE r.main
  BY Zenon DEF CarrierRecords
<1> DEFINE c == [r EXCEPT !.sync = "rest", !.registered = registered, !.draft = {}, !.main = m]
<1>3. Set(s, c)
  BY <1>1, <1>2, Zenon DEF SyncRests, Set
<1>4. c \in CarrierRecords /\ c.sync = "rest"
  BY Zenon DEF CarrierRecords
<1> QED  BY <1>3, <1>4, Zenon

LEMMA DetachMoves == ASSUME DurableInv, NEW s \in Servers, byKey' = detach(s) PROVE RegistryMoves
BY DurableAssumption, Zenon DEF detach, RegistryMoves

LEMMA HandlersKeep ==
  ASSUME DurableInv, NEW s \in Servers,
         Connect(s) \/ StartHandling(s) \/ Tick(s) \/ SyncStep(s) \/ HandlerReturns(s) \/ SessionEnds(s)
  PROVE  DurableInv'
<1>1. PICK r \in CarrierRecords : r = carriers[s]
  BY Zenon DEF DurableInv, DurableTypeOK
<1>2. UNCHANGED byKey => RegistryMoves
  BY Zenon DEF RegistryMoves
<1>3. CASE Connect(s)
  <2>1. [r EXCEPT !.live = TRUE, !.main = "starting"] \in CarrierRecords
    BY Zenon DEF CarrierRecords
  <2> QED  BY <1>1, <1>2, <1>3, <2>1, ServerStep, Zenon DEF Connect
<1>4. CASE StartHandling(s)
  <2>1. /\ [r EXCEPT !.main = "first", !.follows = TRUE, !.sync = "has"] \in CarrierRecords
        /\ [r EXCEPT !.main = "run"] \in CarrierRecords /\ [r EXCEPT !.main = "done"] \in CarrierRecords
    BY Zenon DEF CarrierRecords
  <2>2. PICK c \in CarrierRecords : Set(s, c) /\ UNCHANGED byKey /\ Others
    BY <1>1, <1>4, <2>1, Zenon DEF StartHandling
  <2> QED  BY <1>2, <2>2, ServerStep, Zenon
<1>5. CASE Tick(s)
  <2>1. [r EXCEPT !.sync = "has"] \in CarrierRecords
    BY Zenon DEF CarrierRecords
  <2> QED  BY <1>1, <1>2, <1>5, <2>1, ServerStep, Zenon DEF Tick
<1>6. CASE SyncHas(s)
  <2>1. [r EXCEPT !.sync = "machine"] \in CarrierRecords
    BY Zenon DEF CarrierRecords
  <2>2. CASE Set(s, [carriers[s] EXCEPT !.sync = "machine"]) /\ UNCHANGED byKey /\ Others
    BY <1>1, <1>2, <2>1, <2>2, ServerStep, Zenon
  <2>3. CASE SyncRests(s, FALSE) /\ byKey' = (IF carriers[s].registered THEN detach(s) ELSE byKey) /\ Others
    <3>1. RegistryMoves
      BY <1>2, <2>3, DetachMoves, Zenon
    <3> QED  BY <2>3, <3>1, RestedRecord, ServerStep, Zenon
  <2> QED  BY <1>6, <2>2, <2>3, Zenon DEF SyncHas
<1>7. CASE SyncMachine(s)
  <2>1. [r EXCEPT !.sync = "rows"] \in CarrierRecords
    BY Zenon DEF CarrierRecords
  <2>2. PICK c \in CarrierRecords : Set(s, c) /\ UNCHANGED byKey /\ Others
    BY <1>1, <1>7, <2>1, FailedRecord, Zenon DEF SyncMachine
  <2> QED  BY <1>2, <2>2, ServerStep, Zenon
<1>8. CASE SyncRows(s)
  <2>1. PICK d \in SUBSET AllRows : d = ForIdentity(IdentityOf[s])
    BY Zenon DEF ForIdentity, DurableInv, DurableTypeOK
  <2>2. [r EXCEPT !.sync = "install", !.draft = d] \in CarrierRecords
    BY Zenon DEF CarrierRecords
  <2>3. PICK c \in CarrierRecords : Set(s, c) /\ UNCHANGED byKey /\ Others
    BY <1>1, <1>8, <2>1, <2>2, FailedRecord, Zenon DEF SyncRows
  <2> QED  BY <1>2, <2>3, ServerStep, Zenon
<1>9. CASE SyncInstall(s)
  <2>1. carriers[s].draft \in SUBSET AllRows
    BY <1>1, Zenon DEF CarrierRecords
  <2>2. RegistryMoves
    BY <1>2, <1>9, <2>1, Zenon DEF SyncInstall, RegistryMoves
  <2>3. \E c \in CarrierRecords : Set(s, c)
    BY <1>9, RestedRecord, FailedRecord, Zenon DEF SyncInstall
  <2>4. Others
    BY <1>9, Zenon DEF SyncInstall
  <2> QED  BY <2>2, <2>3, <2>4, ServerStep, Zenon
<1>10. CASE HandlerReturns(s)
  <2>1. [r EXCEPT !.main = "done"] \in CarrierRecords
    BY Zenon DEF CarrierRecords
  <2> QED  BY <1>1, <1>10, <2>1, DetachMoves, ServerStep, Zenon DEF HandlerReturns
<1>11. CASE SessionEnds(s)
  <2>1. [r EXCEPT !.live = FALSE] \in CarrierRecords
    BY Zenon DEF CarrierRecords
  <2> QED  BY <1>1, <1>2, <1>11, <2>1, ServerStep, Zenon DEF SessionEnds
<1> QED  BY <1>3, <1>4, <1>5, <1>6, <1>7, <1>8, <1>9, <1>10, <1>11, Zenon DEF SyncStep

LEMMA SelectionFacts == NoSelection \in Selections /\ OpenSelection \in Selections /\ NoSelection.at = "idle"
<1>0. 0 \in SelectedRoutes
  BY Zenon DEF SelectedRoutes
<1>1. NoSelection \in Selections
  BY <1>0, Zenon DEF NoSelection, Selections
<1>2. NoSelection.at = "idle"
  BY Zenon DEF NoSelection
<1>3. PICK n \in Selections : n = NoSelection
  BY <1>1, Zenon
<1>4. OpenSelection = [n EXCEPT !.at = "open"]
  BY <1>3, Zenon DEF OpenSelection
<1>5. OpenSelection \in Selections
  BY <1>4, Zenon DEF Selections
<1> QED  BY <1>1, <1>2, <1>5, Zenon

LEMMA RequestsKeep ==
  ASSUME DurableInv, NEW q \in Requesters,
         (\E rule \in Rules : entryFor(q, rule)) \/ OpenSelected(q) \/ CloseSelected(q)
  PROVE  DurableInv'
<1>1. UNCHANGED <<admitted, byKey, registriesOpen, carriers>> /\ selections \in [Requesters -> Selections]
  BY Zenon DEF entryFor, OpenSelected, CloseSelected, DurableInv, DurableTypeOK
<1>2. \E x \in Selections : selections' = [selections EXCEPT ![q] = x]
  <2>1. CASE \E rule \in Rules : entryFor(q, rule)
    <3>1. PICK rule \in Rules : entryFor(q, rule)
      BY <2>1, Zenon
    <3>2. PICK i \in Eligible(rule) :
            selections' = [selections EXCEPT ![q] = [at |-> "selected", server |-> byKey[i].server, route |-> rule.route]]
      BY <3>1, Zenon DEF entryFor
    <3>3. byKey[i].server \in Servers \cup {Unserved}
      BY <3>2, Zenon DEF Eligible, Entries, DurableInv, DurableTypeOK, CarrierEntries
    <3>4. rule.route \in SelectedRoutes
      BY Zenon DEF SelectedRoutes
    <3>5. [at |-> "selected", server |-> byKey[i].server, route |-> rule.route] \in Selections
      BY <3>3, <3>4, Zenon DEF Selections
    <3> QED  BY <3>2, <3>5, Zenon
  <2>2. CASE OpenSelected(q) \/ CloseSelected(q)
    BY <2>2, SelectionFacts, Zenon DEF OpenSelected, CloseSelected
  <2> QED  BY <2>1, <2>2, Zenon
<1>3. DurableTypeOK' /\ Entries' = Entries
  BY <1>1, <1>2, Zenon DEF DurableInv, DurableTypeOK, Entries
<1> QED  BY <1>1, <1>3, Zenon DEF DurableInv, RegistriesKeepLimits

LEMMA TablesKeep ==
  ASSUME DurableInv,
         \/ \E rows \in AdmissionTables : ReplaceAdmissions(rows)
         \/ CloseRegistries
         \/ \E i \in Identities : WatchEntry(i)
  PROVE  DurableInv'
<1>1. RegistryMoves /\ UNCHANGED <<carriers, selections>>
  BY Zenon DEF ReplaceAdmissions, CloseRegistries, WatchEntry, RegistryMoves
<1>2. admitted' \in SUBSET AllRows /\ registriesOpen' \in BOOLEAN /\ Cardinality(admitted') <= MaximumAdmissions
  <2>1. CASE \E rows \in AdmissionTables : ReplaceAdmissions(rows)
    BY <2>1, Zenon DEF ReplaceAdmissions, AllRows, DurableInv, DurableTypeOK
  <2>2. CASE CloseRegistries
    <3>1. admitted' = {} /\ registriesOpen' = FALSE
      BY <2>2, Zenon DEF CloseRegistries
    <3>2. Cardinality({}) = 0
      BY FS_EmptySet, Zenon
    <3>3. Cardinality(admitted') <= MaximumAdmissions
      BY <3>1, <3>2, DurableAssumption
    <3>4. admitted' \in SUBSET AllRows
      BY <3>1, Zenon
    <3> QED  BY <3>1, <3>3, <3>4, Zenon
  <2>3. CASE \E i \in Identities : WatchEntry(i)
    BY <2>3, Zenon DEF WatchEntry, DurableInv, DurableTypeOK, RegistriesKeepLimits
  <2> QED  BY <2>1, <2>2, <2>3, Zenon
<1>3. DurableTypeOK'
  BY <1>1, <1>2, RegistryStep, Zenon DEF DurableInv, DurableTypeOK
<1> QED  BY <1>1, <1>2, <1>3, RegistryStep, Zenon DEF DurableInv, RegistriesKeepLimits, Filed

(* durable_admission.go and data_carrier_routes.go: the registries keep to     *)
(* their limits and an entry is filed under the identity of its session,       *)
(* however the handlers of overlapping sessions attach, update and detach it.  *)
THEOREM RegistriesAreBounded == DurableSpec => [](RegistriesKeepLimits /\ DurableInv)
<1>1. DurableInit => DurableInv
  <2> SUFFICES ASSUME DurableInit PROVE DurableInv
    BY Zenon
  <2>1. NewCarrier \in CarrierRecords
    BY Zenon DEF NewCarrier, CarrierRecords
  <2>2. DurableTypeOK
    BY <2>1, NoEntryFacts, SelectionFacts, Zenon DEF DurableInit, DurableTypeOK
  <2>3. Entries = {}
    BY NoEntryFacts, Zenon DEF DurableInit, Entries
  <2>4. IsFiniteSet({}) /\ Cardinality({}) = 0
    BY FS_EmptySet, Zenon
  <2> QED  BY <2>2, <2>3, <2>4, DurableAssumption, SMTT(30) DEF DurableInit, DurableInv, RegistriesKeepLimits
<1>2. DurableInv /\ [DurableNext]_durableVars => DurableInv'
  <2> SUFFICES ASSUME DurableInv, [DurableNext]_durableVars PROVE DurableInv'
    BY Zenon
  <2>1. CASE UNCHANGED durableVars
    BY <2>1, Zenon DEF durableVars, DurableInv, DurableTypeOK, RegistriesKeepLimits, Entries
  <2>2. CASE DurableNext
    BY <2>2, HandlersKeep, RequestsKeep, TablesKeep, Zenon DEF DurableNext
  <2> QED  BY <2>1, <2>2, Zenon
<1>3. DurableInv => RegistriesKeepLimits
  BY Zenon DEF DurableInv
<1> QED  BY <1>1, <1>2, <1>3, PTL DEF DurableSpec

(* AuthorizeStream: a stream begins only on a route that the admission table   *)
(* holds for the session's identity at that moment, whatever has happened to   *)
(* the table and to the route registry since the request was matched.          *)
THEOREM StreamsAreAdmitted == DurableSpec => OpensOnlyAdmitted
<1> DEFINE Admits ==
      \A q \in Requesters :
          selections[q].at # "open" /\ selections'[q].at = "open" =>
              \E row \in admitted :
                  /\ row.identity = IdentityOf[selections[q].server]
                  /\ row.route = selections[q].route
                  /\ Usable(row)
<1>1. DurableInv /\ [DurableNext]_durableVars => Admits \/ UNCHANGED durableVars
  <2> SUFFICES ASSUME DurableInv, DurableNext PROVE Admits
    BY Zenon DEF durableVars
  <2>1. selections \in [Requesters -> Selections]
    BY Zenon DEF DurableInv, DurableTypeOK
  <2>2. CASE UNCHANGED selections
    BY <2>2, Zenon
  <2>3. ASSUME NEW q \in Requesters, NEW rule \in Rules, entryFor(q, rule) PROVE Admits
    <3>1. PICK i \in Eligible(rule) :
            selections' = [selections EXCEPT ![q] = [at |-> "selected", server |-> byKey[i].server, route |-> rule.route]]
      BY <2>3, Zenon DEF entryFor
    <3>2. selections'[q].at = "selected" /\ \A p \in Requesters \ {q} : selections'[p] = selections[p]
      BY <2>1, <3>1, Zenon
    <3> QED  BY <3>2, Zenon
  <2>4. ASSUME NEW q \in Requesters, CloseSelected(q) PROVE Admits
    <3>1. selections'[q] = NoSelection /\ \A p \in Requesters \ {q} : selections'[p] = selections[p]
      BY <2>1, <2>4, Zenon DEF CloseSelected
    <3> QED  BY <3>1, SelectionFacts, Zenon
  <2>5. ASSUME NEW q \in Requesters, OpenSelected(q) PROVE Admits
    <3>1. /\ selections'[q] = IF carriers[selections[q].server].live
                                   /\ Authorized(selections[q].server, selections[q].route)
                              THEN OpenSelection ELSE NoSelection
          /\ \A p \in Requesters \ {q} : selections'[p] = selections[p]
      BY <2>1, <2>5, Zenon DEF OpenSelected
    <3>2. Authorized(selections[q].server, selections[q].route) =>
            \E row \in admitted : /\ row.identity = IdentityOf[selections[q].server]
                                  /\ row.route = selections[q].route /\ Usable(row)
      BY Zenon DEF Authorized, ForIdentity
    <3> QED  BY <3>1, <3>2, SelectionFacts, Zenon
  <2>6. ASSUME NEW s \in Servers,
               Connect(s) \/ StartHandling(s) \/ Tick(s) \/ SyncStep(s) \/ HandlerReturns(s) \/ SessionEnds(s)
        PROVE  UNCHANGED selections
    BY <2>6, ZenonT(30) DEF Connect, StartHandling, Tick, SyncStep, SyncHas, SyncMachine, SyncRows, SyncInstall,
        HandlerReturns, SessionEnds, Others
  <2>7. ASSUME \/ \E rows \in AdmissionTables : ReplaceAdmissions(rows)
               \/ CloseRegistries
               \/ \E i \in Identities : WatchEntry(i)
        PROVE  UNCHANGED selections
    BY <2>7, Zenon DEF ReplaceAdmissions, CloseRegistries, WatchEntry
  <2> HIDE DEF Admits
  <2> QED  BY <2>2, <2>3, <2>4, <2>5, <2>6, <2>7, Zenon DEF DurableNext
<1>2. [Admits]_durableVars <=> (Admits \/ UNCHANGED durableVars)
  BY Zenon
<1>3. [][Admits]_durableVars <=> OpensOnlyAdmitted
  BY Zenon DEF OpensOnlyAdmitted
<1> HIDE DEF Admits
<1> QED  BY <1>1, <1>2, <1>3, RegistriesAreBounded, PTL DEF DurableSpec

(* Emptying an entry is never a change of what its session says.               *)
LEMMA EmptiedIsNotObserved ==
  ASSUME DurableInv, NEW i \in Identities, byKey'[i] \in {byKey[i], NoEntry}, byKey'[i].server = byKey[i].server
  PROVE  byKey'[i].rows = byKey[i].rows
<1>1. Filed(i, byKey[i])
  BY EntriesAre, Zenon
<1> QED  BY <1>1, NoEntryFacts, DurableAssumption, Zenon DEF Filed

(* "A delayed observation from an overlapping old session cannot mutate its    *)
(* replacement": what an entry says changes only in the installing step of the *)
(* very session it names.                                                      *)
THEOREM ObservationsAreOwn == DurableSpec => ObservationIsItsOwn
<1> DEFINE Observes ==
      \A i \in Identities :
          byKey'[i].server = byKey[i].server /\ byKey'[i].rows # byKey[i].rows =>
              carriers[byKey[i].server].sync = "install" /\ carriers'[byKey[i].server].sync # "install"
<1>1. DurableInv /\ [DurableNext]_durableVars => Observes \/ UNCHANGED durableVars
  <2> SUFFICES ASSUME DurableInv, DurableNext PROVE Observes
    BY Zenon DEF durableVars
  <2>1. CASE \A i \in Identities : byKey'[i] \in {byKey[i], NoEntry}
    BY <2>1, EmptiedIsNotObserved, Zenon
  <2>2. ASSUME NEW s \in Servers, SyncInstall(s) PROVE Observes
    <3>1. CASE UNCHANGED byKey
      BY <3>1, <2>1, Zenon
    <3>2. CASE /\ byKey' = UpdateReplicaState(s, carriers[s].draft) \/ byKey' = attachState(s, carriers[s].draft)
               /\ SyncRests(s, TRUE)
      <4>1. PICK j \in Identities : j = IdentityOf[s]
        BY DurableAssumption, Zenon
      <4>2. \A i \in Identities \ {j} : byKey'[i] = byKey[i]
        BY <3>2, <4>1, EntriesAre, Zenon DEF UpdateReplicaState, attachState
      <4>3. (CanUpdate(s) /\ byKey' = UpdateReplicaState(s, carriers[s].draft)) \/ byKey' = attachState(s, carriers[s].draft)
            \/ UNCHANGED byKey
        BY <2>2, Zenon DEF SyncInstall
      <4>4. CASE CanUpdate(s)
        <5>1. byKey[j].server = s
          BY <4>1, <4>4, Zenon DEF CanUpdate
        <5>2. PICK c \in CarrierRecords : Set(s, c) /\ c.sync = "rest"
          BY <3>2, RestedRecord, Zenon
        <5>3. carriers[s].sync = "install" /\ carriers'[s].sync = "rest"
          BY <2>2, <5>2, Zenon DEF SyncInstall, Set, DurableInv, DurableTypeOK
        <5> QED  BY <4>2, <5>1, <5>3, Zenon
      <4>5. CASE byKey' = attachState(s, carriers[s].draft)
        <5>1. byKey'[j].server = s
          BY <4>1, <4>5, EntriesAre, Zenon DEF attachState
        <5>2. PICK c \in CarrierRecords : Set(s, c) /\ c.sync = "rest"
          BY <3>2, RestedRecord, Zenon
        <5>3. carriers[s].sync = "install" /\ carriers'[s].sync = "rest"
          BY <2>2, <5>2, Zenon DEF SyncInstall, Set, DurableInv, DurableTypeOK
        <5> QED  BY <4>2, <5>1, <5>3, Zenon
      <4> HIDE DEF Observes
      <4> QED  BY <3>1, <4>3, <4>4, <4>5, Zenon
    <3> HIDE DEF Observes
    <3> QED  BY <2>2, <3>1, <3>2, Zenon DEF SyncInstall
  <2>3. ASSUME NEW s \in Servers,
               Connect(s) \/ StartHandling(s) \/ Tick(s) \/ SyncHas(s) \/ SyncMachine(s) \/ SyncRows(s)
                   \/ HandlerReturns(s) \/ SessionEnds(s)
        PROVE  \A i \in Identities : byKey'[i] \in {byKey[i], NoEntry}
    <3>1. byKey' = byKey \/ byKey' = detach(s)
      BY <2>3, Zenon DEF Connect, StartHandling, Tick, SyncHas, SyncMachine, SyncRows, HandlerReturns, SessionEnds
    <3> QED  BY <3>1, EntriesAre, DurableAssumption, Zenon DEF detach
  <2>4. ASSUME \/ \E rows \in AdmissionTables : ReplaceAdmissions(rows)
               \/ CloseRegistries
               \/ \E i \in Identities : WatchEntry(i)
        PROVE  \A i \in Identities : byKey'[i] \in {byKey[i], NoEntry}
    BY <2>4, EntriesAre, Zenon DEF ReplaceAdmissions, CloseRegistries, WatchEntry
  <2>5. ASSUME NEW q \in Requesters,
               (\E rule \in Rules : entryFor(q, rule)) \/ OpenSelected(q) \/ CloseSelected(q)
        PROVE  \A i \in Identities : byKey'[i] \in {byKey[i], NoEntry}
    BY <2>5, Zenon DEF entryFor, OpenSelected, CloseSelected
  <2> HIDE DEF Observes
  <2> QED  BY <2>1, <2>2, <2>3, <2>4, <2>5, Zenon DEF DurableNext, SyncStep
<1>2. [Observes]_durableVars <=> (Observes \/ UNCHANGED durableVars)
  BY Zenon
<1>3. [][Observes]_durableVars <=> ObservationIsItsOwn
  BY Zenon DEF ObservationIsItsOwn
<1> HIDE DEF Observes
<1> QED  BY <1>1, <1>2, <1>3, RegistriesAreBounded, PTL DEF DurableSpec

=============================================================================
