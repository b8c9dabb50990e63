--------------------------- MODULE GatewayProofs ---------------------------
(* Proofs about five small parts of the gateway, each for any size: the        *)
(* admission journal, the public TCP listeners, the attachment registry, the   *)
(* decisions and leases of the ingress, and the preview gateway's index.       *)
EXTENDS StaticRoutes, AdmissionJournal, TCPListeners, IngressAuthority, PreviewAliases, TLAPS

-----------------------------------------------------------------------------
(* The preview gateway's index                                                 *)

(* What AliasInv asks of the maps, as a predicate of their values.             *)
Held(al, r) == {d \in Domains : al[d] # Vacant /\ al[d].route = r}
Maps(ro, ho, al, wanted) ==
    /\ ro \in [PreviewRoutes -> PreviewEntries \cup {Vacant}]
    /\ ho \in [Names -> PreviewEntries \cup {Vacant}]
    /\ al \in [Domains -> (UNION AliasSets) \cup {Vacant}]
    /\ wanted \in AliasSets \cup {{}}
    /\ \A r \in PreviewRoutes : ro[r] # Vacant => ro[r].route = r /\ ho[ro[r].host] = ro[r]
    /\ \A h \in Names : ho[h] # Vacant =>
           /\ ro[ho[h].route] = ho[h]
           /\ ho[h].host = h \/ \E d \in Held(al, ho[h].route) : al[d].host = h
    /\ \A d \in Domains : al[d] # Vacant =>
           /\ al[d].domain = d /\ al[d].host # ro[al[d].route].host
           /\ al[d] \in wanted
           /\ ro[al[d].route] # Vacant /\ ro[al[d].route].lease = al[d].lease
           /\ ho[al[d].host] = ro[al[d].route]

LEMMA AliasInvIsMaps ==
    AliasInv <=> Maps(byRoute, byHost, aliasesByID, desiredAliases) /\ DesiredAliasIsActive
  BY Zenon DEF AliasInv, Maps, Held, AliasesOf, ManagedNameLeadsHome, NameHasItsReason, AliasIsFiled,
         ActiveAliasIsProjected

LEMMA AliasInvIsMapsNext ==
    Maps(byRoute', byHost', aliasesByID', desiredAliases') /\ DesiredAliasIsActive' => AliasInv'
  BY Zenon DEF AliasInv, Maps, Held, AliasesOf, ManagedNameLeadsHome, NameHasItsReason, AliasIsFiled,
         ActiveAliasIsProjected

LEMMA AliasFacts ==
    ASSUME NEW wanted \in AliasSets \cup {{}}, NEW a \in wanted
    PROVE  /\ a \in UNION AliasSets /\ a # Vacant
           /\ a.domain \in Domains /\ a.route \in PreviewRoutes /\ a.host \in Names
           /\ \A b \in wanted : a.domain = b.domain \/ a.host = b.host => a = b
<1>1. a \in UNION AliasSets
  BY Zenon
<1>2. a \in [domain : Domains, route : PreviewRoutes, host : Names, lease : Nat, version : Nat]
  BY <1>1, AliasAssumption, Zenon
<1> QED  BY <1>1, <1>2, AliasAssumption, Zenon

LEMMA EntryFacts ==
    ASSUME NEW p \in PreviewEntries
    PROVE  p.route \in PreviewRoutes /\ p.host \in Names /\ p # Vacant
  BY AliasAssumption, Zenon

(* activateDesiredAliasesForRouteLocked keeps the maps in agreement: it adds   *)
(* the aliases that can be attached, and nothing else changes.                 *)
LEMMA ActivateKeeps ==
  ASSUME NEW ro, NEW ho, NEW al, NEW wanted, NEW some \in SUBSET wanted,
         Maps(ro, ho, al, wanted), activateDesiredAliases(some, ro, ho, al)
  PROVE  /\ Maps(byRoute', byHost', aliasesByID', wanted) /\ byRoute' = ro
         /\ \A a \in some : attachable(a, ro, ho, al) => aliasesByID'[a.domain] = a
         /\ \A d \in Domains : al[d] # Vacant => aliasesByID'[d] = al[d]
<1> DEFINE taken == {a \in some : attachable(a, ro, ho, al)}
           named(h) == CHOOSE a \in taken : a.host = h
           filed(d) == CHOOSE a \in taken : a.domain = d
<1>1. /\ byRoute' = ro
      /\ byHost' = [h \in Names |-> IF \E a \in taken : a.host = h THEN ro[named(h).route] ELSE ho[h]]
      /\ aliasesByID' = [d \in Domains |-> IF \E a \in taken : a.domain = d THEN filed(d) ELSE al[d]]
  BY Zenon DEF activateDesiredAliases
<1>2. \A a \in taken : /\ a \in wanted /\ a # Vacant /\ a.domain \in Domains /\ a.route \in PreviewRoutes
                       /\ a.host \in Names /\ a \in UNION AliasSets
  BY AliasFacts, Zenon DEF Maps
<1>3. \A a \in taken : named(a.host) = a /\ filed(a.domain) = a
  <2>1. \A a, b \in taken : a.host = b.host \/ a.domain = b.domain => a = b
    BY AliasFacts DEF Maps
  <2> HIDE DEF taken
  <2> SUFFICES ASSUME NEW a \in taken PROVE named(a.host) = a /\ filed(a.domain) = a
    BY Zenon
  <2>2. named(a.host) \in taken /\ named(a.host).host = a.host
    BY Zenon
  <2>3. filed(a.domain) \in taken /\ filed(a.domain).domain = a.domain
    BY Zenon
  <2> QED  BY <2>1, <2>2, <2>3, Zenon
<1>4. \A a \in taken : /\ ro[a.route] # Vacant /\ ro[a.route].lease = a.lease /\ a.host # ro[a.route].host
                       /\ al[a.domain] = Vacant /\ ho[a.host] \in {Vacant, ro[a.route]}
  BY Zenon DEF attachable
<1>5. /\ \A a \in taken : byHost'[a.host] = ro[a.route] /\ aliasesByID'[a.domain] = a
      /\ \A h \in Names : (\A a \in taken : a.host # h) => byHost'[h] = ho[h]
      /\ \A d \in Domains : (\A a \in taken : a.domain # d) => aliasesByID'[d] = al[d]
  <2> HIDE DEF taken, named, filed
  <2> QED  BY <1>1, <1>2, <1>3, Zenon
<1>6. \A d \in Domains : al[d] # Vacant => aliasesByID'[d] = al[d]
  BY <1>4, <1>5
<1>7. \A h \in Names : ho[h] # Vacant => byHost'[h] = ho[h]
  BY <1>4, <1>5
<1>8. byHost' \in [Names -> PreviewEntries \cup {Vacant}]
  <2>1. \A h \in Names : byHost'[h] \in PreviewEntries \cup {Vacant}
    BY <1>2, <1>5 DEF Maps
  <2> HIDE DEF taken, named
  <2> QED  BY <1>1, <2>1, Zenon
<1>9. aliasesByID' \in [Domains -> (UNION AliasSets) \cup {Vacant}]
  <2>1. \A d \in Domains : aliasesByID'[d] \in (UNION AliasSets) \cup {Vacant}
    BY <1>2, <1>5 DEF Maps
  <2> HIDE DEF taken, filed
  <2> QED  BY <1>1, <2>1, Zenon
<1>a. \A r \in PreviewRoutes : ro[r] # Vacant => ro[r].route = r /\ byHost'[ro[r].host] = ro[r]
  <2> SUFFICES ASSUME NEW r \in PreviewRoutes, ro[r] # Vacant
               PROVE  ro[r].route = r /\ byHost'[ro[r].host] = ro[r]
    BY Zenon
  <2>1. ro[r] \in PreviewEntries /\ ro[r].host \in Names
    BY EntryFacts DEF Maps
  <2>2. ro[r].route = r /\ ho[ro[r].host] = ro[r]
    BY Zenon DEF Maps
  <2> QED  BY <1>7, <2>1, <2>2, Zenon
<1>b. ASSUME NEW h \in Names, byHost'[h] # Vacant
      PROVE  /\ ro[byHost'[h].route] = byHost'[h]
             /\ byHost'[h].host = h \/ \E d \in Held(aliasesByID', byHost'[h].route) : aliasesByID'[d].host = h
  <2>1. CASE \E a \in taken : a.host = h
    <3>1. PICK a \in taken : a.host = h
      BY <2>1, Zenon
    <3>2. byHost'[h] = ro[a.route] /\ aliasesByID'[a.domain] = a /\ a.domain \in Domains /\ a # Vacant
      BY <1>2, <1>5, <3>1, Zenon
    <3>3. ro[a.route].route = a.route
      BY <1>2, <1>4, Zenon DEF Maps
    <3> QED  BY <3>1, <3>2, <3>3, Zenon DEF Held
  <2>2. CASE \A a \in taken : a.host # h
    <3>1. byHost'[h] = ho[h]
      BY <1>5, <2>2, Zenon
    <3>2. /\ ro[ho[h].route] = ho[h]
          /\ ho[h].host = h \/ \E d \in Held(al, ho[h].route) : al[d].host = h
      BY <1>b, <3>1, Zenon DEF Maps
    <3> QED  BY <1>6, <3>1, <3>2, Zenon DEF Held
  <2> QED  BY <2>1, <2>2, Zenon
<1>c. ASSUME NEW d \in Domains, aliasesByID'[d] # Vacant
      PROVE  /\ aliasesByID'[d].domain = d /\ aliasesByID'[d].host # ro[aliasesByID'[d].route].host
             /\ aliasesByID'[d] \in wanted
             /\ ro[aliasesByID'[d].route] # Vacant /\ ro[aliasesByID'[d].route].lease = aliasesByID'[d].lease
             /\ byHost'[aliasesByID'[d].host] = ro[aliasesByID'[d].route]
  <2>1. CASE \E a \in taken : a.domain = d
    BY <1>2, <1>4, <1>5, <2>1
  <2>2. CASE \A a \in taken : a.domain # d
    <3>1. aliasesByID'[d] = al[d] /\ al[d] # Vacant
      BY <1>5, <1>c, <2>2, Zenon
    <3>2. /\ al[d].domain = d /\ al[d].host # ro[al[d].route].host /\ al[d] \in wanted
          /\ ro[al[d].route] # Vacant /\ ro[al[d].route].lease = al[d].lease
          /\ ho[al[d].host] = ro[al[d].route]
      BY <3>1, Zenon DEF Maps
    <3>3. al[d].host \in Names
      BY <3>2, AliasFacts, Zenon DEF Maps
    <3> QED  BY <1>7, <3>1, <3>2, <3>3, Zenon
  <2> QED  BY <2>1, <2>2, Zenon
<1>d. Maps(byRoute', byHost', aliasesByID', wanted)
  <2> HIDE DEF taken, named, filed
  <2>1. ro \in [PreviewRoutes -> PreviewEntries \cup {Vacant}] /\ wanted \in AliasSets \cup {{}}
    BY Zenon DEF Maps
  <2>2. \A h \in Names : byHost'[h] # Vacant =>
           /\ ro[byHost'[h].route] = byHost'[h]
           /\ byHost'[h].host = h \/ \E d \in Held(aliasesByID', byHost'[h].route) : aliasesByID'[d].host = h
    BY <1>b, Zenon
  <2>3. \A d \in Domains : aliasesByID'[d] # Vacant =>
           /\ aliasesByID'[d].domain = d /\ aliasesByID'[d].host # ro[aliasesByID'[d].route].host
           /\ aliasesByID'[d] \in wanted
           /\ ro[aliasesByID'[d].route] # Vacant /\ ro[aliasesByID'[d].route].lease = aliasesByID'[d].lease
           /\ byHost'[aliasesByID'[d].host] = ro[aliasesByID'[d].route]
    BY <1>c, Zenon
  <2>4. Maps(ro, byHost', aliasesByID', wanted)
    BY <1>8, <1>9, <1>a, <2>1, <2>2, <2>3, Zenon DEF Maps
  <2> QED  BY <1>1, <2>4, Zenon
<1> QED  BY <1>1, <1>5, <1>6, <1>d, Zenon

(* Attach: the names of the attachment that is replaced go and those of the new *)
(* one come, while every other route keeps its own.                            *)
LEMMA AttachPreviewKeeps ==
  ASSUME AliasInv, NEW p \in PreviewEntries, AttachPreview(p)
  PROVE  AliasInv'
<1> DEFINE dropped == AliasesOf(p.route)
           gone == ManagedHost(p.route) \cup HostsOf(dropped)
           ro == [byRoute EXCEPT ![p.route] = p]
           ho == [WithoutHosts(gone) EXCEPT ![p.host] = p]
           al == WithoutAliases(dropped)
           some == {a \in desiredAliases : a.route = p.route}
<1>0. /\ activateDesiredAliases(some, ro, ho, al) /\ MayAttachPreview(p)
      /\ desiredAliases' = desiredAliases
  BY Zenon DEF AttachPreview
<1>1. Maps(byRoute, byHost, aliasesByID, desiredAliases) /\ DesiredAliasIsActive
  BY AliasInvIsMaps, Zenon
<1>2. p.route \in PreviewRoutes /\ p.host \in Names /\ p # Vacant
  BY EntryFacts, Zenon
<1>3. /\ ro \in [PreviewRoutes -> PreviewEntries \cup {Vacant}] /\ ro[p.route] = p
      /\ \A r \in PreviewRoutes : r # p.route => ro[r] = byRoute[r]
  <2>1. byRoute \in [PreviewRoutes -> PreviewEntries \cup {Vacant}]
    BY <1>1, Zenon DEF Maps
  <2> QED  BY <1>2, <2>1, Zenon
<1>4. /\ al \in [Domains -> (UNION AliasSets) \cup {Vacant}]
      /\ \A d \in Domains : al[d] = IF d \in dropped THEN Vacant ELSE aliasesByID[d]
  BY <1>1, Zenon DEF Maps, WithoutAliases
<1>5. /\ ho \in [Names -> PreviewEntries \cup {Vacant}] /\ ho[p.host] = p
      /\ \A h \in Names : h # p.host => ho[h] = IF h \in gone THEN Vacant ELSE byHost[h]
  <2>1. /\ WithoutHosts(gone) \in [Names -> PreviewEntries \cup {Vacant}]
        /\ \A h \in Names : WithoutHosts(gone)[h] = IF h \in gone THEN Vacant ELSE byHost[h]
    <3> HIDE DEF gone
    <3> QED  BY <1>1, Zenon DEF Maps, WithoutHosts
  <2> DEFINE before == WithoutHosts(gone)
  <2> HIDE DEF before, gone
  <2>2. ho = [before EXCEPT ![p.host] = p] /\ before \in [Names -> PreviewEntries \cup {Vacant}]
    BY <2>1, Zenon DEF before
  <2>3. \A h \in Names : before[h] = IF h \in gone THEN Vacant ELSE byHost[h]
    BY <2>1, Zenon DEF before
  <2> HIDE DEF ho
  <2> QED  BY <1>2, <2>2, <2>3, Zenon
(* What is removed led to the attachment that is replaced.                     *)
<1>6. \A h \in gone : h \in Names /\ byHost[h] = byRoute[p.route] /\ byRoute[p.route] # Vacant
  <2> SUFFICES ASSUME NEW h \in gone
               PROVE  h \in Names /\ byHost[h] = byRoute[p.route] /\ byRoute[p.route] # Vacant
    BY Zenon
  <2>1. CASE h \in ManagedHost(p.route)
    <3>1. byRoute[p.route] # Vacant /\ h = byRoute[p.route].host
      BY <2>1, Zenon DEF ManagedHost
    <3>2. byRoute[p.route] \in PreviewEntries
      BY <1>1, <1>2, <3>1 DEF Maps
    <3> QED  BY <1>1, <1>2, <3>1, <3>2, EntryFacts, Zenon DEF Maps
  <2>2. CASE h \in HostsOf(dropped)
    <3>1. PICK d \in Domains : aliasesByID[d] # Vacant /\ aliasesByID[d].route = p.route /\ h = aliasesByID[d].host
      BY <2>2, Zenon DEF HostsOf, AliasesOf
    <3>2. aliasesByID[d] \in desiredAliases /\ byHost[h] = byRoute[p.route] /\ byRoute[p.route] # Vacant
      BY <1>1, <3>1 DEF Maps
    <3>3. h \in Names
      BY <1>1, <3>1, <3>2, AliasFacts, Zenon DEF Maps
    <3> QED  BY <3>2, <3>3, Zenon
  <2> QED  BY <2>1, <2>2, Zenon
(* Every name of another route is left alone, and none leads to the old entry. *)
<1>7. ASSUME NEW h \in Names, byHost[h] # Vacant
      PROVE  /\ byHost[h].route # p.route => h # p.host /\ ho[h] = byHost[h]
             /\ byHost[h].route = p.route => h = p.host \/ ho[h] = Vacant
  <2>1. byHost[h] \in PreviewEntries /\ byRoute[byHost[h].route] = byHost[h] /\ byHost[h].route \in PreviewRoutes
    BY <1>1, <1>7, EntryFacts DEF Maps
  <2>2. CASE byHost[h].route # p.route
    <3>1. h # p.host
      BY <1>0, <1>7, <2>2, Zenon DEF MayAttachPreview
    <3>2. h \notin gone
      <4>1. SUFFICES ASSUME h \in gone PROVE FALSE
        BY Zenon
      <4>2. byHost[h] = byRoute[p.route] /\ byRoute[p.route] # Vacant
        BY <1>6, <4>1, Zenon
      <4>3. byRoute[p.route].route = p.route
        BY <1>1, <1>2, <4>2, Zenon DEF Maps
      <4> QED  BY <2>2, <4>2, <4>3, Zenon
    <3> HIDE DEF ho, gone
    <3> QED  BY <1>5, <2>2, <3>1, <3>2, Zenon
  <2>3. CASE byHost[h].route = p.route
    <3>1. h \in gone
      <4>1. byHost[h] = byRoute[p.route]
        BY <2>1, <2>3, Zenon
      <4>2. byHost[h].host = h \/ \E d \in Held(aliasesByID, p.route) : aliasesByID[d].host = h
        BY <1>1, <1>7, <2>3, Zenon DEF Maps
      <4> QED  BY <1>7, <4>1, <4>2, Zenon DEF ManagedHost, HostsOf, AliasesOf, Held
    <3> HIDE DEF ho, gone
    <3> QED  BY <1>5, <2>3, <3>1, Zenon
  <2> QED  BY <2>2, <2>3, Zenon
<1>8. ASSUME NEW d \in Domains, al[d] # Vacant
      PROVE  /\ al[d] = aliasesByID[d] /\ al[d] \in desiredAliases /\ al[d].domain = d
             /\ al[d].route \in PreviewRoutes /\ al[d].host \in Names /\ al[d].route # p.route
             /\ ro[al[d].route] = byRoute[al[d].route] /\ byRoute[al[d].route] # Vacant
             /\ byRoute[al[d].route].lease = al[d].lease /\ al[d].host # byRoute[al[d].route].host
             /\ ho[al[d].host] = byRoute[al[d].route]
  <2>1. al[d] = aliasesByID[d] /\ d \notin dropped
    BY <1>4, <1>8, Zenon
  <2>2. al[d].route # p.route
    BY <1>8, <2>1, Zenon DEF AliasesOf
  <2> HIDE DEF al, ho, ro
  <2>3. /\ al[d] \in desiredAliases /\ al[d].domain = d
        /\ byRoute[al[d].route] # Vacant /\ byRoute[al[d].route].lease = al[d].lease
        /\ al[d].host # byRoute[al[d].route].host /\ byHost[al[d].host] = byRoute[al[d].route]
    BY <1>1, <1>8, <2>1 DEF Maps
  <2>4. al[d].route \in PreviewRoutes /\ al[d].host \in Names
    BY <1>1, <2>3, AliasFacts, Zenon DEF Maps
  <2>5. byHost[al[d].host].route = al[d].route
    BY <1>1, <2>3, <2>4 DEF Maps
  <2> QED  BY <1>3, <1>7, <2>1, <2>2, <2>3, <2>4, <2>5, Zenon
<1>9. Maps(ro, ho, al, desiredAliases)
  <2>1. ASSUME NEW r \in PreviewRoutes, ro[r] # Vacant
        PROVE  ro[r].route = r /\ ho[ro[r].host] = ro[r]
    <3>1. CASE r = p.route
      <4> HIDE DEF ro, ho
      <4> QED  BY <1>3, <1>5, <3>1, Zenon
    <3>2. CASE r # p.route
      <4>1. ro[r] = byRoute[r]
        BY <1>3, <3>2, Zenon
      <4> HIDE DEF ro, ho
      <4>2. byRoute[r] \in PreviewEntries /\ byRoute[r].route = r /\ byHost[byRoute[r].host] = byRoute[r]
        BY <1>1, <2>1, <4>1 DEF Maps
      <4>3. byRoute[r].host \in Names
        BY <4>2, EntryFacts, Zenon
      <4> QED  BY <1>7, <2>1, <3>2, <4>1, <4>2, <4>3, Zenon
    <3> QED  BY <3>1, <3>2, Zenon
  <2>2. ASSUME NEW h \in Names, ho[h] # Vacant
        PROVE  /\ ro[ho[h].route] = ho[h]
               /\ ho[h].host = h \/ \E d \in Held(al, ho[h].route) : al[d].host = h
    <3>1. CASE h = p.host
      <4> HIDE DEF ro, ho
      <4> QED  BY <1>3, <1>5, <3>1, Zenon
    <3>2. CASE h # p.host
      <4> HIDE DEF ro, ho, al, gone
      <4>1. ho[h] = byHost[h] /\ byHost[h] # Vacant /\ byHost[h].route # p.route
        BY <1>5, <1>7, <2>2, <3>2, Zenon
      <4>2. /\ byRoute[byHost[h].route] = byHost[h] /\ byHost[h].route \in PreviewRoutes
            /\ byHost[h].host = h \/ \E d \in Held(aliasesByID, byHost[h].route) : aliasesByID[d].host = h
        BY <1>1, <4>1, EntryFacts DEF Maps
      <4>3. \A d \in Held(aliasesByID, byHost[h].route) : al[d] = aliasesByID[d]
        BY <1>4, <4>1, Zenon DEF Held, AliasesOf
      <4>4. Held(aliasesByID, byHost[h].route) \subseteq Held(al, byHost[h].route)
        BY <4>3, Zenon DEF Held
      <4> QED  BY <1>3, <4>1, <4>2, <4>3, <4>4, Zenon
    <3> QED  BY <3>1, <3>2, Zenon
  <2>3. desiredAliases \in AliasSets \cup {{}}
    BY <1>1, Zenon DEF Maps
  <2> HIDE DEF ro, ho, al
  <2>4. \A d \in Domains : al[d] # Vacant =>
           /\ al[d].domain = d /\ al[d].host # ro[al[d].route].host
           /\ al[d] \in desiredAliases
           /\ ro[al[d].route] # Vacant /\ ro[al[d].route].lease = al[d].lease
           /\ ho[al[d].host] = ro[al[d].route]
    BY <1>8
  <2> QED  BY <1>3, <1>4, <1>5, <2>1, <2>2, <2>3, <2>4, Zenon DEF Maps

<1>a. DesiredAliasIsActive'
  <2> SUFFICES ASSUME NEW a \in desiredAliases,
                      byRoute'[a.route] # Vacant, byRoute'[a.route].lease = a.lease,
                      \A q \in PreviewEntries : q.host # a.host
               PROVE  aliasesByID'[a.domain] = a
    BY <1>0, Zenon DEF DesiredAliasIsActive
  <2>0. /\ a \in UNION AliasSets /\ a.domain \in Domains /\ a.route \in PreviewRoutes /\ a.host \in Names
        /\ \A b \in desiredAliases : a.domain = b.domain \/ a.host = b.host => a = b
    BY <1>1, AliasFacts DEF Maps
  <2> HIDE DEF ro, ho, al, gone
  <2>1. /\ byRoute' = ro
        /\ \A b \in some : attachable(b, ro, ho, al) => aliasesByID'[b.domain] = b
        /\ \A d \in Domains : al[d] # Vacant => aliasesByID'[d] = al[d]
    <3> HIDE DEF some
    <3>1. some \in SUBSET desiredAliases
      BY Zenon DEF some
    <3> QED  BY <1>0, <1>9, <3>1, ActivateKeeps
  <2>2. CASE a.route = p.route
    <3>1. al[a.domain] = Vacant
      <4>1. SUFFICES ASSUME al[a.domain] # Vacant PROVE FALSE
        BY Zenon
      <4>2. al[a.domain] \in desiredAliases /\ al[a.domain].domain = a.domain /\ al[a.domain].route # p.route
        BY <1>8, <2>0, <4>1, Zenon
      <4> QED  BY <2>0, <2>2, <4>2, Zenon
    <3>2. ho[a.host] = Vacant
      <4>1. SUFFICES ASSUME ho[a.host] # Vacant PROVE FALSE
        BY Zenon
      <4>2. ho[a.host] \in PreviewEntries /\ ho[a.host].host # a.host
        BY <1>5, <2>0, <4>1, Zenon
      <4>3. PICK d \in Held(al, ho[a.host].route) : al[d].host = a.host
        BY <1>9, <2>0, <4>1, <4>2, Zenon DEF Maps
      <4>4. al[d] \in desiredAliases /\ al[d].route # p.route
        BY <1>8, <4>3, Zenon DEF Held
      <4> QED  BY <2>0, <2>2, <4>3, <4>4, Zenon
    <3>3. a.host # p.host
      BY Zenon
    <3>4. attachable(a, ro, ho, al)
      BY <1>2, <1>3, <2>1, <2>2, <3>1, <3>2, <3>3, Zenon DEF attachable
    <3> QED  BY <2>1, <2>2, <3>4, Zenon
  <2>3. CASE a.route # p.route
    <3>1. byRoute[a.route] = byRoute'[a.route]
      BY <1>3, <2>0, <2>1, <2>3, Zenon
    <3>2. aliasesByID[a.domain] = a
      BY <1>1, <3>1, Zenon DEF DesiredAliasIsActive
    <3>3. al[a.domain] = a /\ a # Vacant
      BY <1>1, <1>4, <2>0, <2>3, <3>2, AliasFacts DEF AliasesOf, Maps
    <3> QED  BY <2>0, <2>1, <3>3, Zenon
  <2> QED  BY <2>2, <2>3, Zenon
<1>b. Maps(byRoute', byHost', aliasesByID', desiredAliases')
  <2> HIDE DEF ro, ho, al, some
  <2>1. some \in SUBSET desiredAliases
    BY Zenon DEF some
  <2>2. Maps(byRoute', byHost', aliasesByID', desiredAliases)
    BY <1>0, <1>9, <2>1, ActivateKeeps, Zenon
  <2> QED  BY <1>0, <2>2, Zenon
<1> QED  BY <1>a, <1>b, AliasInvIsMapsNext, Zenon

(* Detach: the route goes with its managed name and its aliases.               *)
LEMMA DetachPreviewKeeps ==
  ASSUME AliasInv, NEW r \in PreviewRoutes, DetachPreview(r)
  PROVE  AliasInv'
<1> DEFINE dropped == AliasesOf(r)
           gone == ManagedHost(r) \cup HostsOf(dropped)
<1>0. /\ byRoute[r] # Vacant /\ byRoute' = [byRoute EXCEPT ![r] = Vacant]
      /\ byHost' = WithoutHosts(gone) /\ aliasesByID' = WithoutAliases(dropped)
      /\ desiredAliases' = desiredAliases
  BY Zenon DEF DetachPreview
<1>1. Maps(byRoute, byHost, aliasesByID, desiredAliases) /\ DesiredAliasIsActive
  BY AliasInvIsMaps, Zenon
<1>2. /\ byRoute' \in [PreviewRoutes -> PreviewEntries \cup {Vacant}] /\ byRoute'[r] = Vacant
      /\ \A q \in PreviewRoutes : q # r => byRoute'[q] = byRoute[q]
  <2>1. byRoute \in [PreviewRoutes -> PreviewEntries \cup {Vacant}]
    BY <1>1, Zenon DEF Maps
  <2> QED  BY <1>0, <2>1, Zenon
<1>3. /\ aliasesByID' \in [Domains -> (UNION AliasSets) \cup {Vacant}]
      /\ \A d \in Domains : aliasesByID'[d] = IF d \in dropped THEN Vacant ELSE aliasesByID[d]
  <2> HIDE DEF dropped
  <2> QED  BY <1>0, <1>1, Zenon DEF Maps, WithoutAliases
<1>4. /\ byHost' \in [Names -> PreviewEntries \cup {Vacant}]
      /\ \A h \in Names : byHost'[h] = IF h \in gone THEN Vacant ELSE byHost[h]
  <2> HIDE DEF gone
  <2> QED  BY <1>0, <1>1, Zenon DEF Maps, WithoutHosts
<1>5. ASSUME NEW h \in Names, byHost[h] # Vacant
      PROVE  h \in gone <=> byHost[h].route = r
  <2>1. /\ byRoute[byHost[h].route] = byHost[h]
        /\ byHost[h].host = h \/ \E d \in Held(aliasesByID, byHost[h].route) : aliasesByID[d].host = h
    BY <1>1, <1>5, Zenon DEF Maps
  <2>2. ASSUME byHost[h].route = r PROVE h \in gone
    BY <1>0, <2>1, <2>2, Zenon DEF ManagedHost, HostsOf, AliasesOf, Held
  <2>3. byRoute[r].route = r /\ byHost[byRoute[r].host] = byRoute[r]
    BY <1>0, <1>1, Zenon DEF Maps
  <2>4. ASSUME h \in HostsOf(dropped) PROVE byHost[h].route = r
    <3>1. PICK d \in Domains : aliasesByID[d] # Vacant /\ aliasesByID[d].route = r /\ h = aliasesByID[d].host
      BY <2>4, Zenon DEF HostsOf, AliasesOf
    <3> QED  BY <1>1, <2>3, <3>1, Zenon DEF Maps
  <2>5. ASSUME h \in ManagedHost(r) PROVE byHost[h].route = r
    BY <2>3, <2>5, <1>0, Zenon DEF ManagedHost
  <2> QED  BY <2>2, <2>4, <2>5, Zenon
<1>6. ASSUME NEW q \in PreviewRoutes, byRoute'[q] # Vacant
      PROVE  byRoute'[q].route = q /\ byHost'[byRoute'[q].host] = byRoute'[q]
  <2>1. q # r /\ byRoute'[q] = byRoute[q] /\ byRoute[q] # Vacant
    BY <1>2, <1>6, Zenon
  <2>2. byRoute[q] \in PreviewEntries /\ byRoute[q].route = q /\ byHost[byRoute[q].host] = byRoute[q]
    BY <1>1, <2>1 DEF Maps
  <2>3. byRoute[q].host \in Names
    BY <2>2, EntryFacts, Zenon
  <2> HIDE DEF gone
  <2> QED  BY <1>4, <1>5, <2>1, <2>2, <2>3, Zenon
<1>7. ASSUME NEW h \in Names, byHost'[h] # Vacant
      PROVE  /\ byRoute'[byHost'[h].route] = byHost'[h]
             /\ byHost'[h].host = h \/ \E d \in Held(aliasesByID', byHost'[h].route) : aliasesByID'[d].host = h
  <2> HIDE DEF gone
  <2>1. byHost'[h] = byHost[h] /\ byHost[h] # Vacant /\ byHost[h].route # r
    BY <1>4, <1>5, <1>7, Zenon
  <2>2. /\ byHost[h].route \in PreviewRoutes /\ byRoute[byHost[h].route] = byHost[h]
        /\ byHost[h].host = h \/ \E d \in Held(aliasesByID, byHost[h].route) : aliasesByID[d].host = h
    BY <1>1, <2>1, EntryFacts DEF Maps
  <2>3. \A d \in Held(aliasesByID, byHost[h].route) : aliasesByID'[d] = aliasesByID[d]
    BY <1>3, <2>1, Zenon DEF Held, AliasesOf
  <2>4. Held(aliasesByID, byHost[h].route) \subseteq Held(aliasesByID', byHost[h].route)
    BY <2>3, Zenon DEF Held
  <2> QED  BY <1>2, <2>1, <2>2, <2>3, <2>4, Zenon
<1>8. ASSUME NEW d \in Domains, aliasesByID'[d] # Vacant
      PROVE  /\ aliasesByID'[d].domain = d /\ aliasesByID'[d].host # byRoute'[aliasesByID'[d].route].host
             /\ aliasesByID'[d] \in desiredAliases
             /\ byRoute'[aliasesByID'[d].route] # Vacant
             /\ byRoute'[aliasesByID'[d].route].lease = aliasesByID'[d].lease
             /\ byHost'[aliasesByID'[d].host] = byRoute'[aliasesByID'[d].route]
  <2>1. aliasesByID'[d] = aliasesByID[d] /\ aliasesByID[d] # Vacant /\ aliasesByID[d].route # r
    BY <1>3, <1>8, Zenon DEF AliasesOf
  <2> DEFINE a == aliasesByID[d]
  <2>2. /\ a.domain = d /\ a.host # byRoute[a.route].host /\ a \in desiredAliases
        /\ byRoute[a.route] # Vacant /\ byRoute[a.route].lease = a.lease
        /\ byHost[a.host] = byRoute[a.route]
    BY <1>1, <2>1, Zenon DEF Maps
  <2>3. a.route \in PreviewRoutes /\ a.host \in Names
    BY <1>1, <2>2, AliasFacts, Zenon DEF Maps
  <2>4. byHost[a.host].route = a.route
    BY <1>1, <2>2, <2>3 DEF Maps
  <2> HIDE DEF gone
  <2> QED  BY <1>2, <1>4, <1>5, <2>1, <2>2, <2>3, <2>4, Zenon
<1>9. Maps(byRoute', byHost', aliasesByID', desiredAliases)
  <2>1. desiredAliases \in AliasSets \cup {{}}
    BY <1>1, Zenon DEF Maps
  <2>2. \A h \in Names : byHost'[h] # Vacant =>
           /\ byRoute'[byHost'[h].route] = byHost'[h]
           /\ byHost'[h].host = h \/ \E d \in Held(aliasesByID', byHost'[h].route) : aliasesByID'[d].host = h
    BY <1>7, Zenon
  <2>3. \A d \in Domains : aliasesByID'[d] # Vacant =>
           /\ aliasesByID'[d].domain = d /\ aliasesByID'[d].host # byRoute'[aliasesByID'[d].route].host
           /\ aliasesByID'[d] \in desiredAliases
           /\ byRoute'[aliasesByID'[d].route] # Vacant
           /\ byRoute'[aliasesByID'[d].route].lease = aliasesByID'[d].lease
           /\ byHost'[aliasesByID'[d].host] = byRoute'[aliasesByID'[d].route]
    BY <1>8, Zenon
  <2>4. \A q \in PreviewRoutes : byRoute'[q] # Vacant =>
           byRoute'[q].route = q /\ byHost'[byRoute'[q].host] = byRoute'[q]
    BY <1>6, Zenon
  <2> QED  BY <1>2, <1>3, <1>4, <2>1, <2>2, <2>3, <2>4, Zenon DEF Maps
<1>a. DesiredAliasIsActive'
  <2> SUFFICES ASSUME NEW a \in desiredAliases,
                      byRoute'[a.route] # Vacant, byRoute'[a.route].lease = a.lease,
                      \A q \in PreviewEntries : q.host # a.host
               PROVE  aliasesByID'[a.domain] = a
    BY <1>0, Zenon DEF DesiredAliasIsActive
  <2>1. a.domain \in Domains /\ a.route \in PreviewRoutes /\ a.route # r /\ byRoute[a.route] = byRoute'[a.route]
    BY <1>1, <1>2, AliasFacts, Zenon DEF Maps
  <2>2. aliasesByID[a.domain] = a
    BY <1>1, <2>1, Zenon DEF DesiredAliasIsActive
  <2> QED  BY <1>3, <2>1, <2>2, Zenon DEF AliasesOf
<1> QED  BY <1>0, <1>9, <1>a, AliasInvIsMapsNext, Zenon

(* ReconcilePreviewAliases: what the new snapshot no longer holds goes, the    *)
(* rest stays, and what it adds is activated.                                  *)
LEMMA ReconcilePreviewAliasesKeeps ==
  ASSUME AliasInv, NEW next \in AliasSets, ReconcilePreviewAliases(next)
  PROVE  AliasInv'
<1> DEFINE dropped == {d \in Domains : aliasesByID[d] # Vacant /\ aliasesByID[d] \notin next}
           ho == WithoutHosts(HostsOf(dropped))
           al == WithoutAliases(dropped)
<1>0. desiredAliases' = next /\ activateDesiredAliases(next, byRoute, ho, al)
  BY Zenon DEF ReconcilePreviewAliases
<1>1. Maps(byRoute, byHost, aliasesByID, desiredAliases) /\ next \in AliasSets \cup {{}}
  BY AliasInvIsMaps, Zenon
<1>3. /\ al \in [Domains -> (UNION AliasSets) \cup {Vacant}]
      /\ \A d \in Domains : al[d] = IF d \in dropped THEN Vacant ELSE aliasesByID[d]
  <2> HIDE DEF dropped
  <2> QED  BY <1>1, Zenon DEF Maps, WithoutAliases
<1>4. /\ ho \in [Names -> PreviewEntries \cup {Vacant}]
      /\ \A h \in Names : ho[h] = IF h \in HostsOf(dropped) THEN Vacant ELSE byHost[h]
  <2> DEFINE gone == HostsOf(dropped)
  <2> HIDE DEF gone
  <2>1. ho = WithoutHosts(gone)
    BY Zenon DEF gone
  <2>2. /\ ho \in [Names -> PreviewEntries \cup {Vacant}]
        /\ \A h \in Names : ho[h] = IF h \in gone THEN Vacant ELSE byHost[h]
    <3> HIDE DEF ho
    <3> QED  BY <1>1, <2>1, Zenon DEF Maps, WithoutHosts
  <2> QED  BY <2>2, Zenon DEF gone
<1>5. \A d \in Domains : aliasesByID[d] # Vacant =>
         /\ aliasesByID[d].domain = d /\ aliasesByID[d].host # byRoute[aliasesByID[d].route].host
         /\ aliasesByID[d] \in desiredAliases
         /\ byRoute[aliasesByID[d].route] # Vacant
         /\ byRoute[aliasesByID[d].route].lease = aliasesByID[d].lease
         /\ byHost[aliasesByID[d].host] = byRoute[aliasesByID[d].route]
         /\ aliasesByID[d].host \in Names /\ aliasesByID[d].route \in PreviewRoutes
         /\ \A e \in Domains : aliasesByID[e] # Vacant /\ aliasesByID[e].host = aliasesByID[d].host => e = d
  BY <1>1, AliasFacts DEF Maps
(* A managed name is not the name of an alias.                                 *)
<1>6. ASSUME NEW q \in PreviewRoutes, byRoute[q] # Vacant
      PROVE  /\ byRoute[q].route = q /\ byRoute[q].host \in Names
             /\ byRoute[q].host \notin HostsOf(dropped) /\ ho[byRoute[q].host] = byRoute[q]
  <2>1. byRoute[q] \in PreviewEntries /\ byRoute[q].route = q /\ byHost[byRoute[q].host] = byRoute[q]
    BY <1>1, <1>6 DEF Maps
  <2>2. byRoute[q].host \in Names
    BY <2>1, EntryFacts, Zenon
  <2>3. byRoute[q].host \notin HostsOf(dropped)
    <3>1. SUFFICES ASSUME NEW d \in dropped, byRoute[q].host = aliasesByID[d].host PROVE FALSE
      BY Zenon DEF HostsOf
    <3>2. /\ byHost[aliasesByID[d].host] = byRoute[aliasesByID[d].route]
          /\ aliasesByID[d].host # byRoute[aliasesByID[d].route].host
      BY <1>5, <3>1, Zenon
    <3> QED  BY <2>1, <3>1, <3>2, Zenon
  <2> HIDE DEF ho, dropped
  <2> QED  BY <1>4, <2>1, <2>2, <2>3, Zenon
<1>7. ASSUME NEW h \in Names, ho[h] # Vacant
      PROVE  /\ byRoute[ho[h].route] = ho[h]
             /\ ho[h].host = h \/ \E d \in Held(al, ho[h].route) : al[d].host = h
  <2>1. ho[h] = byHost[h] /\ byHost[h] # Vacant /\ h \notin HostsOf(dropped)
    BY <1>4, <1>7, Zenon
  <2> HIDE DEF ho, al
  <2>2. /\ byRoute[byHost[h].route] = byHost[h]
        /\ byHost[h].host = h \/ \E d \in Held(aliasesByID, byHost[h].route) : aliasesByID[d].host = h
    BY <1>1, <2>1, Zenon DEF Maps
  <2>3. \A d \in Held(aliasesByID, byHost[h].route) : aliasesByID[d].host = h => al[d] = aliasesByID[d]
    BY <1>3, <2>1, Zenon DEF Held, HostsOf
  <2> QED  BY <2>1, <2>2, <2>3, Zenon DEF Held
<1>8. ASSUME NEW d \in Domains, al[d] # Vacant
      PROVE  /\ al[d] = aliasesByID[d] /\ al[d] \in next /\ ho[al[d].host] = byHost[al[d].host]
  <2>1. al[d] = aliasesByID[d] /\ d \notin dropped
    BY <1>3, <1>8, Zenon
  <2>2. al[d] \in next
    BY <1>8, <2>1, Zenon
  <2>3. al[d].host \in Names /\ al[d].host \notin HostsOf(dropped)
    BY <1>5, <1>8, <2>1 DEF HostsOf
  <2> HIDE DEF ho, al, dropped
  <2> QED  BY <1>4, <2>1, <2>2, <2>3, Zenon
<1>9. Maps(byRoute, ho, al, next)
  <2> HIDE DEF ho, al, dropped
  <2>1. \A h \in Names : ho[h] # Vacant =>
           /\ byRoute[ho[h].route] = ho[h]
           /\ ho[h].host = h \/ \E d \in Held(al, ho[h].route) : al[d].host = h
    BY <1>7, Zenon
  <2>2. \A d \in Domains : al[d] # Vacant =>
           /\ al[d].domain = d /\ al[d].host # byRoute[al[d].route].host
           /\ al[d] \in next
           /\ byRoute[al[d].route] # Vacant /\ byRoute[al[d].route].lease = al[d].lease
           /\ ho[al[d].host] = byRoute[al[d].route]
    BY <1>5, <1>8
  <2>3. \A q \in PreviewRoutes : byRoute[q] # Vacant =>
           byRoute[q].route = q /\ ho[byRoute[q].host] = byRoute[q]
    BY <1>6, Zenon
  <2>4. byRoute \in [PreviewRoutes -> PreviewEntries \cup {Vacant}]
    BY <1>1, Zenon DEF Maps
  <2> QED  BY <1>1, <1>3, <1>4, <2>1, <2>2, <2>3, <2>4, Zenon DEF Maps
<1>a. /\ Maps(byRoute', byHost', aliasesByID', next) /\ byRoute' = byRoute
      /\ \A a \in next : attachable(a, byRoute, ho, al) => aliasesByID'[a.domain] = a
      /\ \A d \in Domains : al[d] # Vacant => aliasesByID'[d] = al[d]
  <2> HIDE DEF ho, al
  <2>1. next \in SUBSET next
    BY Zenon
  <2> QED  BY <1>0, <1>9, <2>1, ActivateKeeps, Zenon
<1>b. DesiredAliasIsActive'
  <2> SUFFICES ASSUME NEW a \in next,
                      byRoute'[a.route] # Vacant, byRoute'[a.route].lease = a.lease,
                      \A q \in PreviewEntries : q.host # a.host
               PROVE  aliasesByID'[a.domain] = a
    BY <1>0, Zenon DEF DesiredAliasIsActive
  <2>0. /\ a.domain \in Domains /\ a.route \in PreviewRoutes /\ a.host \in Names
        /\ \A b \in next : a.domain = b.domain \/ a.host = b.host => a = b
    BY <1>1, AliasFacts, Zenon
  <2> HIDE DEF ho, al, dropped
  <2>1. CASE al[a.domain] # Vacant
    <3>1. al[a.domain] \in next /\ al[a.domain].domain = a.domain
      BY <1>9, <2>0, <2>1, Zenon DEF Maps
    <3> QED  BY <1>a, <2>0, <2>1, <3>1, Zenon
  <2>2. CASE al[a.domain] = Vacant
    <3>1. ho[a.host] = Vacant
      <4>1. SUFFICES ASSUME ho[a.host] # Vacant PROVE FALSE
        BY Zenon
      <4>2. ho[a.host] \in PreviewEntries /\ ho[a.host].host # a.host
        BY <1>4, <2>0, <4>1, Zenon
      <4>3. PICK d \in Held(al, ho[a.host].route) : al[d].host = a.host
        BY <1>7, <2>0, <4>1, <4>2, Zenon
      <4>4. al[d] \in next /\ al[d].domain = d /\ al[d] # Vacant
        BY <1>9, <4>3, Zenon DEF Held, Maps
      <4> QED  BY <2>0, <2>2, <4>3, <4>4, Zenon
    <3>2. byRoute[a.route] \in PreviewEntries
      BY <1>1, <1>a, <2>0 DEF Maps
    <3>3. attachable(a, byRoute, ho, al)
      BY <1>a, <2>2, <3>1, <3>2, Zenon DEF attachable
    <3> QED  BY <1>a, <3>3, Zenon
  <2> QED  BY <2>1, <2>2, Zenon
<1> QED  BY <1>0, <1>a, <1>b, AliasInvIsMapsNext, Zenon

(* preview_carrier_transport.go and preview_carrier_alias.go: the four maps    *)
(* agree, for any routes, names, domains and snapshots.                        *)
THEOREM AliasInvariant == AliasSpec => []AliasInv
<1>1. AliasInit => AliasInv
  BY Zenon DEF AliasInit, AliasInv, ManagedNameLeadsHome, NameHasItsReason, AliasIsFiled,
         ActiveAliasIsProjected, DesiredAliasIsActive
<1>2. AliasInv /\ [AliasNext]_aliasVars => AliasInv'
  <2> SUFFICES ASSUME AliasInv, [AliasNext]_aliasVars PROVE AliasInv'
    BY Zenon
  <2>1. CASE UNCHANGED aliasVars
    BY <2>1 DEF aliasVars, AliasInv, ManagedNameLeadsHome, NameHasItsReason, AliasIsFiled,
                ActiveAliasIsProjected, DesiredAliasIsActive, AliasesOf
  <2>2. CASE CloseGateway
    BY <2>2, Zenon DEF CloseGateway, AliasInv, ManagedNameLeadsHome, NameHasItsReason, AliasIsFiled,
                ActiveAliasIsProjected, DesiredAliasIsActive
  <2> QED  BY <2>1, <2>2, AttachPreviewKeeps, DetachPreviewKeeps, ReconcilePreviewAliasesKeeps, Zenon DEF AliasNext
<1> QED  BY <1>1, <1>2, PTL DEF AliasSpec

(* lookupHostLocked: whatever was attached, replaced, detached and projected,  *)
(* a name leads to the current attachment of its route, through the managed    *)
(* name or an active alias of that route.                                      *)
THEOREM LookupsAreCurrent == AliasSpec => []LookupIsCurrent
<1>1. AliasInv => LookupIsCurrent
  <2> SUFFICES ASSUME AliasInv, NEW h \in Names, lookupHost(h) # Vacant
               PROVE  LET p == lookupHost(h)
                          through == {h, WildcardOf[h]}
                      IN  /\ byRoute[p.route] = p
                          /\ \/ p.host \in through
                             \/ \E d \in AliasesOf(p.route) : aliasesByID[d].host \in through
    BY Zenon DEF LookupIsCurrent
  <2>1. PICK g \in {h, WildcardOf[h]} \cap Names : lookupHost(h) = byHost[g]
    BY AliasAssumption, Zenon DEF lookupHost
  <2>2. /\ byRoute[byHost[g].route] = byHost[g]
        /\ byHost[g].host = g \/ \E d \in AliasesOf(byHost[g].route) : aliasesByID[d].host = g
    BY <2>1, Zenon DEF AliasInv, NameHasItsReason
  <2> QED  BY <2>1, <2>2, Zenon
<1> QED  BY <1>1, AliasInvariant, PTL

(* ReconcilePreviewAliases and Attach: an alias that is wanted is active       *)
(* whenever its route is attached with its lease, and an active one is part of *)
(* the snapshot last accepted.                                                 *)
THEOREM AliasesFollowTheirSnapshot == AliasSpec => [](ActiveAliasIsProjected /\ DesiredAliasIsActive)
<1>1. AliasInv => ActiveAliasIsProjected /\ DesiredAliasIsActive
  BY Zenon DEF AliasInv
<1> QED  BY <1>1, AliasInvariant, PTL

-----------------------------------------------------------------------------
(* AdmissionJournal                                                            *)

(* A request that the journal answers: it has its entry, or gets one that      *)
(* conflicts with none.                                                        *)
LEMMA AdmitKeeps ==
    ASSUME JournalInv, NEW q \in Requests, Admit(q)
    PROVE  JournalInv'
<1>0. /\ journal \in [Requests -> Nat] /\ saved \in [Requests -> Nat] /\ runs \in Nat
      /\ answers \in [Requests -> SUBSET (Nat \ {NoRun})] /\ ~Expired(q)
      /\ saved' = saved /\ spent' = spent /\ runs' = runs + 1
  BY Zenon DEF JournalInv, JournalTypeOK, Admit, Expired
<1>1. \A p \in Requests : Expired(p)' <=> Expired(p)
  BY <1>0, Zenon DEF Expired
<1>2. CASE ~Consumable(journal, q)
  <2>1. journal' = journal /\ answers' = answers
    BY <1>2, Zenon DEF Admit
  <2> QED  BY <2>1, <1>0, <1>1
           DEF JournalInv, JournalTypeOK, Distinct, Entries, AnswersAreRecorded, AdmissionIsSingleUse,
               RepeatedRequestKeepsItsRun
<1>3. CASE Consumable(journal, q)
  <2> DEFINE r == journal'[q]
  <2>1. journal' = Consumed(journal, q, runs + 1) /\ answers' = [answers EXCEPT ![q] = @ \cup {r}]
    BY <1>3, <1>0, Zenon DEF Admit
  <2>2. /\ journal' \in [Requests -> Nat] /\ r # NoRun /\ r \in Nat
        /\ \A p \in Requests \ {q} : journal'[p] = journal[p]
        /\ journal[q] # NoRun => r = journal[q]
    BY <2>1, <1>0 DEF Consumed, NoRun
  <2> HIDE DEF r
  <2>3. answers'[q] = answers[q] \cup {r} /\ \A p \in Requests \ {q} : answers'[p] = answers[p]
    BY <2>1, <1>0, Zenon
  <2>4. answers[q] \subseteq {r} /\ (saved[q] # NoRun => saved[q] = r)
    <3>1. CASE journal[q] = NoRun
      BY <3>1, <1>0, Zenon DEF JournalInv, AnswersAreRecorded
    <3>2. CASE journal[q] # NoRun
      BY <3>2, <2>2, <1>0, Zenon DEF JournalInv, AnswersAreRecorded
    <3> QED  BY <3>1, <3>2, Zenon
  <2>5. answers'[q] = {r}
    BY <2>3, <2>4, Zenon
  <2>6. \A p \in Entries(journal) : p # q => ~SameOperation(p, q) /\ ~SameJTI(p, q)
    <3>1. CASE q \in Entries(journal)
      BY <3>1, Zenon DEF JournalInv, Distinct
    <3>2. CASE q \notin Entries(journal)
      BY <1>3, <3>2, Zenon DEF Consumable
    <3> QED  BY <3>1, <3>2, Zenon
  <2>7. JournalTypeOK'
    <3>1. answers' \in [Requests -> SUBSET (Nat \ {NoRun})]
      BY <2>1, <2>2, <1>0, Zenon
    <3> QED  BY <3>1, <2>2, <1>0 DEF JournalTypeOK
  <2>8. Distinct(journal)'
    <3>1. \A p, s \in Requests : SameOperation(p, s) <=> SameOperation(s, p)
      BY Zenon DEF SameOperation
    <3>2. \A p, s \in Requests : SameJTI(p, s) <=> SameJTI(s, p)
      BY Zenon DEF SameJTI
    <3>3. \A p \in Entries(journal)' : p \in Requests /\ (p = q \/ p \in Entries(journal))
      BY <2>2, Zenon DEF Entries
    <3>4. \A p, s \in Entries(journal) : p # s => ~SameOperation(p, s) /\ ~SameJTI(p, s)
      BY Zenon DEF JournalInv, Distinct
    <3>5. \A p, s \in Entries(journal)' : p # s => ~SameOperation(p, s) /\ ~SameJTI(p, s)
      BY <3>1, <3>2, <3>3, <3>4, <2>6, Zenon
    <3> QED  BY <3>5, Zenon DEF Distinct
  <2>9. Distinct(saved)'
    BY <1>0, Zenon DEF JournalInv, Distinct, Entries
  <2>10. AnswersAreRecorded'
    <3> SUFFICES ASSUME NEW p \in Requests
                 PROVE  /\ answers'[p] # {} => journal'[p] # NoRun \/ Expired(p)'
                        /\ saved'[p] # NoRun => journal'[p] = saved'[p] \/ Expired(p)'
                        /\ journal'[p] # NoRun => answers'[p] \subseteq {journal'[p]}
                        /\ saved'[p] # NoRun => answers'[p] \subseteq {saved'[p]}
      BY Zenon DEF AnswersAreRecorded
    <3>1. CASE p = q
      BY <3>1, <2>2, <2>4, <2>5, <1>0, Zenon DEF r
    <3>2. CASE p # q
      BY <3>2, <2>2, <2>3, <1>0, <1>1, Zenon DEF JournalInv, AnswersAreRecorded
    <3> QED  BY <3>1, <3>2, Zenon
  <2>11. AdmissionIsSingleUse'
    <3>1. ASSUME NEW p \in Requests, answers[p] # {}, p # q
          PROVE  ~SameJTI(p, q) /\ ~SameJTI(q, p)
                 /\ (SameOperation(p, q) \/ SameOperation(q, p) => Expired(p))
      <4>1. CASE p \in Entries(journal)
        BY <4>1, <3>1, <2>6, Zenon DEF SameJTI, SameOperation
      <4>2. CASE p \notin Entries(journal)
        BY <4>2, <3>1, <1>0, Zenon DEF JournalInv, AnswersAreRecorded, Entries, SameJTI, Expired
      <4> QED  BY <4>1, <4>2, Zenon
    <3> SUFFICES ASSUME NEW p \in Requests, NEW s \in Requests, answers'[p] # {}, answers'[s] # {}, p # s
                 PROVE  ~SameJTI(p, s) /\ (SameOperation(p, s) => Expired(p)' \/ Expired(s)')
      BY Zenon DEF AdmissionIsSingleUse, SameJTI, SameOperation
    <3>2. CASE p # q /\ s # q
      BY <3>2, <2>3, <1>1, Zenon DEF JournalInv, AdmissionIsSingleUse
    <3>3. CASE p = q
      BY <3>1, <3>3, <2>3, <1>1, Zenon
    <3>4. CASE s = q
      BY <3>1, <3>4, <2>3, <1>1, Zenon
    <3> QED  BY <3>2, <3>3, <3>4, Zenon
  <2>12. RepeatedRequestKeepsItsRun'
    BY <2>3, <2>5 DEF JournalInv, RepeatedRequestKeepsItsRun
  <2> QED  BY <2>7, <2>8, <2>9, <2>10, <2>11, <2>12, Zenon DEF JournalInv
<1> QED  BY <1>2, <1>3, Zenon

LEMMA RemovalKeeps ==
    ASSUME JournalInv, RemoveExpired
    PROVE  JournalInv'
<1>0. journal \in [Requests -> Nat] /\ NoRun \in Nat /\ UNCHANGED <<saved, answers, runs, spent>>
  BY Zenon DEF JournalInv, JournalTypeOK, RemoveExpired, NoRun
<1>1. \A p \in Requests : /\ Expired(p)' <=> Expired(p)
                          /\ journal'[p] = IF Expired(p) THEN NoRun ELSE journal[p]
  BY <1>0, Zenon DEF RemoveExpired, Expired
<1>2. Entries(journal)' \subseteq Entries(journal)
  BY <1>1, Zenon DEF Entries
<1>3. Distinct(journal)' /\ Distinct(saved)'
  BY <1>0, <1>2, Zenon DEF JournalInv, Distinct, Entries
<1>4. JournalTypeOK'
  BY <1>0, Zenon DEF JournalInv, JournalTypeOK, RemoveExpired
<1>5. AnswersAreRecorded'
  BY <1>0, <1>1, Zenon DEF JournalInv, AnswersAreRecorded
<1> QED  BY <1>0, <1>1, <1>3, <1>4, <1>5, Zenon
         DEF JournalInv, AdmissionIsSingleUse, RepeatedRequestKeepsItsRun

LEMMA RestoreKeeps ==
    ASSUME JournalInv, RestoreJournal
    PROVE  JournalInv'
<1>0. /\ journal' = saved /\ saved' = saved /\ runs' = runs /\ spent' = spent
      /\ saved \in [Requests -> Nat] /\ answers \in [Requests -> SUBSET (Nat \ {NoRun})]
  BY Zenon DEF JournalInv, JournalTypeOK, RestoreJournal
<1>1. \A p \in Requests : /\ Expired(p)' <=> Expired(p)
                          /\ answers'[p] = IF Expired(p) \/ saved[p] # NoRun THEN answers[p] ELSE {}
  BY <1>0, Zenon DEF RestoreJournal, Expired
<1>2. Distinct(journal)' /\ Distinct(saved)'
  BY <1>0, Zenon DEF JournalInv, Distinct, Entries
<1>3. JournalTypeOK'
  BY <1>0, Zenon DEF JournalInv, JournalTypeOK, RestoreJournal
<1>4. AnswersAreRecorded'
  BY <1>0, <1>1, Zenon DEF JournalInv, AnswersAreRecorded
<1>5. AdmissionIsSingleUse' /\ RepeatedRequestKeepsItsRun'
  BY <1>1, Zenon DEF JournalInv, AdmissionIsSingleUse, RepeatedRequestKeepsItsRun, SameJTI, SameOperation
<1> QED  BY <1>2, <1>3, <1>4, <1>5, Zenon DEF JournalInv

LEMMA SaveKeeps ==
    ASSUME JournalInv, SaveJournal \/ UNCHANGED journalVars
    PROVE  JournalInv'
<1>0. journal' = journal /\ saved' \in {saved, journal} /\ UNCHANGED <<answers, runs, spent>>
  BY Zenon DEF SaveJournal, journalVars
<1>1. \A p \in Requests : Expired(p)' <=> Expired(p)
  BY <1>0, Zenon DEF Expired
<1>2. Distinct(journal)' /\ Distinct(saved)'
  BY <1>0, Zenon DEF JournalInv, Distinct, Entries
<1>3. JournalTypeOK'
  BY <1>0, Zenon DEF JournalInv, JournalTypeOK
<1>4. AnswersAreRecorded'
  BY <1>0, <1>1, Zenon DEF JournalInv, AnswersAreRecorded
<1> QED  BY <1>0, <1>1, <1>2, <1>3, <1>4, Zenon
         DEF JournalInv, AdmissionIsSingleUse, RepeatedRequestKeepsItsRun

LEMMA ExpiryKeeps ==
    ASSUME JournalInv, NEW q \in Requests, CredentialExpires(q)
    PROVE  JournalInv'
<1>0. UNCHANGED <<journal, saved, answers, runs>>
  BY Zenon DEF CredentialExpires
<1>1. \A p \in Requests : Expired(p) => Expired(p)'
  BY Zenon DEF CredentialExpires, Expired
<1>2. Distinct(journal)' /\ Distinct(saved)'
  BY <1>0, Zenon DEF JournalInv, Distinct, Entries
<1>3. JournalTypeOK'
  BY <1>0, Zenon DEF JournalInv, JournalTypeOK
<1>4. AnswersAreRecorded'
  BY <1>0, <1>1, Zenon DEF JournalInv, AnswersAreRecorded
<1>5. AdmissionIsSingleUse' /\ RepeatedRequestKeepsItsRun'
  BY <1>0, <1>1, Zenon DEF JournalInv, AdmissionIsSingleUse, RepeatedRequestKeepsItsRun
<1> QED  BY <1>2, <1>3, <1>4, <1>5, Zenon DEF JournalInv

(* operation.Journal under admission.Service.Admit: its entries conflict with  *)
(* none of each other, and with none of the decisions it has handed out.       *)
THEOREM JournalInvariant == JournalSpec => []JournalInv
<1>1. JournalInit => JournalInv
  BY DEF JournalInit, JournalInv, JournalTypeOK, Distinct, Entries, AnswersAreRecorded, AdmissionIsSingleUse,
         RepeatedRequestKeepsItsRun, NoRun
<1>2. JournalInv /\ [JournalNext]_journalVars => JournalInv'
  BY AdmitKeeps, RemovalKeeps, RestoreKeeps, SaveKeeps, ExpiryKeeps, Zenon DEF JournalNext
<1> QED  BY <1>1, <1>2, PTL DEF JournalSpec

(* Consume admits a credential for one request, and an operation for one at a  *)
(* time, however often the journal is saved, restored and cleared.             *)
THEOREM SingleUse == JournalSpec => []AdmissionIsSingleUse
<1>1. JournalInv => AdmissionIsSingleUse
  BY Zenon DEF JournalInv
<1> QED  BY <1>1, JournalInvariant, PTL

(* Admit makes a run before it asks the journal, and yet every repetition of a *)
(* request is given the run of the first.                                      *)
THEOREM RepetitionsAgree == JournalSpec => []RepeatedRequestKeepsItsRun
<1>1. JournalInv => RepeatedRequestKeepsItsRun
  BY Zenon DEF JournalInv
<1> QED  BY <1>1, JournalInvariant, PTL

-----------------------------------------------------------------------------
(* TCPListeners                                                                *)

Socket == [port : Ports, gen : Nat, until : Nat]
Forwarded == [id : ListenerIds, port : Ports, cancelled : BOOLEAN]

LEMMA TcpShapes ==
    ASSUME TcpTypeOK
    PROVE  /\ \A i \in ListenerIds : listeners[i] \in Socket \/ listeners[i] = NoListener
           /\ \A c \in TcpConns : forward[c] \in Forwarded \/ forward[c] = NoForward
           /\ NoListener.port \notin Ports /\ NoForward.id \notin ListenerIds
           /\ \A i \in ListenerIds : listeners[i] # NoListener <=> listeners[i].port \in Ports
  BY TcpAssumption DEF TcpTypeOK, Socket, Forwarded, NoListener, NoForward

(* Cancelling changes nothing else of a connection, and reaches all of those   *)
(* whose listener is among the ids.                                            *)
LEMMA CancelReaches ==
    ASSUME TcpTypeOK, NEW ids \in SUBSET ListenerIds, CancelForwards(ids)
    PROVE  /\ forward' \in [TcpConns -> Forwarded \cup {NoForward}]
           /\ \A c \in TcpConns : /\ forward'[c] # NoForward /\ ~forward'[c].cancelled =>
                                        forward'[c] = forward[c] /\ forward[c].id \notin ids
<1>1. ASSUME NEW c \in TcpConns, forward[c].id \in ids
      PROVE  /\ forward[c] \in Forwarded /\ [forward[c] EXCEPT !.cancelled = TRUE] \in Forwarded
             /\ [forward[c] EXCEPT !.cancelled = TRUE].cancelled
  BY <1>1, TcpShapes, Zenon DEF Forwarded
<1>2. \A c \in TcpConns : forward'[c] = IF forward[c].id \in ids THEN [forward[c] EXCEPT !.cancelled = TRUE]
                                        ELSE forward[c]
  BY Zenon DEF CancelForwards
<1>3. \A c \in TcpConns : forward'[c] \in Forwarded \cup {NoForward}
  BY <1>1, <1>2, TcpShapes, Zenon
<1> QED  BY <1>1, <1>2, <1>3, Zenon DEF CancelForwards

LEMMA WithdrawKeeps ==
    ASSUME TcpInv, withdrawAll, tcpClock' = tcpClock, tcpLife' \in {tcpLife, "stopped"},
           fetched' \in {fetched, NoFetch}
    PROVE  TcpInv'
<1>0. TcpTypeOK
  BY Zenon DEF TcpInv
<1>1. Bound(listeners) \in SUBSET ListenerIds
  BY <1>0, Zenon DEF Bound, TcpTypeOK
<1>2. /\ forward' \in [TcpConns -> Forwarded \cup {NoForward}]
      /\ \A c \in TcpConns : forward'[c] # NoForward /\ ~forward'[c].cancelled =>
                                forward'[c] = forward[c] /\ forward[c].id \notin Bound(listeners)
  BY <1>0, <1>1, CancelReaches, Zenon DEF withdrawAll
<1>3. TcpTypeOK'
  BY <1>0, <1>2 DEF TcpTypeOK, withdrawAll, Forwarded, NoFetch
<1>4. \A c \in TcpConns : forward[c] # NoForward /\ ~forward[c].cancelled => forward[c].id \in Bound(listeners)
  BY <1>0, TcpShapes, Zenon DEF TcpInv, ForwardHasItsListener, Forwarding, Bound, Forwarded, TcpTypeOK
<1>5. ForwardHasItsListener'
  BY <1>2, <1>4, Zenon DEF ForwardHasItsListener, Forwarding
<1> QED  BY <1>3, <1>5, Zenon DEF TcpInv

LEMMA KeptSockets ==
    ASSUME TcpTypeOK, NEW i \in ListenerIds
    PROVE  /\ Kept[i] \in Socket \cup {NoListener}
           /\ i \in Confirmed \cup Awaiting => Kept[i].port = listeners[i].port
<1>1. CASE i \in Confirmed
  <2>1. PICK d \in desired : d.id = i
    BY <1>1, Zenon DEF Confirmed
  <2>2. (CHOOSE e \in desired : e.id = i) \in Decisions
    BY <2>1, Zenon DEF desired, TcpTypeOK
  <2>3. (CHOOSE e \in desired : e.id = i).gen \in Nat
    BY <2>2, TcpAssumption, Zenon
  <2>4. listeners[i] \in Socket
    BY <1>1, TcpShapes, Zenon DEF Confirmed, Bound
  <2> DEFINE g == (CHOOSE e \in desired : e.id = i).gen
  <2>5. Kept[i] = [listeners[i] EXCEPT !.gen = g, !.until = 0]
    BY <1>1, Zenon DEF Kept
  <2>6. g \in Nat
    BY <2>3, Zenon
  <2> HIDE DEF g
  <2>7. PICK s \in Socket : s = listeners[i]
    BY <2>4, Zenon
  <2>8. [s EXCEPT !.gen = g, !.until = 0] \in Socket /\ [s EXCEPT !.gen = g, !.until = 0].port = s.port
    BY <2>6, Zenon DEF Socket
  <2> QED  BY <2>5, <2>7, <2>8, Zenon
<1>2. CASE i \notin Confirmed
  BY <1>2, TcpShapes, Zenon DEF Kept
<1> QED  BY <1>1, <1>2, Zenon

LEMMA ReconcileKeeps ==
    ASSUME TcpInv, ReconcileListeners
    PROVE  TcpInv'
<1>0. TcpTypeOK
  BY Zenon DEF TcpInv
<1> DEFINE closed == Bound(listeners) \ (Confirmed \cup Awaiting)
<1>1. PICK bound \in SUBSET desired :
        /\ \A d \in bound : d.id \notin Confirmed
        /\ listeners' = [i \in ListenerIds |->
                  IF \E d \in bound : d.id = i
                  THEN LET d == CHOOSE d \in bound : d.id = i IN [port |-> d.port, gen |-> d.gen, until |-> 0]
                  ELSE Kept[i]]
  BY Zenon DEF ReconcileListeners
<1>2. /\ CancelForwards(closed) /\ fetched' = NoFetch /\ tcpClock' = tcpClock /\ tcpLife' = tcpLife
      /\ closed \in SUBSET ListenerIds
  BY <1>0, Zenon DEF ReconcileListeners, Bound, TcpTypeOK
<1>3. /\ forward' \in [TcpConns -> Forwarded \cup {NoForward}]
      /\ \A c \in TcpConns : forward'[c] # NoForward /\ ~forward'[c].cancelled =>
                                forward'[c] = forward[c] /\ forward[c].id \notin closed
  BY <1>0, <1>2, CancelReaches, Zenon
<1>4. ASSUME NEW i \in ListenerIds
      PROVE  listeners'[i] \in Socket \cup {NoListener}
  <2>1. CASE \E d \in bound : d.id = i
    <3> DEFINE e == CHOOSE d \in bound : d.id = i
    <3>1. e \in bound
      BY <2>1, Zenon
    <3>2. e \in Decisions
      BY <3>1, <1>0, Zenon DEF desired, TcpTypeOK
    <3>3. listeners'[i] = [port |-> e.port, gen |-> e.gen, until |-> 0]
      BY <2>1, <1>1, Zenon
    <3> HIDE DEF e
    <3> QED  BY <3>2, <3>3, TcpAssumption DEF Socket
  <2>2. CASE ~\E d \in bound : d.id = i
    BY <2>2, <1>0, <1>1, KeptSockets, Zenon
  <2> QED  BY <2>1, <2>2, Zenon
<1>5. TcpTypeOK'
  <2>1. listeners' \in [ListenerIds -> Socket \cup {NoListener}]
    BY <1>1, <1>4, Zenon
  <2> QED  BY <2>1, <1>0, <1>2, <1>3, Zenon DEF TcpTypeOK, Socket, Forwarded, NoFetch
<1>6. \A i \in Confirmed \cup Awaiting : i \in ListenerIds /\ listeners'[i].port = listeners[i].port
  <2> SUFFICES ASSUME NEW i \in Confirmed \cup Awaiting
               PROVE  i \in ListenerIds /\ listeners'[i].port = listeners[i].port
    BY Zenon
  <2>1. i \in ListenerIds
    BY <1>0, Zenon DEF Confirmed, Awaiting, Bound, TcpTypeOK
  <2>2. ~\E d \in bound : d.id = i
    BY <1>1, Zenon DEF Awaiting
  <2>3. listeners'[i] = Kept[i]
    BY <2>1, <2>2, <1>1, Zenon
  <2> QED  BY <2>1, <2>3, <1>0, KeptSockets, Zenon
<1>7. ASSUME NEW c \in TcpConns, forward'[c] # NoForward, ~forward'[c].cancelled
      PROVE  tcpLife' = "running" /\ listeners'[forward'[c].id].port = forward'[c].port
  <2>1. forward'[c] = forward[c] /\ forward[c].id \notin closed
    BY <1>3, <1>7, Zenon
  <2>2. tcpLife = "running" /\ listeners[forward[c].id].port = forward[c].port
    BY <2>1, <1>7, Zenon DEF TcpInv, ForwardHasItsListener, Forwarding
  <2>3. forward[c].id \in ListenerIds /\ forward[c].port \in Ports
    BY <2>1, <1>7, <1>0, TcpShapes, Zenon DEF Forwarded
  <2>4. forward[c].id \in Bound(listeners)
    BY <2>2, <2>3, <1>0, TcpShapes, Zenon DEF Bound, TcpTypeOK
  <2> QED  BY <2>1, <2>2, <2>4, <1>2, <1>6, Zenon
<1> QED  BY <1>5, <1>7, Zenon DEF TcpInv, ForwardHasItsListener, Forwarding

LEMMA PrepareKeeps ==
    ASSUME TcpInv, NEW i \in ListenerIds, NEW p \in Ports, Prepare(i, p)
    PROVE  TcpInv'
<1>0. TcpTypeOK /\ tcpClock + PrepareTime \in Nat
  BY TcpAssumption DEF TcpInv, TcpTypeOK
<1>1. UNCHANGED <<tcpClock, tcpLife, fetched, forward>>
  BY Zenon DEF Prepare
<1>2. \A j \in ListenerIds \ {i} : listeners'[j] = listeners[j]
  BY <1>0, Zenon DEF Prepare, TcpTypeOK
<1>3. /\ listeners' \in [ListenerIds -> Socket \cup {NoListener}]
      /\ listeners[i] # NoListener => listeners'[i].port = listeners[i].port
  <2>1. CASE listeners[i].port = p /\ listeners' = [listeners EXCEPT ![i].until = tcpClock + PrepareTime]
    <3>1. listeners[i] \in Socket
      BY <2>1, <1>0, TcpShapes, Zenon
    <3>2. [listeners[i] EXCEPT !.until = tcpClock + PrepareTime] \in Socket
      BY <3>1, <1>0, Zenon DEF Socket
    <3>3. listeners' = [listeners EXCEPT ![i] = [listeners[i] EXCEPT !.until = tcpClock + PrepareTime]]
      BY <2>1, <1>0, Zenon DEF TcpTypeOK
    <3> QED  BY <3>1, <3>2, <3>3, <1>0, Zenon DEF TcpTypeOK, Socket
  <2>2. CASE listeners[i] = NoListener
             /\ listeners' = [listeners EXCEPT ![i] = [port |-> p, gen |-> 0, until |-> tcpClock + PrepareTime]]
    BY <2>2, <1>0, Zenon DEF TcpTypeOK, Socket
  <2> QED  BY <2>1, <2>2, Zenon DEF Prepare
<1>4. TcpTypeOK'
  BY <1>0, <1>1, <1>3, Zenon DEF TcpTypeOK, Socket
<1>5. \A j \in ListenerIds : listeners[j].port \in Ports => listeners'[j].port = listeners[j].port
  BY <1>0, <1>2, <1>3, TcpShapes, Zenon
<1>6. \A c \in TcpConns : forward[c] # NoForward => forward[c].id \in ListenerIds /\ forward[c].port \in Ports
  BY <1>0, TcpShapes, Zenon DEF Forwarded
<1>7. ForwardHasItsListener'
  BY <1>1, <1>5, <1>6, Zenon DEF TcpInv, ForwardHasItsListener, Forwarding
<1> QED  BY <1>4, <1>7, Zenon DEF TcpInv

LEMMA TcpNextInv ==
    ASSUME TcpInv, [TcpNext]_tcpVars
    PROVE  TcpInv'
<1>0. TcpTypeOK
  BY Zenon DEF TcpInv
<1>1. CASE UNCHANGED tcpVars \/ TcpStart \/ TcpTick
  <2>1. TcpTypeOK'
    BY <1>0, <1>1, TcpAssumption, SMTT(30) DEF tcpVars, TcpStart, TcpTick, TcpTypeOK
  <2>2. ForwardHasItsListener'
    BY <1>1, Zenon DEF tcpVars, TcpStart, TcpTick, TcpInv, ForwardHasItsListener, Forwarding
  <2> QED  BY <2>1, <2>2, Zenon DEF TcpInv
<1>2. CASE Fetch
  <2>1. TcpTypeOK'
    BY <1>0, <1>2 DEF Fetch, TcpTypeOK
  <2> QED  BY <2>1, <1>2, Zenon DEF Fetch, TcpInv, ForwardHasItsListener, Forwarding
<1>3. CASE FetchFails \/ ReconcileConflict \/ TcpWithdraw
  BY <1>3, WithdrawKeeps, Zenon DEF FetchFails, ReconcileConflict, TcpWithdraw
<1>4. CASE TcpCancel
  <2>1. /\ forward' \in [TcpConns -> Forwarded \cup {NoForward}]
        /\ \A c \in TcpConns : forward'[c] # NoForward /\ ~forward'[c].cancelled =>
                                  forward'[c] = forward[c] /\ forward[c].id \notin ListenerIds
    BY <1>0, <1>4, CancelReaches, Zenon DEF TcpCancel
  <2>2. TcpTypeOK'
    BY <1>0, <1>4, <2>1, Zenon DEF TcpCancel, TcpTypeOK, Forwarded
  <2>3. ForwardHasItsListener'
    BY <1>0, <2>1, TcpShapes, Zenon DEF ForwardHasItsListener, Forwarding, Forwarded
  <2> QED  BY <2>2, <2>3, Zenon DEF TcpInv
<1>5. ASSUME NEW c \in TcpConns, EndTcp(c)
      PROVE  TcpInv'
  <2>1. TcpTypeOK'
    BY <1>0, <1>5, Zenon DEF EndTcp, TcpTypeOK
  <2>2. ForwardHasItsListener'
    BY <1>0, <1>5, Zenon DEF EndTcp, TcpInv, ForwardHasItsListener, Forwarding, TcpTypeOK
  <2> QED  BY <2>1, <2>2, Zenon DEF TcpInv
<1>6. ASSUME NEW c \in TcpConns, NEW i \in ListenerIds, AcceptTcp(c, i)
      PROVE  TcpInv'
  <2> DEFINE f == [id |-> i, port |-> listeners[i].port, cancelled |-> tcpLife # "running"]
  <2>1. listeners[i].port \in Ports
    BY <1>0, <1>6, TcpShapes, Zenon DEF AcceptTcp, Bound
  <2>2. f \in Forwarded
    BY <2>1, Zenon DEF Forwarded
  <2>3. forward' = [forward EXCEPT ![c] = f] /\ UNCHANGED <<tcpClock, tcpLife, listeners, fetched>>
    BY <1>6, Zenon DEF AcceptTcp
  <2>4. ~f.cancelled => tcpLife = "running"
    BY Zenon
  <2>5. f.id = i /\ f.port = listeners[i].port
    BY Zenon
  <2> HIDE DEF f
  <2>6. TcpTypeOK'
    BY <2>2, <2>3, <1>0, Zenon DEF TcpTypeOK, Forwarded
  <2>7. ForwardHasItsListener'
    BY <2>3, <2>4, <2>5, <1>0, Zenon DEF TcpInv, ForwardHasItsListener, Forwarding, TcpTypeOK
  <2> QED  BY <2>6, <2>7, Zenon DEF TcpInv
<1> QED  BY <1>1, <1>2, <1>3, <1>4, <1>5, <1>6, PrepareKeeps, ReconcileKeeps, Zenon DEF TcpNext

(* PublicTCPListeners: whichever of reconcile, PrepareTCPRoutes, a failed      *)
(* snapshot and Shutdown closes a socket, and however old the snapshot is that *)
(* reconcile applies, nothing it accepted goes on under a live context.        *)
THEOREM ListenersOwnTheirConnections == TcpSpec => []ForwardHasItsListener
<1>1. TcpInit => TcpInv
  <2> SUFFICES ASSUME TcpInit PROVE TcpInv
    BY Zenon
  <2>1. TcpTypeOK
    BY TcpAssumption DEF TcpInit, TcpTypeOK, NoFetch
  <2>2. Forwarding = {}
    BY Zenon DEF TcpInit, Forwarding
  <2> QED  BY <2>1, <2>2, Zenon DEF TcpInv, ForwardHasItsListener
<1>2. TcpInv /\ [TcpNext]_tcpVars => TcpInv'
  BY TcpNextInv, Zenon
<1>3. TcpInv => ForwardHasItsListener
  BY Zenon DEF TcpInv
<1> QED  BY <1>1, <1>2, <1>3, PTL DEF TcpSpec

-----------------------------------------------------------------------------
(* StaticRoutes                                                                *)

(* The two maps of the registry name each other.                               *)
Paired(byID, filed) ==
    /\ \A i \in RouteIds : byID[i] # NoRoute => byID[i].id = i /\ filed[byID[i].host] = i
    /\ \A h \in Hosts : filed[h] # NoRoute => byID[filed[h]] # NoRoute /\ byID[filed[h]].host = h

LEMMA AttachmentFields ==
    ASSUME NEW a \in BoundedAttachments
    PROVE  a.id \in RouteIds /\ a.host \in Hosts /\ a.revision \in Nat /\ a # NoRoute /\ a.id # NoRoute
<1>1. a.id \in RouteIds /\ a.host \in Hosts /\ a.revision \in 1..MaxRevision
  BY Zenon DEF BoundedAttachments
<1>2. a # NoRoute /\ a.id # NoRoute
  BY <1>1, RoutesAssumption, Zenon
<1>3. a.revision \in Nat
  BY <1>1, RoutesAssumption, SMTT(30)
<1> QED  BY <1>1, <1>2, <1>3, Zenon

LEMMA RegistryShape ==
    ASSUME RoutesInv
    PROVE  /\ registry.byID \in [RouteIds -> BoundedAttachments \cup {NoRoute}]
           /\ registry.byHost \in [Hosts -> RouteIds \cup {NoRoute}]
           /\ Paired(registry.byID, registry.byHost)
  BY Zenon DEF RoutesInv, RoutesTypeOK, HostsNameTheirOwners, Paired

LEMMA RegistryFrom ==
    ASSUME NEW ids \in [RouteIds -> BoundedAttachments \cup {NoRoute}],
           NEW owners \in [Hosts -> RouteIds \cup {NoRoute}], NEW told \in SUBSET Hosts,
           Paired(ids, owners), registry' = [byID |-> ids, byHost |-> owners, signalled |-> told]
    PROVE  RoutesInv'
  BY Zenon DEF RoutesInv, RoutesTypeOK, HostsNameTheirOwners, Paired

LEMMA OnlyTold ==
    ASSUME RoutesInv, registry' = [registry EXCEPT !.signalled = {}]
    PROVE  RoutesInv'
<1>1. registry' = [byID |-> registry.byID, byHost |-> registry.byHost, signalled |-> {}]
  BY Zenon DEF RoutesInv, RoutesTypeOK
<1> QED  BY <1>1, RegistryFrom, RegistryShape, Zenon

LEMMA AttachKeeps ==
    ASSUME RoutesInv, NEW a \in BoundedAttachments, AttachRoute(a)
    PROVE  RoutesInv'
<1> DEFINE byID == registry.byID
           filed == registry.byHost
           left == IF byID[a.id] = NoRoute THEN filed ELSE [filed EXCEPT ![byID[a.id].host] = NoRoute]
           ids == [byID EXCEPT ![a.id] = a]
           owners == [left EXCEPT ![a.host] = a.id]
<1>1. CASE byID[a.id] = a
  BY <1>1, OnlyTold, Zenon DEF AttachRoute, Attach
<1>2. CASE byID[a.id] # a
  <2>1. registry' = [byID |-> ids, byHost |-> owners, signalled |-> {a.host}]
    BY <1>2, Zenon DEF AttachRoute, Attach
  <2>2. /\ byID \in [RouteIds -> BoundedAttachments \cup {NoRoute}]
        /\ filed \in [Hosts -> RouteIds \cup {NoRoute}]
        /\ Paired(byID, filed)
        /\ a.id \in RouteIds /\ a.host \in Hosts /\ a # NoRoute /\ a.id # NoRoute
        /\ filed[a.host] \in {NoRoute, a.id}
    BY <1>2, RegistryShape, AttachmentFields, Zenon DEF AttachRoute, RefusesAttach
  <2> HIDE DEF byID, filed
  <2>3. \A i \in RouteIds : byID[i] # NoRoute => byID[i].host \in Hosts
    BY <2>2, AttachmentFields, Zenon
  <2>4. /\ left \in [Hosts -> RouteIds \cup {NoRoute}]
        /\ \A h \in Hosts : left[h] = IF filed[h] = a.id THEN NoRoute ELSE filed[h]
    BY <2>2, <2>3, Zenon DEF Paired
  <2> HIDE DEF left
  <2>5. ids \in [RouteIds -> BoundedAttachments \cup {NoRoute}] /\ owners \in [Hosts -> RouteIds \cup {NoRoute}]
    BY <2>2, <2>4, Zenon
  <2>6. /\ ids[a.id] = a /\ \A i \in RouteIds \ {a.id} : ids[i] = byID[i]
        /\ owners[a.host] = a.id
        /\ \A h \in Hosts \ {a.host} : owners[h] = IF filed[h] = a.id THEN NoRoute ELSE filed[h]
    BY <2>2, <2>4, Zenon
  <2> HIDE DEF ids, owners
  <2>7. ASSUME NEW i \in RouteIds, ids[i] # NoRoute
        PROVE  ids[i].id = i /\ owners[ids[i].host] = i
    <3>1. CASE i = a.id
      BY <3>1, <2>6, Zenon
    <3>2. CASE i # a.id
      <4>1. ids[i] = byID[i] /\ byID[i].id = i /\ filed[byID[i].host] = i /\ byID[i].host \in Hosts
        BY <3>2, <2>2, <2>3, <2>6, <2>7, Zenon DEF Paired
      <4>2. byID[i].host # a.host
        BY <4>1, <3>2, <2>2, RoutesAssumption, Zenon
      <4> QED  BY <4>1, <4>2, <3>2, <2>6, Zenon
    <3> QED  BY <3>1, <3>2, Zenon
  <2>8. ASSUME NEW h \in Hosts, owners[h] # NoRoute
        PROVE  ids[owners[h]] # NoRoute /\ ids[owners[h]].host = h
    <3>1. CASE h = a.host
      BY <3>1, <2>2, <2>6, Zenon
    <3>2. CASE h # a.host
      <4>1. owners[h] = filed[h] /\ filed[h] # a.id /\ filed[h] \in RouteIds
        BY <3>2, <2>2, <2>6, <2>8, Zenon
      <4> QED  BY <4>1, <2>2, <2>6, <2>8, SMTT(30) DEF Paired
    <3> QED  BY <3>1, <3>2, Zenon
  <2>9. Paired(ids, owners)
    BY <2>7, <2>8, Zenon DEF Paired
  <2> QED  BY <2>1, <2>2, <2>5, <2>9, RegistryFrom
<1> QED  BY <1>1, <1>2, Zenon

LEMMA DetachKeeps ==
    ASSUME RoutesInv, NEW id \in RouteIds, NEW revision, DetachRoute(id, revision)
    PROVE  RoutesInv'
<1> DEFINE byID == registry.byID
           filed == registry.byHost
           host == byID[id].host
           ids == [byID EXCEPT ![id] = NoRoute]
           owners == [filed EXCEPT ![host] = NoRoute]
<1>1. CASE byID[id] = NoRoute \/ byID[id].revision # revision
  BY <1>1, OnlyTold, Zenon DEF DetachRoute, Detach
<1>2. CASE byID[id] # NoRoute /\ byID[id].revision = revision
  <2>1. registry' = [byID |-> ids, byHost |-> owners, signalled |-> {host}]
    BY <1>2, Zenon DEF DetachRoute, Detach
  <2>2. /\ byID \in [RouteIds -> BoundedAttachments \cup {NoRoute}]
        /\ filed \in [Hosts -> RouteIds \cup {NoRoute}]
        /\ Paired(byID, filed) /\ host \in Hosts /\ filed[host] = id
    BY <1>2, RegistryShape, AttachmentFields DEF Paired
  <2> HIDE DEF byID, filed, host
  <2>3. ids \in [RouteIds -> BoundedAttachments \cup {NoRoute}] /\ owners \in [Hosts -> RouteIds \cup {NoRoute}]
    BY <2>2, Zenon
  <2>4. /\ ids[id] = NoRoute /\ \A i \in RouteIds \ {id} : ids[i] = byID[i]
        /\ owners[host] = NoRoute /\ \A h \in Hosts \ {host} : owners[h] = filed[h]
        /\ host = byID[id].host
    BY <2>2, Zenon DEF host
  <2> HIDE DEF ids, owners
  <2>5. \A i \in RouteIds : byID[i] # NoRoute => byID[i].host \in Hosts
    BY <2>2, AttachmentFields, Zenon
  <2>6. Paired(ids, owners)
    BY <2>2, <2>4, <2>5, RoutesAssumption, SMTT(30) DEF Paired
  <2> QED  BY <2>1, <2>2, <2>3, <2>6, RegistryFrom
<1> QED  BY <1>1, <1>2, Zenon

LEMMA ReplaceKeeps ==
    ASSUME RoutesInv, NEW table \in SUBSET BoundedAttachments, ReplaceRoutes(table)
    PROVE  RoutesInv'
<1> DEFINE ids == Table(table).byID
           owners == Table(table).byHost
<1>1. PICK told \in SUBSET Hosts : registry' = [byID |-> ids, byHost |-> owners, signalled |-> told]
  BY Zenon DEF ReplaceRoutes, Replace
<1>2. \A a, b \in table : a # b => a.id # b.id /\ a.host # b.host
  BY Zenon DEF ReplaceRoutes, Consistent
<1>3. \A a \in table : a.id \in RouteIds /\ a.host \in Hosts /\ a # NoRoute /\ a.id # NoRoute
  BY AttachmentFields, Zenon
<1>4. /\ ids = [i \in RouteIds |-> IF \E a \in table : a.id = i THEN CHOOSE a \in table : a.id = i ELSE NoRoute]
      /\ owners = [h \in Hosts |-> IF \E a \in table : a.host = h
                                   THEN (CHOOSE a \in table : a.host = h).id ELSE NoRoute]
  BY Zenon DEF Table
<1> HIDE DEF ids, owners
<1>5. ASSUME NEW i \in RouteIds
      PROVE  \/ ids[i] = NoRoute /\ (\A a \in table : a.id # i)
             \/ ids[i] \in table /\ ids[i].id = i
  BY <1>4, Zenon
<1>6. ASSUME NEW h \in Hosts
      PROVE  \/ owners[h] = NoRoute /\ (\A a \in table : a.host # h)
             \/ \E a \in table : a.host = h /\ owners[h] = a.id
  BY <1>4, Zenon
<1>7. ids \in [RouteIds -> BoundedAttachments \cup {NoRoute}]
  BY <1>4, <1>5, Zenon
<1>8. owners \in [Hosts -> RouteIds \cup {NoRoute}]
  <2>1. \A h \in Hosts : owners[h] \in RouteIds \cup {NoRoute}
    BY <1>3, <1>6, Zenon
  <2> QED  BY <2>1, <1>4, Zenon
<1>9. Paired(ids, owners)
  <2>1. ASSUME NEW i \in RouteIds, ids[i] # NoRoute
        PROVE  ids[i].id = i /\ owners[ids[i].host] = i
    BY <2>1, <1>2, <1>3, <1>5, <1>6
  <2>2. ASSUME NEW h \in Hosts, owners[h] # NoRoute
        PROVE  ids[owners[h]] # NoRoute /\ ids[owners[h]].host = h
    <3>1. PICK a \in table : a.host = h /\ owners[h] = a.id
      BY <2>2, <1>6, Zenon
    <3>2. ids[a.id] = a
      BY <3>1, <1>2, <1>3, <1>5, Zenon
    <3> QED  BY <3>1, <3>2, <1>3, Zenon
  <2> QED  BY <2>1, <2>2, Zenon DEF Paired
<1> QED  BY <1>1, <1>7, <1>8, <1>9, RegistryFrom, Zenon

(* route.Registry: byID and byHost stay inverse to each other through every    *)
(* order of Attach, Detach and Replace, so LookupHost never returns an         *)
(* attachment that has left the host it is asked for.                          *)
THEOREM RegistryMapsAgree == RoutesSpec => []RoutesInv
<1>1. RoutesInit => RoutesInv
  <2> SUFFICES ASSUME RoutesInit PROVE RoutesInv
    BY Zenon
  <2>1. RoutesTypeOK
    BY Zenon DEF RoutesInit, RoutesTypeOK, EmptyRegistry
  <2>2. HostsNameTheirOwners
    BY Zenon DEF RoutesInit, HostsNameTheirOwners, EmptyRegistry
  <2> QED  BY <2>1, <2>2, Zenon DEF RoutesInv
<1>2. RoutesInv /\ [RoutesNext]_registry => RoutesInv'
  <2> SUFFICES ASSUME RoutesInv, [RoutesNext]_registry PROVE RoutesInv'
    BY Zenon
  <2>1. CASE UNCHANGED registry
    BY <2>1, Zenon DEF RoutesInv, RoutesTypeOK, HostsNameTheirOwners
  <2>2. CASE \E table \in Tables : ReplaceRoutes(table)
    BY <2>2, ReplaceKeeps, RoutesAssumption, Zenon
  <2> QED  BY <2>1, <2>2, AttachKeeps, DetachKeeps, Zenon DEF RoutesNext
<1> QED  BY <1>1, <1>2, PTL DEF RoutesSpec

(* The part of it that the run of the gateway checks on a small instance.      *)
THEOREM HostsAgree == RoutesSpec => []HostsNameTheirOwners
<1>1. RoutesInv => HostsNameTheirOwners
  BY Zenon DEF RoutesInv
<1> QED  BY <1>1, RegistryMapsAgree, PTL

(* route.Registry: an id that stays attached never goes back to an earlier     *)
(* revision, whether Attach or Replace brings the next one, and one revision   *)
(* always means one route.                                                     *)
THEOREM RevisionsMoveForward == RoutesSpec => RevisionMovesForward
<1> DEFINE Forward(old, new) == old.revision <= new.revision /\ (old.revision = new.revision => sameRoute(old, new))
           Moves == \A i \in RouteIds : registry.byID[i] # NoRoute /\ registry'.byID[i] # NoRoute =>
                        Forward(registry.byID[i], registry'.byID[i])
<1>1. \A a \in BoundedAttachments : Forward(a, a)
  BY AttachmentFields DEF sameRoute
<1>2. \A a, b \in BoundedAttachments : ~StaleAgainst(a, b) => Forward(a, b)
  BY AttachmentFields, SMTT(30) DEF StaleAgainst
<1> HIDE DEF Forward
<1>3. RoutesInv /\ [RoutesNext]_registry => Moves \/ UNCHANGED registry
  <2> SUFFICES ASSUME RoutesInv, RoutesNext, NEW i \in RouteIds,
                      registry.byID[i] # NoRoute, registry'.byID[i] # NoRoute
               PROVE  Forward(registry.byID[i], registry'.byID[i])
    BY Zenon
  <2>0. registry.byID \in [RouteIds -> BoundedAttachments \cup {NoRoute}]
    BY RegistryShape, Zenon
  <2>1. ASSUME NEW a \in BoundedAttachments, AttachRoute(a)
        PROVE  Forward(registry.byID[i], registry'.byID[i])
    <3>1. registry'.byID[i] = IF i = a.id THEN a ELSE registry.byID[i]
      BY <2>0, <2>1, AttachmentFields, SMTT(30) DEF AttachRoute, Attach
    <3>2. i = a.id => registry.byID[i] = a \/ ~StaleAgainst(registry.byID[i], a)
      BY <2>1, Zenon DEF AttachRoute, RefusesAttach
    <3> QED  BY <3>1, <3>2, <2>0, <1>1, <1>2, Zenon
  <2>2. ASSUME NEW id \in RouteIds, NEW revision, DetachRoute(id, revision)
        PROVE  Forward(registry.byID[i], registry'.byID[i])
    <3>1. registry'.byID[i] \in {registry.byID[i], NoRoute}
      BY <2>0, <2>2, SMTT(30) DEF DetachRoute, Detach
    <3> QED  BY <3>1, <2>0, <1>1, Zenon
  <2>3. ASSUME NEW table \in SUBSET BoundedAttachments, ReplaceRoutes(table)
        PROVE  Forward(registry.byID[i], registry'.byID[i])
    <3>1. registry'.byID[i] = IF \E a \in table : a.id = i THEN CHOOSE a \in table : a.id = i ELSE NoRoute
      BY <2>3, Zenon DEF ReplaceRoutes, Replace, Table
    <3>2. registry'.byID[i] \in table /\ registry'.byID[i].id = i
      BY <3>1, Zenon
    <3>3. ~StaleAgainst(registry.byID[i], registry'.byID[i])
      BY <3>2, <2>3, Zenon DEF ReplaceRoutes, StaleTable
    <3> QED  BY <3>2, <3>3, <2>0, <1>2, Zenon
  <2> QED  BY <2>1, <2>2, <2>3, RoutesAssumption, Zenon DEF RoutesNext
<1>4. [Moves]_registry <=> (Moves \/ UNCHANGED registry)
  BY Zenon
<1>5. [][Moves]_registry <=> RevisionMovesForward
  BY Zenon DEF RevisionMovesForward, Forward
<1> HIDE DEF Moves
<1> QED  BY <1>3, <1>4, <1>5, RegistryMapsAgree, PTL DEF RoutesSpec

-----------------------------------------------------------------------------
(* Ingress decisions                                                           *)

(* What IngressInv asks of one connection, as a predicate of its record.       *)
Loops(c, r) ==
    \/ c \in Tcp /\ r.at = "forwarding"
    \/ c \in Browser /\ r.at \in {"resolved", "leased", "forwarding"}
Sound(c, r) ==
    /\ r \in IngressConns /\ Backed(r.grant, r.expires)
    /\ r.at \in {"resolved", "leased", "forwarding"} => r.grant # 0
    /\ Loops(c, r) => clock <= r.expires
    /\ c \in Tcp /\ r.at # "forwarding" => ~r.renewed
    /\ Loops(c, r) /\ (c \in Browser \/ r.renewed) => r.tick < r.expires

LEMMA SoundOfInv == ASSUME IngressInv, NEW c \in Conns PROVE Sound(c, conns[c])
<1>1. conns[c] \in IngressConns
  BY Zenon DEF IngressInv, IngressTypeOK
<1>2. Loops(c, conns[c]) <=> Refreshing(c)
  BY Zenon DEF Loops, Refreshing
<1> QED
  BY <1>1, <1>2, Zenon DEF Sound, IngressInv, CopiesAreBacked, RefreshesStand, LoopsHaveStarted, RefreshPrecedesExpiry

(* A step that leaves the clock and the server alone keeps the invariant when  *)
(* every copy it makes of a decision is backed and every connection is sound.  *)
LEMMA EdgeStep ==
  ASSUME IngressInv, UNCHANGED <<clock, granted, grants>>,
         cache' \in Snapshots,
         cache'.some => cache'.fetched <= clock /\ Backed(cache'.grant, ExpiresAt(cache')),
         offered' \in Offers, Backed(offered'.grant, offered'.expires),
         conns' \in [Conns -> IngressConns], \A c \in Conns : Sound(c, conns'[c])
  PROVE  IngressInv'
<1>1. IngressTypeOK'
  BY Zenon DEF IngressInv, IngressTypeOK
<1>2. CopiesAreBacked'
  BY Zenon DEF CopiesAreBacked, Backed, ExpiresAt, Sound
<1>3. \A c \in Conns : Refreshing(c)' <=> Loops(c, conns'[c])
  BY Zenon DEF Refreshing, Loops, Tcp, Browser
<1>4. RefreshesStand' /\ RefreshPrecedesExpiry'
  BY <1>3, Zenon DEF RefreshesStand, RefreshPrecedesExpiry, Sound, Loops, Tcp, Browser
<1>5. LoopsHaveStarted'
  BY Zenon DEF LoopsHaveStarted, Sound, Tcp
<1> QED  BY <1>1, <1>2, <1>4, <1>5, Zenon DEF IngressInv

LEMMA ConnStep ==
  ASSUME IngressInv, UNCHANGED <<clock, granted, grants, offered>>,
         cache' \in Snapshots,
         cache'.some => cache'.fetched <= clock /\ Backed(cache'.grant, ExpiresAt(cache')),
         NEW c \in Conns, NEW r, conns' = [conns EXCEPT ![c] = r], Sound(c, r)
  PROVE  IngressInv'
<1>1. offered' \in Offers /\ Backed(offered'.grant, offered'.expires)
  BY Zenon DEF IngressInv, IngressTypeOK, CopiesAreBacked
<1>2. conns \in [Conns -> IngressConns] /\ r \in IngressConns
  BY Zenon DEF IngressInv, IngressTypeOK, Sound
<1>3. conns' \in [Conns -> IngressConns]
  BY <1>2, Zenon
<1>4. ASSUME NEW d \in Conns PROVE Sound(d, conns'[d])
  <2>1. CASE d = c
    BY <2>1, <1>2, Zenon
  <2>2. CASE d # c
    BY <2>2, <1>2, SoundOfInv, Zenon
  <2> QED  BY <2>1, <2>2, Zenon
<1> QED  BY <1>1, <1>3, <1>4, EdgeStep, Zenon

LEMMA NoConnIsSound == ASSUME IngressInv, NEW c \in Conns PROVE Sound(c, NoConn)
<1>1. NoConn \in IngressConns
  BY IngressTimesAssumption, SMTT(30) DEF NoConn, IngressConns
<1> QED
  BY <1>1, IngressTimesAssumption, SMTT(30) DEF NoConn, Sound, Backed, Loops, IngressInv, IngressTypeOK

(* The cache as it is when a step does not touch it.                           *)
LEMMA CacheStands ==
  ASSUME IngressInv, UNCHANGED <<cache>>
  PROVE  /\ cache' \in Snapshots
         /\ cache'.some => cache'.fetched <= clock /\ Backed(cache'.grant, ExpiresAt(cache'))
BY Zenon DEF IngressInv, IngressTypeOK, CopiesAreBacked

(* A snapshot, cached or fetched, is backed and at most one refresh interval   *)
(* old.                                                                        *)
Recent(s) ==
    /\ s \in Snapshots
    /\ s.some => /\ s.fetched <= clock /\ Backed(s.grant, ExpiresAt(s))
                 /\ clock - s.fetched < IngressRefresh

LEMMA SnapshotIsRecent == ASSUME IngressInv, NEW fetches \in BOOLEAN PROVE Recent(Snapshot(fetches))
<1> DEFINE now == [some |-> TRUE, grant |-> granted, fetched |-> clock]
<1>1. Recent(now)
  BY IngressTimesAssumption DEF Recent, Snapshots, Backed, ExpiresAt, IngressInv, IngressTypeOK
<1>2. Recent(NoCache)
  BY IngressTimesAssumption, SMTT(30) DEF Recent, NoCache, Snapshots
<1>3. Fresh => Recent(cache)
  BY Zenon DEF Recent, Fresh, IngressInv, IngressTypeOK, CopiesAreBacked
<1> QED  BY <1>1, <1>2, <1>3, Zenon DEF Snapshot

LEMMA ReadIsRecent ==
  ASSUME IngressInv, NEW c \in Conns, NEW fetches \in BOOLEAN
  PROVE  /\ Recent(Reads(c, fetches))
         /\ c \in Browser /\ Reads(c, fetches).some => Reads(c, fetches).fetched = clock
<1> DEFINE now == [some |-> TRUE, grant |-> granted, fetched |-> clock]
<1>1. Recent(now)
  BY IngressTimesAssumption, SMTT(30) DEF Recent, Snapshots, Backed, ExpiresAt, IngressInv, IngressTypeOK
<1>2. Recent(NoCache) /\ ~NoCache.some
  BY IngressTimesAssumption, SMTT(30) DEF Recent, NoCache, Snapshots
<1> QED  BY <1>1, <1>2, SnapshotIsRecent, Zenon DEF Reads

LEMMA ReadKeepsCache ==
  ASSUME IngressInv, NEW c \in Conns, NEW s, Recent(s), cache' = CacheAfter(c, s)
  PROVE  /\ cache' \in Snapshots
         /\ cache'.some => cache'.fetched <= clock /\ Backed(cache'.grant, ExpiresAt(cache'))
BY Zenon DEF CacheAfter, Recent, IngressInv, IngressTypeOK, CopiesAreBacked

-----------------------------------------------------------------------------
(* The server's step: what it withdraws now was stood by until now.            *)
LEMMA ServerKeeps == ASSUME IngressInv, NEW g \in 0..MaxGrant, ServerDecides(g) PROVE IngressInv'
<1>1. /\ granted \in 1..MaxGrant /\ granted' = g /\ grants' = [grants EXCEPT ![granted] = clock]
      /\ UNCHANGED <<clock, cache, offered, conns, limitVars>>
  BY IngressTimesAssumption DEF ServerDecides, IngressInv, IngressTypeOK
<1>2. IngressTypeOK'
  BY <1>1, Zenon DEF IngressInv, IngressTypeOK
<1>3. ASSUME NEW h \in 0..MaxGrant, NEW e \in Nat, Backed(h, e)
      PROVE  Backed(h, e)'
  <2>1. grants \in [1..MaxGrant -> Nat] /\ clock \in Nat
    BY Zenon DEF IngressInv, IngressTypeOK
  <2>2. CASE h = granted
    <3>1. grants'[h] = clock
      BY <1>1, <2>1, <2>2, Zenon
    <3> QED  BY <3>1, <1>1, <1>3, Zenon DEF Backed
  <2>3. CASE h # granted /\ h # 0
    <3>1. grants'[h] = grants[h]
      BY <1>1, <2>1, <2>3
    <3> QED  BY <3>1, <1>1, <1>3, <2>3, Zenon DEF Backed
  <2>4. CASE h = 0
    BY <2>4, <1>1, <1>3, Zenon DEF Backed
  <2> QED  BY <2>2, <2>3, <2>4, Zenon
<1>4. CopiesAreBacked'
  <2>1. cache \in Snapshots /\ offered \in Offers /\ conns \in [Conns -> IngressConns] /\ ExpiresAt(cache) \in Nat
    BY IngressTimesAssumption, SMTT(30) DEF IngressInv, IngressTypeOK, ExpiresAt, Snapshots
  <2>2. cache'.some => cache'.fetched <= clock' /\ Backed(cache.grant, ExpiresAt(cache))'
    BY <1>1, <1>3, <2>1, Zenon DEF IngressInv, CopiesAreBacked, Snapshots
  <2>3. Backed(offered.grant, offered.expires)'
    BY <1>1, <1>3, <2>1, Zenon DEF IngressInv, CopiesAreBacked, Offers
  <2>4. ASSUME NEW c \in Conns PROVE Backed(conns[c].grant, conns[c].expires)'
    <3>1. conns[c].grant \in 0..MaxGrant /\ conns[c].expires \in Nat
      BY <2>1, Zenon DEF IngressConns
    <3> QED  BY <3>1, <1>1, <1>3, Zenon DEF IngressInv, CopiesAreBacked
  <2> QED  BY <2>2, <2>3, <2>4, Zenon DEF CopiesAreBacked
<1>5. \A c \in Conns : Refreshing(c)' <=> Refreshing(c)
  BY <1>1, Zenon DEF Refreshing, Tcp, Browser
<1>6. RefreshesStand' /\ LoopsHaveStarted' /\ RefreshPrecedesExpiry'
  BY <1>1, <1>5, Zenon DEF IngressInv, RefreshesStand, LoopsHaveStarted, RefreshPrecedesExpiry, Tcp, Browser
<1> QED  BY <1>2, <1>4, <1>6, Zenon DEF IngressInv

(* A due refresh or expiry happens before the clock moves on.                  *)
LEMMA AdvanceKeeps == ASSUME IngressInv, Advance PROVE IngressInv'
<1>1. clock \in Nat /\ clock' = clock + 1 /\ UNCHANGED <<granted, grants, cache, offered, conns, limitVars>>
  BY Zenon DEF Advance, IngressInv, IngressTypeOK
<1>2. IngressTypeOK'
  BY <1>1, SMTT(30) DEF IngressInv, IngressTypeOK
<1>3. CopiesAreBacked'
  <2>1. cache.fetched \in Nat /\ offered.expires \in Nat /\ (\A c \in Conns : conns[c].expires \in Nat)
    BY Zenon DEF IngressInv, IngressTypeOK, Snapshots, Offers, IngressConns
  <2> QED
    BY <1>1, <2>1, IngressTimesAssumption DEF IngressInv, CopiesAreBacked, Backed, ExpiresAt
<1>4. \A c \in Conns : Refreshing(c)' <=> Refreshing(c)
  BY <1>1, Zenon DEF Refreshing, Tcp, Browser
<1>5. RefreshesStand'
  <2>1. \A c \in Conns : conns[c].expires \in Nat
    BY Zenon DEF IngressInv, IngressTypeOK, IngressConns
  <2>2. \A c \in Conns : Refreshing(c) => clock # conns[c].expires /\ clock <= conns[c].expires
    BY Zenon DEF Advance, Due, IngressInv, RefreshesStand
  <2> QED  BY <1>1, <1>4, <2>1, <2>2 DEF IngressInv, RefreshesStand
<1>6. LoopsHaveStarted' /\ RefreshPrecedesExpiry'
  BY <1>1, <1>4, Zenon DEF IngressInv, LoopsHaveStarted, RefreshPrecedesExpiry, Tcp, Browser
<1> QED  BY <1>2, <1>3, <1>5, <1>6, Zenon DEF IngressInv

LEMMA IngressReconcileKeeps == ASSUME IngressInv, Reconcile PROVE IngressInv'
<1>1. PICK fetches \in BOOLEAN :
        LET snapshot == Snapshot(fetches)
            stands == snapshot.some /\ snapshot.grant # 0 /\ clock < ExpiresAt(snapshot)
        IN  /\ cache' = snapshot
            /\ offered' = IF stands THEN [grant |-> snapshot.grant, expires |-> ExpiresAt(snapshot)]
                          ELSE NoOffer
            /\ conns' = [c \in Conns |-> Ended(c, ~stands /\ c \in Tcp)]
            /\ UNCHANGED <<clock, granted, grants>>
  BY Zenon DEF Reconcile
<1>2. Recent(Snapshot(fetches))
  BY SnapshotIsRecent, Zenon
<1>3. /\ cache' \in Snapshots
      /\ cache'.some => cache'.fetched <= clock /\ Backed(cache'.grant, ExpiresAt(cache'))
  BY <1>1, <1>2, Zenon DEF Recent
<1>4. offered' \in Offers /\ Backed(offered'.grant, offered'.expires)
  <2>1. NoOffer \in Offers /\ Backed(NoOffer.grant, NoOffer.expires)
    BY IngressTimesAssumption DEF NoOffer, Offers, Backed, IngressInv, IngressTypeOK
  <2>2. ExpiresAt(Snapshot(fetches)) \in Nat /\ Snapshot(fetches).grant \in 0..MaxGrant
    BY <1>2, IngressTimesAssumption, SMTT(30) DEF Recent, Snapshots, ExpiresAt
  <2> QED  BY <1>1, <1>2, <2>1, <2>2, Zenon DEF Recent, Offers
<1>5. \A c \in Conns : conns'[c] \in {conns[c], NoConn}
  BY <1>1, Zenon DEF Ended
<1>6. \A c \in Conns : Sound(c, conns'[c])
  BY <1>5, SoundOfInv, NoConnIsSound, Zenon
<1>7. conns' \in [Conns -> IngressConns]
  BY <1>1, <1>6, Zenon DEF Sound
<1> QED  BY <1>1, <1>3, <1>4, <1>6, <1>7, EdgeStep, Zenon

LEMMA ArriveKeeps == ASSUME IngressInv, NEW c \in Conns, Arrive(c) PROVE IngressInv'
<1> DEFINE r == [conns[c] EXCEPT !.at = "accepted",
                                 !.grant = IF c \in Tcp THEN offered.grant ELSE 0,
                                 !.expires = IF c \in Tcp THEN offered.expires ELSE 0]
<1>1. conns' = [conns EXCEPT ![c] = r] /\ conns[c].at = "idle"
      /\ UNCHANGED <<clock, granted, grants, offered, cache>>
  BY Zenon DEF Arrive
<1>2. Sound(c, conns[c]) /\ offered \in Offers /\ Backed(offered.grant, offered.expires) /\ clock \in Nat
  BY SoundOfInv, Zenon DEF IngressInv, IngressTypeOK, CopiesAreBacked
<1>3. r \in IngressConns /\ r.at = "accepted" /\ r.renewed = conns[c].renewed
  <2>1. PICK g \in 0..MaxGrant, e \in Nat :
          g = (IF c \in Tcp THEN offered.grant ELSE 0) /\ e = (IF c \in Tcp THEN offered.expires ELSE 0)
    BY <1>2, IngressTimesAssumption, SMTT(30) DEF Offers
  <2>2. PICK s \in IngressConns : s = conns[c]
    BY <1>2, Zenon DEF Sound
  <2>3. r = [s EXCEPT !.at = "accepted", !.grant = g, !.expires = e]
    BY <2>1, <2>2, Zenon
  <2> HIDE DEF r
  <2>4. r \in IngressConns /\ r.at = "accepted" /\ r.renewed = s.renewed
    BY <2>3, Zenon DEF IngressConns
  <2> QED  BY <2>2, <2>4, Zenon
<1>4. Backed(r.grant, r.expires)
  BY <1>2, IngressTimesAssumption DEF Sound, IngressConns, Backed
<1>5. Sound(c, r)
  BY <1>1, <1>2, <1>3, <1>4, Zenon DEF Sound, Loops
<1> HIDE DEF r
<1> QED  BY <1>1, <1>5, CacheStands, ConnStep, Zenon

LEMMA ResolveKeeps == ASSUME IngressInv, NEW c \in Conns, Resolve(c) PROVE IngressInv'
<1>1. PICK fetches \in BOOLEAN :
        LET read == Reads(c, fetches)
            resolved == IF c \in Tcp THEN Resolves(conns[c], read)
                        ELSE read.some /\ read.grant # 0 /\ clock < ExpiresAt(read)
        IN  /\ cache' = CacheAfter(c, read)
            /\ conns' = [conns EXCEPT ![c] =
                   IF resolved THEN [conns[c] EXCEPT !.at = "resolved", !.grant = read.grant,
                                         !.expires = ExpiresAt(read),
                                         !.tick = IF c \in Browser THEN clock + IngressRefresh ELSE 0]
                   ELSE NoConn]
  BY Zenon DEF Resolve
<1> DEFINE read == Reads(c, fetches)
           resolved == IF c \in Tcp THEN Resolves(conns[c], read)
                       ELSE read.some /\ read.grant # 0 /\ clock < ExpiresAt(read)
           r == [conns[c] EXCEPT !.at = "resolved", !.grant = read.grant, !.expires = ExpiresAt(read),
                                 !.tick = IF c \in Browser THEN clock + IngressRefresh ELSE 0]
<1>2. Recent(read) /\ (c \in Browser /\ read.some => read.fetched = clock)
  BY ReadIsRecent, Zenon
<1>3. resolved => read.some /\ read.grant # 0 /\ clock < ExpiresAt(read)
  BY Zenon DEF Resolves
<1>4. Sound(c, conns[c]) /\ conns[c].at = "accepted" /\ clock \in Nat /\ UNCHANGED <<clock, granted, grants, offered>>
  BY SoundOfInv, Zenon DEF Resolve, IngressInv, IngressTypeOK
<1>5. resolved => Sound(c, r)
  <2> SUFFICES ASSUME resolved PROVE Sound(c, r)
    BY Zenon
  <2>1. read \in Snapshots /\ ExpiresAt(read) = read.fetched + IngressLifetime /\ read.fetched \in Nat
    BY <1>2, Zenon DEF Recent, ExpiresAt, Snapshots
  <2>2. /\ r \in IngressConns /\ r.at = "resolved" /\ r.renewed = conns[c].renewed /\ r.grant = read.grant
        /\ r.expires = ExpiresAt(read) /\ (c \in Browser => r.tick = clock + IngressRefresh)
    <3>1. PICK t \in Nat : t = IF c \in Browser THEN clock + IngressRefresh ELSE 0
      BY <1>4, IngressTimesAssumption, SMTT(30)
    <3>2. PICK s \in IngressConns, g \in 0..MaxGrant, e \in Nat :
            s = conns[c] /\ g = read.grant /\ e = ExpiresAt(read)
      BY <1>4, <2>1, IngressTimesAssumption DEF Sound, Snapshots
    <3>3. r = [s EXCEPT !.at = "resolved", !.grant = g, !.expires = e, !.tick = t]
      BY <3>1, <3>2, Zenon
    <3> HIDE DEF r, read
    <3>4. /\ r \in IngressConns /\ r.at = "resolved" /\ r.renewed = s.renewed
          /\ r.grant = g /\ r.expires = e /\ r.tick = t
      BY <3>3, Zenon DEF IngressConns
    <3> QED  BY <3>1, <3>2, <3>4, Zenon
  <2> HIDE DEF r, read, resolved
  <2>3. Backed(r.grant, r.expires) /\ r.grant # 0 /\ clock <= r.expires
    BY <1>2, <1>3, <1>4, <2>1, <2>2, IngressTimesAssumption DEF Recent
  <2>4. c \in Browser => r.tick < r.expires /\ c \notin Tcp
    BY <1>2, <1>3, <1>4, <2>1, <2>2, IngressTimesAssumption, SMTT(30) DEF Tcp, Browser
  <2>5. c \in Tcp => ~r.renewed
    BY <1>4, <2>2, Zenon DEF Sound
  <2> QED  BY <2>2, <2>3, <2>4, <2>5, Zenon DEF Sound, Loops
<1>6. conns' = [conns EXCEPT ![c] = IF resolved THEN r ELSE NoConn] /\ cache' = CacheAfter(c, read)
  BY <1>1, Zenon
<1> HIDE DEF r, resolved, read
<1>7. Sound(c, IF resolved THEN r ELSE NoConn)
  BY <1>5, NoConnIsSound, Zenon
<1> QED  BY <1>2, <1>4, <1>6, <1>7, ReadKeepsCache, ConnStep, Zenon

LEMMA AcquireKeeps == ASSUME IngressInv, NEW c \in Conns, AcquireIngress(c) PROVE IngressInv'
<1> DEFINE r == [conns[c] EXCEPT !.at = "leased"]
<1>1. /\ conns' = [conns EXCEPT ![c] = r] \/ conns' = [conns EXCEPT ![c] = NoConn]
      /\ conns[c].at = "resolved" /\ UNCHANGED <<clock, granted, grants, offered, cache>>
  BY Zenon DEF AcquireIngress
<1>2. Sound(c, conns[c])
  BY SoundOfInv, Zenon
<1>3. PICK s \in IngressConns : s = conns[c]
  BY <1>2, Zenon DEF Sound
<1>4. r \in IngressConns /\ r.at = "leased" /\ r.grant = s.grant /\ r.expires = s.expires /\ r.tick = s.tick
      /\ r.renewed = s.renewed
  <2>1. r = [s EXCEPT !.at = "leased"]
    BY <1>3, Zenon
  <2> HIDE DEF r
  <2> QED  BY <2>1, Zenon DEF IngressConns
<1> HIDE DEF r
<1>5. Sound(c, r)
  BY <1>1, <1>2, <1>3, <1>4, Zenon DEF Sound, Loops
<1> QED  BY <1>1, <1>5, NoConnIsSound, CacheStands, ConnStep, Zenon

LEMMA OpenKeeps == ASSUME IngressInv, NEW c \in Conns, OpenForward(c) PROVE IngressInv'
<1> DEFINE r == [conns[c] EXCEPT !.at = "forwarding",
                                 !.tick = IF c \in Tcp THEN clock + IngressRefresh ELSE conns[c].tick]
<1>1. /\ (clock < conns[c].expires /\ conns' = [conns EXCEPT ![c] = r]) \/ conns' = [conns EXCEPT ![c] = NoConn]
      /\ conns[c].at = "leased" /\ UNCHANGED <<clock, granted, grants, offered, cache>>
  BY Zenon DEF OpenForward
<1>2. Sound(c, conns[c]) /\ clock \in Nat
  BY SoundOfInv, Zenon DEF IngressInv, IngressTypeOK
<1>3. PICK s \in IngressConns : s = conns[c]
  BY <1>2, Zenon DEF Sound
<1>4. PICK t \in Nat : t = IF c \in Tcp THEN clock + IngressRefresh ELSE s.tick
  BY <1>2, <1>3, IngressTimesAssumption DEF IngressConns
<1>5. /\ r \in IngressConns /\ r.at = "forwarding" /\ r.grant = s.grant /\ r.expires = s.expires
      /\ r.tick = t /\ r.renewed = s.renewed
  <2>1. r = [s EXCEPT !.at = "forwarding", !.tick = t]
    BY <1>3, <1>4, Zenon
  <2> HIDE DEF r
  <2> QED  BY <2>1, Zenon DEF IngressConns
<1> HIDE DEF r
<1>6. clock < s.expires => Sound(c, r)
  <2>1. s.expires \in Nat /\ (c \in Browser => c \notin Tcp)
    BY Zenon DEF IngressConns, Tcp, Browser
  <2> QED  BY <1>1, <1>2, <1>3, <1>4, <1>5, <2>1 DEF Sound, Loops
<1> QED  BY <1>1, <1>3, <1>6, NoConnIsSound, CacheStands, ConnStep, Zenon

LEMMA RefreshKeeps == ASSUME IngressInv, NEW c \in Conns, Refresh(c) PROVE IngressInv'
<1>1. PICK fetches \in BOOLEAN :
        LET read == Reads(c, fetches) IN
        /\ cache' = CacheAfter(c, read)
        /\ conns' = [conns EXCEPT ![c] =
               IF Resolves(conns[c], read)
                   THEN [conns[c] EXCEPT !.expires = ExpiresAt(read), !.tick = clock + IngressRefresh,
                                         !.renewed = TRUE]
                   ELSE NoConn]
  BY Zenon DEF Refresh
<1> DEFINE read == Reads(c, fetches)
           r == [conns[c] EXCEPT !.expires = ExpiresAt(read), !.tick = clock + IngressRefresh, !.renewed = TRUE]
<1>2. Recent(read)
  BY ReadIsRecent, Zenon
<1>3. Sound(c, conns[c]) /\ Loops(c, conns[c]) /\ clock \in Nat /\ UNCHANGED <<clock, granted, grants, offered>>
  BY SoundOfInv, Zenon DEF Refresh, Refreshing, Loops, IngressInv, IngressTypeOK
<1>4. Resolves(conns[c], read) => Sound(c, r)
  <2> SUFFICES ASSUME Resolves(conns[c], read) PROVE Sound(c, r)
    BY Zenon
  <2>1. PICK s \in IngressConns, e \in Nat, t \in Nat :
          /\ s = conns[c] /\ e = read.fetched + IngressLifetime /\ t = clock + IngressRefresh
          /\ read.fetched \in Nat
    BY <1>2, <1>3, IngressTimesAssumption DEF Sound, Recent, Snapshots
  <2>2. /\ r \in IngressConns /\ r.at = s.at /\ r.grant = s.grant /\ r.expires = e /\ r.tick = t
    <3>1. r = [s EXCEPT !.expires = e, !.tick = t, !.renewed = TRUE]
      BY <2>1, Zenon DEF ExpiresAt
    <3> HIDE DEF r
    <3> QED  BY <3>1, Zenon DEF IngressConns
  <2> HIDE DEF r, read
  <2>3. /\ read.some /\ read.grant = s.grant /\ clock < e /\ Backed(s.grant, e)
        /\ clock - read.fetched < IngressRefresh
    BY <1>2, <2>1, Zenon DEF Resolves, Recent, ExpiresAt
  <2>4. t < e
    BY <1>3, <2>1, <2>3, IngressTimesAssumption, SMTT(30)
  <2>5. (c \in Tcp => s.at = "forwarding") /\ (s.at \in {"resolved", "leased", "forwarding"}) /\ s.grant # 0
    BY <1>3, <2>1, Zenon DEF Loops, Sound, Tcp, Browser
  <2> QED  BY <1>3, <2>1, <2>2, <2>3, <2>4, <2>5 DEF Sound
<1>5. conns' = [conns EXCEPT ![c] = IF Resolves(conns[c], read) THEN r ELSE NoConn]
      /\ cache' = CacheAfter(c, read)
  BY <1>1, Zenon
<1> HIDE DEF r, read
<1>6. Sound(c, IF Resolves(conns[c], read) THEN r ELSE NoConn)
  BY <1>4, NoConnIsSound, Zenon
<1> QED  BY <1>2, <1>3, <1>5, <1>6, ReadKeepsCache, ConnStep, Zenon

LEMMA EndKeeps == ASSUME IngressInv, NEW c \in Conns, Expire(c) \/ EndForward(c) PROVE IngressInv'
<1>1. conns' = [conns EXCEPT ![c] = NoConn] /\ UNCHANGED <<clock, granted, grants, offered, cache>>
  BY Zenon DEF Expire, EndForward
<1> QED  BY <1>1, NoConnIsSound, CacheStands, ConnStep, ZenonT(30)

(* control.IngressAuthority, public_tcp.go and browser_access.go: every copy   *)
(* of a decision, in the cache, at the listener and with each connection, is   *)
(* one the server stood by a lifetime before it expires at the earliest.       *)
THEOREM DecisionsAreBacked == IngressSpec => []IngressInv
<1>1. IngressInit => IngressInv
  <2> SUFFICES ASSUME IngressInit PROVE IngressInv
    BY Zenon
  <2>1. IngressTypeOK
    BY IngressTimesAssumption
    DEF IngressInit, IngressTypeOK, NoCache, NoOffer, NoConn, Snapshots, Offers, IngressConns
  <2>2. \A c \in Conns : conns[c] = NoConn
    BY Zenon DEF IngressInit
  <2>3. CopiesAreBacked
    BY <2>2, IngressTimesAssumption, SMTT(30) DEF IngressInit, CopiesAreBacked, Backed, NoCache, NoOffer, NoConn
  <2>4. \A c \in Conns : ~Refreshing(c)
    BY <2>2 DEF Refreshing, NoConn
  <2> QED
    BY <2>1, <2>2, <2>3, <2>4, SMTT(30) DEF IngressInv, RefreshesStand, LoopsHaveStarted, RefreshPrecedesExpiry, NoConn
<1>2. IngressInv /\ [IngressNext]_ingressVars => IngressInv'
  <2> SUFFICES ASSUME IngressInv, [IngressNext]_ingressVars PROVE IngressInv'
    BY Zenon
  <2>1. CASE UNCHANGED ingressVars
    <3>1. UNCHANGED <<clock, granted, grants, offered, cache, conns>>
      BY <2>1, Zenon DEF ingressVars
    <3>2. offered' \in Offers /\ Backed(offered'.grant, offered'.expires) /\ conns' \in [Conns -> IngressConns]
      BY <3>1, Zenon DEF IngressInv, IngressTypeOK, CopiesAreBacked
    <3> QED  BY <3>1, <3>2, SoundOfInv, CacheStands, EdgeStep, Zenon
  <2>2. CASE IngressNext
    BY <2>2, ServerKeeps, AdvanceKeeps, IngressReconcileKeeps, ArriveKeeps, ResolveKeeps, AcquireKeeps, OpenKeeps, Zenon,
       RefreshKeeps, EndKeeps DEF IngressNext
  <2> QED  BY <2>1, <2>2, Zenon
<1> QED  BY <1>1, <1>2, PTL DEF IngressSpec

(* "a failed refresh cannot extend cached authority": what a refresh loop      *)
(* forwards, the server stood by at most one lifetime ago, for any number of   *)
(* connections, decisions and failed fetches.                                  *)
THEOREM AuthorityIsRecent == IngressSpec => []ForwardsRecentDecision
<1>1. IngressInv => ForwardsRecentDecision
  <2> SUFFICES ASSUME IngressInv, NEW c \in Conns, Refreshing(c)
               PROVE  conns[c].grant = granted \/ clock <= grants[conns[c].grant] + IngressLifetime
    BY Zenon DEF ForwardsRecentDecision
  <2>1. conns[c].grant \in 1..MaxGrant /\ conns[c].expires \in Nat /\ clock \in Nat /\ clock <= conns[c].expires
    BY SMTT(30) DEF IngressInv, IngressTypeOK, IngressConns, RefreshesStand
  <2>2. grants[conns[c].grant] \in Nat
    BY <2>1, Zenon DEF IngressInv, IngressTypeOK
  <2>3. Backed(conns[c].grant, conns[c].expires)
    BY Zenon DEF IngressInv, CopiesAreBacked
  <2> QED  BY <2>1, <2>2, <2>3, IngressTimesAssumption, SMTT(30) DEF Backed
<1> QED  BY <1>1, DecisionsAreBacked, PTL

(* browser_access.go and public_tcp.go: a connection whose decision stands is  *)
(* refreshed before it expires, because a cached snapshot is never older than  *)
(* one refresh interval and two of them fit in a lifetime.                     *)
THEOREM RefreshComesInTime == IngressSpec => []RefreshPrecedesExpiry
<1>1. IngressInv => RefreshPrecedesExpiry
  BY Zenon DEF IngressInv
<1> QED  BY <1>1, DecisionsAreBacked, PTL

-----------------------------------------------------------------------------
(* The leases                                                                  *)

INSTANCE FiniteSetTheorems

(* The leases that are out, of all the account and of one publication, as      *)
(* functions of the connections.                                               *)
Out(cs) == {c \in Conns : cs[c].at \in {"leased", "forwarding"}}
OutOf(cs, p) == {c \in Out(cs) : PublicationOf[c] = p}
LimitEntries(ac) == {p \in Publications : ac[p] >= 0}

(* A counter: the leases that are out, or there is none while none is.         *)
Counts(n, out) == n = Cardinality(out) \/ (n = -1 /\ Cardinality(out) = 0)

LeaseCounts(cs, ac, total) ==
    /\ ac \in [Publications -> Int] /\ total \in Int
    /\ \A p \in Publications : Counts(ac[p], OutOf(cs, p)) /\ Cardinality(OutOf(cs, p)) <= PublicationLimit
    /\ Counts(total, Out(cs)) /\ Cardinality(Out(cs)) <= AccountLimit
    /\ Cardinality(LimitEntries(ac)) + (IF total >= 0 THEN 1 ELSE 0) <= MaximumLimitEntries

LEMMA OutIsFinite ==
    ASSUME NEW cs
    PROVE  /\ IsFiniteSet(Out(cs)) /\ Cardinality(Out(cs)) \in Nat
           /\ \A p : IsFiniteSet(OutOf(cs, p)) /\ Cardinality(OutOf(cs, p)) \in Nat
<1>1. IsFiniteSet(Out(cs))
  BY IngressLimitsAssumption, FS_Subset, Zenon DEF Out
<1>2. \A p : IsFiniteSet(OutOf(cs, p))
  <2>1. \A p : OutOf(cs, p) \subseteq Out(cs)
    BY Zenon DEF OutOf
  <2> QED  BY <1>1, <2>1, FS_Subset, Zenon
<1> QED  BY <1>1, <1>2, FS_CardinalityType, Zenon

LEMMA EntriesAreFinite ==
    ASSUME NEW ac
    PROVE  IsFiniteSet(LimitEntries(ac)) /\ Cardinality(LimitEntries(ac)) \in Nat
<1>1. LimitEntries(ac) \subseteq Publications
  BY Zenon DEF LimitEntries
<1> QED  BY <1>1, IngressLimitsAssumption, FS_Subset, FS_CardinalityType, Zenon

LEMMA FewerEntries ==
    ASSUME NEW a, NEW b, LimitEntries(b) \subseteq LimitEntries(a), NEW m \in Int, NEW n \in Int,
           n >= 0 => m >= 0,
           Cardinality(LimitEntries(a)) + (IF m >= 0 THEN 1 ELSE 0) <= MaximumLimitEntries
    PROVE  Cardinality(LimitEntries(b)) + (IF n >= 0 THEN 1 ELSE 0) <= MaximumLimitEntries
<1>1. Cardinality(LimitEntries(b)) <= Cardinality(LimitEntries(a))
  BY EntriesAreFinite, FS_Subset, Zenon
<1> QED  BY <1>1, EntriesAreFinite, IngressLimitsAssumption

(* Some of what is out is given back: a counter follows.                       *)
LEMMA CountsLess ==
    ASSUME NEW n \in Int, NEW out, NEW back, IsFiniteSet(out), back \subseteq out, Counts(n, out)
    PROVE  /\ Counts(n - Cardinality(back), out \ back)
           /\ Cardinality(out \ back) <= Cardinality(out)
           /\ n - Cardinality(back) \in Int
           /\ n - Cardinality(back) >= 0 <=> n >= 0
<1>1. IsFiniteSet(back) /\ Cardinality(back) \in Nat /\ Cardinality(out) \in Nat
      /\ Cardinality(back) <= Cardinality(out)
  BY FS_Subset, FS_CardinalityType, Zenon
<1>2. Cardinality(out \ back) = Cardinality(out) - Cardinality(back)
  <2>1. out \cap back = back
    BY Zenon
  <2>2. Cardinality(out \ back) = Cardinality(out) - Cardinality(out \cap back)
    BY FS_Difference, Zenon
  <2> QED  BY <2>1, <2>2, Zenon
<1> QED  BY <1>1, <1>2 DEF Counts

(* IngressLease.Release, of any number of leases.                              *)
LEMMA ReleaseCounts ==
    ASSUME NEW cs, NEW ac, NEW total, LeaseCounts(cs, ac, total), NEW new, NEW back,
           back \subseteq Out(cs), Out(new) = Out(cs) \ back,
           NEW ad, ad = [p \in Publications |-> ac[p] - Cardinality({c \in back : PublicationOf[c] = p})],
           NEW td, td = total - Cardinality(back)
    PROVE  LeaseCounts(new, ad, td)
<1>1. \A p \in Publications :
        /\ {c \in back : PublicationOf[c] = p} \subseteq OutOf(cs, p)
        /\ OutOf(new, p) = OutOf(cs, p) \ {c \in back : PublicationOf[c] = p}
  BY Zenon DEF OutOf
<1>2. ASSUME NEW p \in Publications
      PROVE  /\ ad[p] \in Int /\ Counts(ad[p], OutOf(new, p)) /\ (ad[p] >= 0 <=> ac[p] >= 0)
             /\ Cardinality(OutOf(new, p)) <= PublicationLimit
  <2>1. PICK gone : gone = {c \in back : PublicationOf[c] = p}
    BY Zenon
  <2>2. gone \subseteq OutOf(cs, p) /\ OutOf(new, p) = OutOf(cs, p) \ gone /\ ad[p] = ac[p] - Cardinality(gone)
    BY <1>1, <2>1, Zenon
  <2>3. ac[p] \in Int /\ IsFiniteSet(OutOf(cs, p)) /\ Counts(ac[p], OutOf(cs, p))
        /\ Cardinality(OutOf(cs, p)) <= PublicationLimit
    BY OutIsFinite, Zenon DEF LeaseCounts
  <2>4. /\ Counts(ac[p] - Cardinality(gone), OutOf(cs, p) \ gone)
        /\ Cardinality(OutOf(cs, p) \ gone) <= Cardinality(OutOf(cs, p))
        /\ ac[p] - Cardinality(gone) \in Int
        /\ ac[p] - Cardinality(gone) >= 0 <=> ac[p] >= 0
    BY <2>2, <2>3, CountsLess, Zenon
  <2>5. Cardinality(OutOf(new, p)) \in Nat /\ Cardinality(OutOf(cs, p)) \in Nat
    BY OutIsFinite, Zenon
  <2>6. Cardinality(OutOf(new, p)) <= PublicationLimit
    BY <2>2, <2>3, <2>4, <2>5, IngressLimitsAssumption, SMTT(30)
  <2> QED  BY <2>2, <2>4, <2>6, Zenon
<1>3. /\ Counts(td, Out(new)) /\ td \in Int /\ (td >= 0 <=> total >= 0)
      /\ Cardinality(Out(new)) <= AccountLimit
  <2>1. total \in Int /\ IsFiniteSet(Out(cs)) /\ Counts(total, Out(cs)) /\ Cardinality(Out(cs)) <= AccountLimit
    BY OutIsFinite, Zenon DEF LeaseCounts
  <2>2. /\ Counts(total - Cardinality(back), Out(cs) \ back)
        /\ Cardinality(Out(cs) \ back) <= Cardinality(Out(cs))
        /\ total - Cardinality(back) \in Int
        /\ total - Cardinality(back) >= 0 <=> total >= 0
    BY <2>1, CountsLess, Zenon
  <2>3. Cardinality(Out(new)) \in Nat /\ Cardinality(Out(cs)) \in Nat
    BY OutIsFinite, Zenon
  <2> QED  BY <2>1, <2>2, <2>3, IngressLimitsAssumption
<1>4. LimitEntries(ad) \subseteq LimitEntries(ac)
  BY <1>2, Zenon DEF LimitEntries
<1>5. Cardinality(LimitEntries(ad)) + (IF td >= 0 THEN 1 ELSE 0) <= MaximumLimitEntries
  BY <1>3, <1>4, FewerEntries, Zenon DEF LeaseCounts
<1>6. ad \in [Publications -> Int]
  BY <1>2, Zenon
<1> QED  BY <1>2, <1>3, <1>5, <1>6, Zenon DEF LeaseCounts

(* expireIdle: the states that are forgotten counted nothing.                  *)
Forgotten(ac, idle) == [q \in Publications |-> IF q \in idle THEN -1 ELSE ac[q]]

LEMMA ForgetCounts ==
    ASSUME NEW cs, NEW ac, NEW total, LeaseCounts(cs, ac, total),
           NEW idle, \A q \in idle : ac[q] = 0,
           NEW known, known = total \/ (known = -1 /\ total = 0)
    PROVE  LeaseCounts(cs, Forgotten(ac, idle), known)
<1>1. PICK kept : kept = Forgotten(ac, idle)
  BY Zenon
<1>2. \A q \in Publications : kept[q] = ac[q] \/ (kept[q] = -1 /\ ac[q] = 0)
  BY <1>1, Zenon DEF Forgotten
<1>3. kept \in [Publications -> Int]
  BY <1>1, <1>2 DEF Forgotten, LeaseCounts
<1>4. \A q \in Publications : Counts(kept[q], OutOf(cs, q))
  BY <1>2, OutIsFinite, Zenon DEF LeaseCounts, Counts
<1>5. known \in Int /\ Counts(known, Out(cs))
  BY OutIsFinite DEF LeaseCounts, Counts
<1>6. Cardinality(LimitEntries(kept)) + (IF known >= 0 THEN 1 ELSE 0) <= MaximumLimitEntries
  <2>1. LimitEntries(kept) \subseteq LimitEntries(ac)
    BY <1>2 DEF LimitEntries
  <2>2. known >= 0 => total >= 0
    OBVIOUS
  <2> QED  BY <1>5, <2>1, <2>2, FewerEntries, Zenon DEF LeaseCounts
<1> QED  BY <1>1, <1>3, <1>4, <1>5, <1>6, Zenon DEF LeaseCounts

(* acquire: one lease more.                                                    *)
LEMMA AcquireCounts ==
    ASSUME NEW cs, NEW ac, NEW total, LeaseCounts(cs, ac, total),
           NEW c \in Conns, c \notin Out(cs), NEW new, Out(new) = Out(cs) \cup {c},
           NEW p \in Publications, p = PublicationOf[c],
           NEW n \in Nat, n = IF ac[p] < 0 THEN 0 ELSE ac[p], n < PublicationLimit,
           NEW m \in Nat, m = IF total < 0 THEN 0 ELSE total, m < AccountLimit,
           Cardinality(LimitEntries(ac) \cup {p}) + 1 <= MaximumLimitEntries,
           NEW ad, ad = [ac EXCEPT ![p] = n + 1]
    PROVE  LeaseCounts(new, ad, m + 1)
<1>1. ad \in [Publications -> Int] /\ ad[p] = n + 1 /\ \A q \in Publications \ {p} : ad[q] = ac[q]
  BY DEF LeaseCounts
<1>2. Cardinality(Out(new)) = m + 1
  <2>1. Cardinality(Out(cs)) = m
    BY OutIsFinite DEF LeaseCounts, Counts
  <2> QED  BY <2>1, OutIsFinite, FS_AddElement, Zenon
<1>3. Cardinality(OutOf(new, p)) = n + 1
  <2>1. Cardinality(OutOf(cs, p)) = n
    BY OutIsFinite DEF LeaseCounts, Counts
  <2>2. OutOf(new, p) = OutOf(cs, p) \cup {c} /\ c \notin OutOf(cs, p)
    BY Zenon DEF OutOf
  <2>3. IsFiniteSet(OutOf(cs, p))
    BY OutIsFinite, Zenon
  <2>4. Cardinality(OutOf(cs, p) \cup {c}) = Cardinality(OutOf(cs, p)) + 1
    BY <2>2, <2>3, FS_AddElement, Zenon
  <2> QED  BY <2>1, <2>2, <2>4, Zenon
<1>4. \A q \in Publications \ {p} : OutOf(new, q) = OutOf(cs, q)
  BY Zenon DEF OutOf
<1>5. \A q \in Publications : Counts(ad[q], OutOf(new, q)) /\ Cardinality(OutOf(new, q)) <= PublicationLimit
  <2>1. SUFFICES ASSUME NEW q \in Publications
                 PROVE  Counts(ad[q], OutOf(new, q)) /\ Cardinality(OutOf(new, q)) <= PublicationLimit
    BY Zenon
  <2>2. CASE q = p
    BY <1>1, <1>3, <2>2, IngressLimitsAssumption DEF Counts
  <2>3. CASE q # p
    BY <1>1, <1>4, <2>3, Zenon DEF LeaseCounts
  <2> QED  BY <2>2, <2>3, Zenon
<1>6. Cardinality(LimitEntries(ad)) + 1 <= MaximumLimitEntries
  <2>1. LimitEntries(ad) \subseteq LimitEntries(ac) \cup {p}
    BY <1>1, Zenon DEF LimitEntries
  <2>2. IsFiniteSet(LimitEntries(ac) \cup {p})
    BY EntriesAreFinite, FS_AddElement, Zenon
  <2>3. Cardinality(LimitEntries(ad)) <= Cardinality(LimitEntries(ac) \cup {p}) /\ Cardinality(LimitEntries(ac) \cup {p}) \in Nat
    BY <2>1, <2>2, FS_Subset, FS_CardinalityType, Zenon
  <2> QED  BY <2>3, EntriesAreFinite, IngressLimitsAssumption
<1>7. Counts(m + 1, Out(new)) /\ Cardinality(Out(new)) <= AccountLimit /\ m + 1 \in Int /\ m + 1 >= 0
  BY <1>2, IngressLimitsAssumption DEF Counts
<1> QED  BY <1>1, <1>5, <1>6, <1>7, Zenon DEF LeaseCounts

LeaseInv == LeaseCounts(conns, active, account)

LEMMA SameLeases ==
    ASSUME LeaseInv, UNCHANGED limitVars, Out(conns') = Out(conns)
    PROVE  LeaseInv'
<1>1. \A p : OutOf(conns', p) = OutOf(conns, p)
  BY Zenon DEF OutOf
<1> QED  BY <1>1, Zenon DEF LeaseInv, LeaseCounts, limitVars

LEMMA ReleaseStep ==
    ASSUME LeaseInv, Release(conns'),
           \A c \in Conns : conns'[c].at = "idle" \/ (c \in Out(conns') <=> c \in Out(conns))
    PROVE  LeaseInv'
<1>1. PICK back : back = {c \in Conns : Leased(c) /\ conns'[c].at = "idle"}
  BY Zenon
<1>2. /\ active' = [p \in Publications |-> active[p] - Cardinality({c \in back : PublicationOf[c] = p})]
      /\ account' = account - Cardinality(back)
  BY <1>1, Zenon DEF Release
<1>3. back \subseteq Out(conns) /\ Out(conns') = Out(conns) \ back
  BY <1>1, Zenon DEF Leased, Out
<1> QED  BY <1>2, <1>3, ReleaseCounts, Zenon DEF LeaseInv

LEMMA AcquireStep ==
    ASSUME IngressTypeOK, LeaseInv, NEW c \in Conns, AcquireIngress(c)
    PROVE  LeaseInv'
<1>1. PICK p \in Publications : p = PublicationOf[c]
  BY IngressLimitsAssumption, Zenon
<1>2. PICK idle \in SUBSET {q \in Publications : IdleEntry(q)}, drops \in {FALSE, IdleAccount} :
        LET kept == expireIdle(idle)
            known == IF drops THEN -1 ELSE account
        IN  \/ /\ Cardinality(WithEntry(kept, p)) + 1 <= MaximumLimitEntries
               /\ HasRoom(Holding(kept[p]), Holding(known)) /\ clock < conns[c].expires
               /\ active' = [kept EXCEPT ![p] = Holding(@) + 1] /\ account' = Holding(known) + 1
               /\ conns' = [conns EXCEPT ![c].at = "leased"]
            \/ /\ active' = kept /\ account' = known
               /\ conns' = [conns EXCEPT ![c] = NoConn]
  BY <1>1, Zenon DEF AcquireIngress
<1>3. PICK kept : kept = expireIdle(idle) /\ kept = Forgotten(active, idle)
  BY Zenon DEF expireIdle, Forgotten
<1>4. PICK known : known = IF drops THEN -1 ELSE account
  BY Zenon
<1>5. LeaseCounts(conns, kept, known)
  <2>1. known = account \/ (known = -1 /\ account = 0)
    BY <1>4, Zenon DEF IdleAccount
  <2>2. \A q \in idle : active[q] = 0
    BY Zenon DEF IdleEntry
  <2> QED  BY <1>3, <2>1, <2>2, ForgetCounts, Zenon DEF LeaseInv
<1>6. kept[p] \in Int /\ known \in Int /\ kept \in [Publications -> Int]
  BY <1>5, Zenon DEF LeaseCounts
<1>7. PICK count \in Nat : count = (IF kept[p] < 0 THEN 0 ELSE kept[p]) /\ count = Holding(kept[p])
  BY <1>6 DEF Holding
<1>8. PICK total \in Nat : total = (IF known < 0 THEN 0 ELSE known) /\ total = Holding(known)
  BY <1>6 DEF Holding
<1>9. conns \in [Conns -> IngressConns] /\ conns[c].at = "resolved" /\ conns[c] \in IngressConns
  BY Zenon DEF IngressTypeOK, AcquireIngress
<1>10. CASE /\ Cardinality(LimitEntries(kept) \cup {p}) + 1 <= MaximumLimitEntries
            /\ count < PublicationLimit /\ total < AccountLimit
            /\ active' = [kept EXCEPT ![p] = count + 1] /\ account' = total + 1
            /\ conns' = [conns EXCEPT ![c].at = "leased"]
  <2>1. c \notin Out(conns) /\ Out(conns') = Out(conns) \cup {c}
    <3>1. conns'[c].at = "leased" /\ \A d \in Conns \ {c} : conns'[d] = conns[d]
      BY <1>9, <1>10, Zenon DEF IngressConns
    <3> QED  BY <1>9, <3>1, Zenon DEF Out
  <2>2. LeaseCounts(conns', active', total + 1)
    BY <1>1, <1>5, <1>7, <1>8, <1>10, <2>1, AcquireCounts, Zenon
  <2> QED  BY <1>10, <2>2, Zenon DEF LeaseInv
<1>11. CASE active' = kept /\ account' = known /\ conns' = [conns EXCEPT ![c] = NoConn]
  <2>1. Out(conns') = Out(conns)
    BY <1>9, <1>11, Zenon DEF Out, NoConn
  <2>2. \A q : OutOf(conns', q) = OutOf(conns, q)
    BY <2>1, Zenon DEF OutOf
  <2> QED  BY <1>5, <1>11, <2>1, <2>2, Zenon DEF LeaseInv, LeaseCounts
<1>12. LimitEntries(kept) \cup {p} = WithEntry(kept, p)
  BY Zenon DEF LimitEntries, WithEntry
<1>13. [kept EXCEPT ![p] = Holding(@) + 1] = [kept EXCEPT ![p] = count + 1]
  BY <1>6, <1>7, Zenon
<1>14. \/ /\ Cardinality(WithEntry(kept, p)) + 1 <= MaximumLimitEntries
          /\ HasRoom(Holding(kept[p]), Holding(known)) /\ clock < conns[c].expires
          /\ active' = [kept EXCEPT ![p] = Holding(@) + 1] /\ account' = Holding(known) + 1
          /\ conns' = [conns EXCEPT ![c].at = "leased"]
       \/ /\ active' = kept /\ account' = known
          /\ conns' = [conns EXCEPT ![c] = NoConn]
  BY <1>2, <1>3, <1>4, Zenon
<1> QED  BY <1>7, <1>8, <1>10, <1>11, <1>12, <1>13, <1>14, Zenon DEF HasRoom

LEMMA LeaseStep ==
    ASSUME IngressTypeOK, LeaseInv, IngressNext
    PROVE  LeaseInv'
<1>1. conns \in [Conns -> IngressConns]
  BY Zenon DEF IngressTypeOK
<1>2. ASSUME (\E g \in 0..MaxGrant : ServerDecides(g)) \/ Advance
      PROVE  LeaseInv'
  <2>1. conns' = conns /\ UNCHANGED limitVars
    BY <1>2, Zenon DEF ServerDecides, Advance
  <2> QED  BY <2>1, SameLeases, Zenon
<1>3. CASE Reconcile
  <2>1. PICK stands \in BOOLEAN : conns' = [c \in Conns |-> Ended(c, ~stands /\ c \in Tcp)] /\ Release(conns')
    BY <1>3, Zenon DEF Reconcile
  <2>2. \A c \in Conns : conns'[c].at = "idle" \/ conns'[c] = conns[c]
    BY <2>1, Zenon DEF Ended, NoConn
  <2>3. \A c \in Conns : conns'[c].at = "idle" \/ (c \in Out(conns') <=> c \in Out(conns))
    BY <2>2, Zenon DEF Out
  <2> QED  BY <2>1, <2>3, ReleaseStep, Zenon
<1>4. ASSUME NEW c \in Conns, Arrive(c) \/ Resolve(c)
      PROVE  LeaseInv'
  <2>1. UNCHANGED limitVars /\ \A d \in Conns \ {c} : conns'[d] = conns[d]
    BY <1>1, <1>4, Zenon DEF Arrive, Resolve
  <2>2. conns[c].at \in {"idle", "accepted"} /\ conns'[c].at \in {"idle", "accepted", "resolved"}
    <3>1. CASE Arrive(c)
      BY <1>1, <3>1, Zenon DEF Arrive, IngressConns
    <3>2. CASE Resolve(c)
      <4>1. PICK fetches \in BOOLEAN, r \in BOOLEAN :
              conns'[c] = IF r THEN [conns[c] EXCEPT !.at = "resolved", !.grant = Reads(c, fetches).grant,
                                               !.expires = ExpiresAt(Reads(c, fetches)),
                                               !.tick = IF c \in Browser THEN clock + IngressRefresh ELSE 0]
                          ELSE NoConn
        BY <1>1, <3>2, Zenon DEF Resolve
      <4>2. conns[c].at = "accepted" /\ conns[c] \in IngressConns
        BY <1>1, <3>2, Zenon DEF Resolve
      <4> QED  BY <4>1, <4>2 DEF IngressConns, NoConn
    <3> QED  BY <1>4, <3>1, <3>2, Zenon
  <2>3. Out(conns') = Out(conns)
    BY <2>1, <2>2, Zenon DEF Out
  <2> QED  BY <2>1, <2>3, SameLeases, Zenon
<1>5. ASSUME NEW c \in Conns, AcquireIngress(c)
      PROVE  LeaseInv'
  BY <1>5, AcquireStep, Zenon
<1>6. ASSUME NEW c \in Conns, OpenForward(c)
      PROVE  LeaseInv'
  <2>1. conns[c].at = "leased" /\ conns[c] \in IngressConns
    BY <1>1, <1>6, Zenon DEF OpenForward
  <2>2. CASE /\ conns' = [conns EXCEPT ![c].at = "forwarding",
                                       ![c].tick = IF c \in Tcp THEN clock + IngressRefresh ELSE @]
             /\ UNCHANGED limitVars
    <3>1. conns'[c].at = "forwarding" /\ \A d \in Conns \ {c} : conns'[d] = conns[d]
      BY <1>1, <2>1, <2>2, Zenon DEF IngressConns
    <3>2. Out(conns') = Out(conns)
      BY <2>1, <3>1, Zenon DEF Out
    <3> QED  BY <2>2, <3>2, SameLeases, Zenon
  <2>3. CASE conns' = [conns EXCEPT ![c] = NoConn] /\ Release(conns')
    <3>1. \A d \in Conns : conns'[d].at = "idle" \/ (d \in Out(conns') <=> d \in Out(conns))
      BY <1>1, <2>3, Zenon DEF Out, NoConn
    <3> QED  BY <2>3, <3>1, ReleaseStep, Zenon
  <2> QED  BY <1>6, <2>2, <2>3, Zenon DEF OpenForward
<1>7. ASSUME NEW c \in Conns, Refresh(c)
      PROVE  LeaseInv'
  <2>1. PICK fetches \in BOOLEAN, r \in BOOLEAN :
          conns' = [conns EXCEPT ![c] = IF r
                      THEN [conns[c] EXCEPT !.expires = ExpiresAt(Reads(c, fetches)),
                                            !.tick = clock + IngressRefresh, !.renewed = TRUE]
                      ELSE NoConn]
    BY <1>7, Zenon DEF Refresh
  <2>2. Release(conns')
    BY <1>7, Zenon DEF Refresh
  <2>3. conns'[c].at \in {"idle", conns[c].at} /\ \A d \in Conns \ {c} : conns'[d] = conns[d]
    <3>1. conns[c] \in IngressConns
      BY <1>1, Zenon
    <3> QED  BY <1>1, <2>1, <3>1, Zenon DEF IngressConns, NoConn
  <2>4. \A d \in Conns : conns'[d].at = "idle" \/ (d \in Out(conns') <=> d \in Out(conns))
    BY <2>3, Zenon DEF Out
  <2> QED  BY <2>2, <2>4, ReleaseStep, Zenon
<1>8. ASSUME NEW c \in Conns, Expire(c) \/ EndForward(c)
      PROVE  LeaseInv'
  <2>1. conns' = [conns EXCEPT ![c] = NoConn] /\ Release(conns')
    BY <1>8, Zenon DEF Expire, EndForward
  <2>2. \A d \in Conns : conns'[d].at = "idle" \/ (d \in Out(conns') <=> d \in Out(conns))
    BY <1>1, <2>1, Zenon DEF Out, NoConn
  <2> QED  BY <2>1, <2>2, ReleaseStep, Zenon
<1> QED  BY <1>2, <1>3, <1>4, <1>5, <1>6, <1>7, <1>8, Zenon DEF IngressNext

LEMMA LeaseInit == IngressInit => LeaseInv
<1>1. SUFFICES ASSUME IngressInit
               PROVE  LeaseInv
  BY Zenon
<1>2. Out(conns) = {} /\ \A p : OutOf(conns, p) = {}
  BY <1>1, Zenon DEF IngressInit, Out, OutOf, NoConn
<1>3. LimitEntries(active) = {}
  BY <1>1 DEF IngressInit, LimitEntries
<1>4. Cardinality(Out(conns)) = 0 /\ Cardinality(LimitEntries(active)) = 0 /\ \A p : Cardinality(OutOf(conns, p)) = 0
  BY <1>2, <1>3, FS_EmptySet, Zenon
<1>5. active \in [Publications -> Int] /\ account = -1 /\ \A p \in Publications : active[p] = -1
  BY <1>1 DEF IngressInit
<1> QED  BY <1>4, <1>5, IngressLimitsAssumption DEF LeaseInv, LeaseCounts, Counts

(* IngressLimits: the counters of every publication and of the account are the *)
(* leases that are out, whichever way a connection ended, no limit and not the *)
(* bound on the states is exceeded, and a lease is never lost.                 *)
THEOREM EveryLeaseIsCounted == IngressSpec => []LeasesAreCounted
<1>1. IngressInit => LeaseInv
  BY LeaseInit, Zenon
<1>2. IngressInv /\ LeaseInv /\ [IngressNext]_ingressVars => LeaseInv'
  <2>1. ASSUME LeaseInv, UNCHANGED ingressVars
        PROVE  LeaseInv'
    BY <2>1, SameLeases, Zenon DEF ingressVars, limitVars
  <2> QED  BY <2>1, LeaseStep, Zenon DEF IngressInv
<1>3. LeaseInv => LeasesAreCounted
  <2>1. \A p : {c \in Conns : Leased(c) /\ PublicationOf[c] = p} = OutOf(conns, p)
    BY Zenon DEF OutOf, Out, Leased
  <2>2. {c \in Conns : Leased(c)} = Out(conns) /\ Present = LimitEntries(active)
    BY Zenon DEF Out, Leased, Present, LimitEntries
  <2> QED  BY <2>1, <2>2, Zenon DEF LeaseInv, LeaseCounts, Counts, LeasesAreCounted, AccountPresent
<1> QED  BY <1>1, <1>2, <1>3, DecisionsAreBacked, PTL DEF IngressSpec
=============================================================================
