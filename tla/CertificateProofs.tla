------------------------- MODULE CertificateProofs -------------------------
(* Proofs about CertificateRegistry for any bindings, certificates and names:  *)
(* its index, what a handshake is given, that a served hostname stays served,  *)
(* and that no older certificate comes back; and about CertificateBroker for   *)
(* any callers and names: that Shutdown leaves nothing running, and that a     *)
(* name marked exact is never answered with the wildcard; and about            *)
(* CredentialRotation for any plan of connectors and any number of challenges, *)
(* processes, crashes, and lost, repeated or reordered frames.                 *)
EXTENDS CertificateRegistry, CertificateBroker, CredentialRotation, TLAPS

(* What one critical section does to the entries and the index.                *)
Keeps == UNCHANGED <<entries, activeKey>>
Sweeps(now) == entries' = expiredEntries(now) /\ activeKey' = expiredActive(now)
Stages(b, c, now) ==
    /\ expiredEntries(now)[Key(b)].state = "none"
    /\ Covers(c, b.host)
    /\ entries' = Staged(b, c, expiredEntries(now)) /\ activeKey' = expiredActive(now)
Lapses(k) == Lapsed(k, entries[k], certClock) /\ ExpireEntry(k)
MarksReady(k) ==
    /\ entries[k].state = "staged"
    /\ entries' = [entries EXCEPT ![k].state = "ready"] /\ UNCHANGED activeKey
Activates(b) ==
    LET k == Key(b)
        previous == activeKey[b.host]
    IN  /\ entries[k].state = "ready"
        /\ previous # Nothing => b.dgen >= previous.dgen /\ b.cgen >= previous.cgen
        /\ entries' = [j \in BindingKeys |->
                         IF j = k THEN [entries[k] EXCEPT !.state = "active"]
                         ELSE IF j = previous THEN ReplacedEntry(k, previous)
                         ELSE entries[j]]
        /\ activeKey' = [activeKey EXCEPT ![b.host] = k]
Forgets(k) ==
    /\ ~(entries[k].state = "active" /\ activeKey[k.host] = k)
    /\ entries' = [entries EXCEPT ![k] = NoEntry] /\ UNCHANGED activeKey
Revokes(k) ==
    /\ entries' = [entries EXCEPT ![k] = NoEntry]
    /\ activeKey' = IF activeKey[k.host] = k THEN [activeKey EXCEPT ![k.host] = Nothing] ELSE activeKey
Clears ==
    /\ certsClosed'
    /\ entries' = [k \in BindingKeys |-> NoEntry] /\ activeKey' = [h \in CertHosts |-> Nothing]

(* bindingKey keeps everything of a binding but the end of its lease.          *)
LEMMA KeyFields ==
    ASSUME NEW b \in Bindings
    PROVE  /\ Key(b) \in BindingKeys /\ b.host \in CertHosts
           /\ Key(b).host = b.host /\ Key(b).dgen = b.dgen /\ Key(b).cgen = b.cgen
           /\ Key(b).kind = b.kind /\ Key(b).onDemand = b.onDemand
           /\ {b.dgen, b.cgen, b.agen, b.until} \subseteq Nat
  BY CertificateAssumption DEF Key, BindingKeys, CertHosts

LEMMA BindingKeyFields ==
    ASSUME NEW k \in BindingKeys
    PROVE  k.host \in CertHosts /\ k # Nothing /\ k.dgen \in Nat /\ k.cgen \in Nat /\ k.onDemand \in BOOLEAN
<1>1. PICK b \in Bindings : k = Key(b)
  BY Zenon DEF BindingKeys
<1>2. k # Nothing
  BY CertificateAssumption, Zenon
<1>3. b.onDemand \in BOOLEAN
  BY CertificateAssumption, Zenon
<1> QED  BY <1>1, <1>2, <1>3, KeyFields, Zenon

(* A reading of the clock is not ahead of it, so what lapsed then has lapsed.  *)
LEMMA LapsedLater ==
    ASSUME CertTypeOK, NEW k \in BindingKeys, NEW now \in Readings,
           entries[k].cert \in Certificates, Lapsed(k, entries[k], now)
    PROVE  Lapsed(k, entries[k], certClock)
<1>1. now \in Int /\ now <= certClock /\ certClock \in Nat
  BY DEF CertTypeOK, Readings
<1>2. entries[k].until \in Nat /\ NotAfter[entries[k].cert] \in Nat
  BY CertificateAssumption, Zenon DEF CertTypeOK
<1> QED  BY <1>1, <1>2 DEF Lapsed, LeaseOver

-----------------------------------------------------------------------------
(* Every step does one of these things to the entries and the index.           *)
LEMMA Effects ==
    ASSUME CertInv, [CertNext]_certVars
    PROVE  \/ Keeps
           \/ \E now \in Readings : Sweeps(now)
           \/ \E b \in Bindings, c \in Certificates, now \in Readings : Stages(b, c, now)
           \/ \E k \in BindingKeys : Lapses(k)
           \/ \E k \in BindingKeys : MarksReady(k)
           \/ \E b \in Bindings : Activates(b)
           \/ \E k \in BindingKeys : Forgets(k)
           \/ \E b \in Bindings, c \in Certificates : RevokeMessage(b, c) /\ Revokes(Key(b))
           \/ Clears
<1> DEFINE Effect ==
           \/ Keeps
           \/ \E now \in Readings : Sweeps(now)
           \/ \E b \in Bindings, c \in Certificates, now \in Readings : Stages(b, c, now)
           \/ \E k \in BindingKeys : Lapses(k)
           \/ \E k \in BindingKeys : MarksReady(k)
           \/ \E b \in Bindings : Activates(b)
           \/ \E k \in BindingKeys : Forgets(k)
           \/ \E b \in Bindings, c \in Certificates : RevokeMessage(b, c) /\ Revokes(Key(b))
           \/ Clears
<1> SUFFICES Effect
  BY Zenon
<1>1. CASE UNCHANGED certVars
  BY <1>1, Zenon DEF certVars, Keeps
<1>2. CASE Pull \/ Cancel \/ Abandon \/ CertTick
  BY <1>2, Zenon DEF Pull, Cancel, Abandon, CertTick, Keeps
<1>3. CASE Close
  BY <1>3, Zenon DEF Close, Clears
<1>4. CASE Lookup
  <2>1. certClock \in Readings
    BY Zenon DEF Readings
  <2> QED  BY <1>4, <2>1, Zenon DEF Lookup, Sweeps
<1>5. CASE ReadyMessage
  <2> DEFINE k == Key(half[1])
  <2>1. half[1] \in Bindings /\ k \in BindingKeys
    BY <1>5, KeyFields, Zenon DEF ReadyMessage, CertInv, CertTypeOK
  <2>2. \/ Keeps
        \/ Lapsed(k, entries[k], certClock) /\ ExpireEntry(k)
        \/ MarksReady(k)
    <3> HIDE DEF k
    <3> QED  BY <1>5, Zenon DEF ReadyMessage, Keeps, MarksReady, k
  <2> HIDE DEF k
  <2> QED  BY <2>1, <2>2, Zenon DEF Lapses
<1>6. ASSUME NEW b \in Bindings, NEW c \in Certificates, StageMessage(b, c)
      PROVE  Effect
  <2>1. PICK now \in Readings :
            \/ Keeps
            \/ Sweeps(now)
            \/ /\ validateBundle(c, b.host, now) /\ MayStage(b, c, expiredEntries(now), expiredActive(now))
               /\ entries' = Staged(b, c, expiredEntries(now)) /\ activeKey' = expiredActive(now)
    BY <1>6, Zenon DEF StageMessage, Keeps, Sweeps
  <2>2. Keeps \/ Sweeps(now) \/ Stages(b, c, now)
    BY <2>1, Zenon DEF Stages, MayStage, validateBundle
  <2> QED  BY <2>2, Zenon
<1>7. ASSUME NEW b \in Bindings, NEW c \in Certificates, ActivateMessage(b, c)
      PROVE  Effect
  <2>1. Key(b) \in BindingKeys
    BY KeyFields, Zenon
  <2>2. PICK now \in Readings :
            \/ Keeps
            \/ HoldsCandidate(b, c) /\ Lapsed(Key(b), entries[Key(b)], now) /\ ExpireEntry(Key(b))
            \/ /\ entries[Key(b)].state = "ready"
               /\ activeKey[b.host] # Nothing =>
                     ~Fenced(b, c, activeKey[b.host], entries[activeKey[b.host]].cert)
               /\ entries' = [j \in BindingKeys |->
                                IF j = Key(b) THEN [entries[Key(b)] EXCEPT !.state = "active"]
                                ELSE IF j = activeKey[b.host] THEN ReplacedEntry(Key(b), activeKey[b.host])
                                ELSE entries[j]]
               /\ activeKey' = [activeKey EXCEPT ![b.host] = Key(b)]
    BY <1>7, Zenon DEF ActivateMessage, Keeps
  <2>3. CASE HoldsCandidate(b, c) /\ Lapsed(Key(b), entries[Key(b)], now) /\ ExpireEntry(Key(b))
    BY <2>1, <2>3, LapsedLater, Zenon DEF HoldsCandidate, Lapses, CertInv
  <2>4. ASSUME activeKey[b.host] # Nothing,
               ~Fenced(b, c, activeKey[b.host], entries[activeKey[b.host]].cert)
        PROVE  b.dgen >= activeKey[b.host].dgen /\ b.cgen >= activeKey[b.host].cgen
    <3>1. activeKey[b.host] \in BindingKeys
      BY <2>4, KeyFields, Zenon DEF CertInv, CertTypeOK
    <3> QED  BY <2>4, <3>1, KeyFields, BindingKeyFields DEF Fenced
  <2> QED  BY <2>2, <2>3, <2>4, Zenon DEF Activates
<1>8. ASSUME NEW b \in Bindings, NEW c \in Certificates, RetireMessage(b, c)
      PROVE  Effect
  <2>1. Key(b) \in BindingKeys /\ Key(b).host = b.host
    BY KeyFields, Zenon
  <2>2. Keeps \/ Forgets(Key(b))
    BY <1>8, <2>1, Zenon DEF RetireMessage, Keeps, Forgets
  <2> QED  BY <2>1, <2>2, Zenon
<1>9. ASSUME NEW b \in Bindings, NEW c \in Certificates, RevokeMessage(b, c)
      PROVE  Effect
  <2>1. Key(b).host = b.host
    BY KeyFields, Zenon
  <2>2. Keeps \/ Revokes(Key(b))
    BY <1>9, <2>1, Zenon DEF RevokeMessage, Keeps, Revokes
  <2> QED  BY <1>9, <2>2, Zenon
<1> HIDE DEF Effect
<1> QED  BY <1>1, <1>2, <1>3, <1>4, <1>5, <1>6, <1>7, <1>8, <1>9, Zenon DEF CertNext

-----------------------------------------------------------------------------
EntryType == [state : {"none", "staged", "ready", "active", "retired", "expired"},
              cert : Certificates \cup {Nothing}, until : Nat, wiped : BOOLEAN]

LEMMA SweepTypes ==
    ASSUME CertTypeOK, NEW now
    PROVE  /\ expiredEntries(now) \in [BindingKeys -> EntryType]
           /\ expiredActive(now) \in [CertHosts -> BindingKeys \cup {Nothing}]
           /\ \A k \in BindingKeys : entries[k] \in EntryType
<1>1. \A k \in BindingKeys : entries[k] \in EntryType
  BY Zenon DEF CertTypeOK, EntryType
<1>2. \A k \in BindingKeys : [entries[k] EXCEPT !.state = "expired", !.wiped = TRUE] \in EntryType
  BY <1>1, Zenon DEF EntryType
<1>3. expiredEntries(now) \in [BindingKeys -> EntryType]
  BY <1>1, <1>2, Zenon DEF expiredEntries
<1>4. expiredActive(now) \in [CertHosts -> BindingKeys \cup {Nothing}]
  BY Zenon DEF CertTypeOK, expiredActive
<1> QED  BY <1>1, <1>3, <1>4, Zenon

LEMMA NoEntryType == NoEntry \in EntryType
  BY Zenon DEF NoEntry, EntryType

(* The entries and the index keep their types.                                 *)
LEMMA EntriesTyped ==
    ASSUME CertInv, [CertNext]_certVars
    PROVE  /\ entries' \in [BindingKeys -> EntryType]
           /\ activeKey' \in [CertHosts -> BindingKeys \cup {Nothing}]
<1> DEFINE Goal == /\ entries' \in [BindingKeys -> EntryType]
                   /\ activeKey' \in [CertHosts -> BindingKeys \cup {Nothing}]
<1> SUFFICES Goal
  BY Zenon
<1>0. /\ CertTypeOK
      /\ entries \in [BindingKeys -> EntryType]
      /\ activeKey \in [CertHosts -> BindingKeys \cup {Nothing}]
  BY Zenon DEF CertInv, CertTypeOK, EntryType
<1>1. CASE Keeps
  BY <1>0, <1>1, Zenon DEF Keeps
<1>2. ASSUME NEW now \in Readings, Sweeps(now)
      PROVE  Goal
  BY <1>0, <1>2, SweepTypes, Zenon DEF Sweeps
<1>3. ASSUME NEW b \in Bindings, NEW c \in Certificates, NEW now \in Readings, Stages(b, c, now)
      PROVE  Goal
  <2>1. [state |-> "staged", cert |-> c, until |-> b.until, wiped |-> FALSE] \in EntryType
    BY KeyFields, Zenon DEF EntryType
  <2>2. Staged(b, c, expiredEntries(now)) \in [BindingKeys -> EntryType]
    BY <1>0, <2>1, SweepTypes, NoEntryType, Zenon DEF Staged
  <2> QED  BY <1>0, <1>3, <2>2, SweepTypes, Zenon DEF Stages
<1>4. ASSUME NEW k \in BindingKeys, Lapses(k)
      PROVE  Goal
  <2>1. entries' \in [BindingKeys -> EntryType]
    BY <1>0, <1>4, ZenonT(30) DEF Lapses, ExpireEntry, EntryType
  <2> QED  BY <1>0, <1>4, <2>1, Zenon DEF Lapses, ExpireEntry
<1>5. ASSUME NEW k \in BindingKeys, MarksReady(k)
      PROVE  Goal
  BY <1>0, <1>5, Zenon DEF MarksReady, EntryType
<1>6. ASSUME NEW b \in Bindings, Activates(b)
      PROVE  Goal
  <2>1. Key(b) \in BindingKeys /\ b.host \in CertHosts
    BY KeyFields, Zenon
  <2>2. [entries[Key(b)] EXCEPT !.state = "active"] \in EntryType
    BY <1>0, <2>1, Zenon DEF EntryType
  <2>3. \A j \in BindingKeys : ReplacedEntry(Key(b), j) \in EntryType
    BY <1>0, NoEntryType, Zenon DEF ReplacedEntry, EntryType
  <2>4. entries' \in [BindingKeys -> EntryType]
    BY <1>0, <1>6, <2>2, <2>3, Zenon DEF Activates
  <2> QED  BY <1>0, <1>6, <2>1, <2>4, Zenon DEF Activates
<1>7. ASSUME NEW k \in BindingKeys, Forgets(k)
      PROVE  Goal
  BY <1>0, <1>7, NoEntryType, Zenon DEF Forgets
<1>8. ASSUME NEW b \in Bindings, Revokes(Key(b))
      PROVE  Goal
  BY <1>0, <1>8, NoEntryType, KeyFields, Zenon DEF Revokes
<1>9. CASE Clears
  BY <1>9, NoEntryType, Zenon DEF Clears
<1> HIDE DEF Goal
<1> QED  BY <1>1, <1>2, <1>3, <1>4, <1>5, <1>6, <1>7, <1>8, <1>9, Effects, Zenon

(* Every action keeps the variables in their types.                            *)
LEMMA TypeInductive ==
    ASSUME CertInv, [CertNext]_certVars
    PROVE  CertTypeOK' /\ HalfIsOfTheBatch'
<1> DEFINE Rest == /\ certClock' \in Nat /\ batch' \in [at : Nat, rest : Nat]
                   /\ half' \in (Bindings \X Certificates) \cup {Nothing}
                   /\ stopping' \in BOOLEAN /\ certsClosed' \in BOOLEAN
                   /\ half' # Nothing => batch'.rest > 0
<1>0. /\ certClock \in Nat /\ batch \in [at : Nat, rest : Nat]
      /\ half \in (Bindings \X Certificates) \cup {Nothing}
      /\ stopping \in BOOLEAN /\ certsClosed \in BOOLEAN
      /\ half # Nothing => batch.rest > 0
  BY Zenon DEF CertInv, CertTypeOK, HalfIsOfTheBatch
<1>1. NoBatch \in [at : Nat, rest : Nat]
  BY Zenon DEF NoBatch
<1>2. EndBatch => batch' \in [at : Nat, rest : Nat] /\ half' = Nothing
  BY <1>1, Zenon DEF EndBatch
<1>3. Acknowledge /\ batch.rest > 0 => batch' \in [at : Nat, rest : Nat] /\ half' = Nothing
  BY <1>0, <1>1, <1>2 DEF Acknowledge
<1>4. Rest
  <2>1. CASE UNCHANGED certVars
    BY <1>0, <2>1, Zenon DEF certVars
  <2>2. CASE Pull
    BY <1>0, <2>2, CertificateAssumption DEF Pull
  <2>3. CASE Cancel \/ Abandon \/ Close \/ Lookup
    BY <1>0, <1>2, <2>3, Zenon DEF Cancel, Abandon, Close, Lookup
  <2>4. CASE ReadyMessage
    BY <1>0, <1>2, <1>3, <2>4, Zenon DEF ReadyMessage
  <2>5. ASSUME NEW b \in Bindings, NEW c \in Certificates, StageMessage(b, c)
        PROVE  Rest
    <3>1. <<b, c>> \in Bindings \X Certificates
      BY Zenon
    <3> QED  BY <1>0, <1>2, <2>5, <3>1, Zenon DEF StageMessage, Applies
  <2>6. ASSUME NEW b \in Bindings, NEW c \in Certificates, ActivateMessage(b, c)
        PROVE  Rest
    BY <1>0, <1>2, <1>3, <2>6, Zenon DEF ActivateMessage, Applies
  <2>7. ASSUME NEW b \in Bindings, NEW c \in Certificates, RetireMessage(b, c) \/ RevokeMessage(b, c)
        PROVE  Rest
    BY <1>0, <1>2, <1>3, <2>7, Zenon DEF RetireMessage, RevokeMessage, Applies
  <2>8. CASE CertTick
    BY <1>0, <2>8 DEF CertTick
  <2> HIDE DEF Rest
  <2> QED  BY <2>1, <2>2, <2>3, <2>4, <2>5, <2>6, <2>7, <2>8, Zenon DEF CertNext
<1> QED  BY <1>4, EntriesTyped, Zenon DEF CertTypeOK, EntryType, HalfIsOfTheBatch

-----------------------------------------------------------------------------
(* What expireLocked leaves: the entries that were active and did not lapse    *)
(* are active, and the index names what it named before unless that lapsed.    *)
LEMMA SweepKeeps ==
    ASSUME CertTypeOK, ActiveIsIndexed, NEW now
    PROVE  /\ \A k \in BindingKeys :
              /\ expiredEntries(now)[k].state = "active" =>
                    entries[k].state = "active" /\ expiredActive(now)[k.host] = k
              /\ expiredEntries(now)[k].state \in {"none", "staged", "ready", "active"} =>
                    expiredEntries(now)[k] = entries[k]
           /\ \A h \in CertHosts : expiredActive(now)[h] # Nothing =>
              /\ expiredActive(now)[h] = activeKey[h]
              /\ activeKey[h] \notin Expiring(now)
              /\ expiredEntries(now)[activeKey[h]] = entries[activeKey[h]]
<1>1. \A k \in BindingKeys : k.host \in CertHosts
  BY BindingKeyFields, Zenon
<1>2. \A k \in BindingKeys : entries[k] \in EntryType
  BY SweepTypes, Zenon
<1>3. \A k \in Expiring(now) : expiredEntries(now)[k].state = "expired"
  BY <1>2, Zenon DEF expiredEntries, Expiring, EntryType
<1>4. \A k \in BindingKeys \ Expiring(now) : expiredEntries(now)[k] = entries[k]
  BY Zenon DEF expiredEntries
<1>5. \A k \in BindingKeys : k \notin Expiring(now) /\ entries[k].state = "active" =>
          expiredActive(now)[k.host] = k
  <2> SUFFICES ASSUME NEW k \in BindingKeys, k \notin Expiring(now), entries[k].state = "active"
               PROVE  expiredActive(now)[k.host] = k
    BY Zenon
  <2>1. activeKey[k.host] = k
    BY Zenon DEF ActiveIsIndexed
  <2>2. \A j \in Expiring(now) : j.host # k.host
    BY <2>1 DEF ActiveIsIndexed, Expiring
  <2> QED  BY <1>1, <2>1, <2>2, Zenon DEF expiredActive
<1>6. ASSUME NEW h \in CertHosts, expiredActive(now)[h] # Nothing
      PROVE  /\ expiredActive(now)[h] = activeKey[h]
             /\ activeKey[h] \in BindingKeys
             /\ activeKey[h] \notin Expiring(now)
  <2>1. expiredActive(now)[h] = activeKey[h] /\ \A k \in Expiring(now) : k.host # h
    BY <1>6, Zenon DEF expiredActive
  <2> QED  BY <1>6, <2>1, Zenon DEF ActiveIsIndexed
<1> QED  BY <1>3, <1>4, <1>5, <1>6, Zenon

(* Every action keeps the index and the active entries together.               *)
LEMMA IndexInductive ==
    ASSUME CertInv, [CertNext]_certVars
    PROVE  ActiveIsIndexed'
<1>0. /\ CertTypeOK /\ ActiveIsIndexed
      /\ entries \in [BindingKeys -> EntryType]
      /\ activeKey \in [CertHosts -> BindingKeys \cup {Nothing}]
      /\ \A k \in BindingKeys : k.host \in CertHosts /\ k # Nothing
  BY BindingKeyFields, Zenon DEF CertInv, CertTypeOK, EntryType
<1>1. CASE Keeps
  BY <1>0, <1>1, Zenon DEF Keeps, ActiveIsIndexed
<1>2. ASSUME NEW now \in Readings, Sweeps(now)
      PROVE  ActiveIsIndexed'
  BY <1>0, <1>2, SweepKeeps, SMTT(30) DEF Sweeps, ActiveIsIndexed
<1>3. ASSUME NEW b \in Bindings, NEW c \in Certificates, NEW now \in Readings, Stages(b, c, now)
      PROVE  ActiveIsIndexed'
  <2>1. \A k \in BindingKeys : expiredEntries(now)[k].state = "active" => entries'[k] = expiredEntries(now)[k]
    BY <1>3, Zenon DEF Stages, Staged, Outdated
  <2>2. \A k \in BindingKeys : entries'[k].state = "active" => expiredEntries(now)[k].state = "active"
    BY <1>3, Zenon DEF Stages, Staged, NoEntry
  <2> QED  BY <1>0, <1>3, <2>1, <2>2, SweepKeeps DEF Stages, ActiveIsIndexed
<1>4. ASSUME NEW k \in BindingKeys, Lapses(k)
      PROVE  ActiveIsIndexed'
  <2>1. entries'[k].state = "expired" /\ \A j \in BindingKeys \ {k} : entries'[j] = entries[j]
    BY <1>0, <1>4, Zenon DEF Lapses, ExpireEntry, EntryType
  <2>2. \A h \in CertHosts : activeKey'[h] = IF activeKey[h] = k /\ h = k.host THEN Nothing ELSE activeKey[h]
    BY <1>0, <1>4, Zenon DEF Lapses, ExpireEntry
  <2> QED  BY <1>0, <2>1, <2>2 DEF ActiveIsIndexed
<1>5. ASSUME NEW k \in BindingKeys, MarksReady(k)
      PROVE  ActiveIsIndexed'
  <2>1. entries'[k].state = "ready" /\ \A j \in BindingKeys \ {k} : entries'[j] = entries[j]
    BY <1>0, <1>5, Zenon DEF MarksReady, EntryType
  <2> QED  BY <1>0, <1>5, <2>1, Zenon DEF MarksReady, ActiveIsIndexed
<1>6. ASSUME NEW b \in Bindings, Activates(b)
      PROVE  ActiveIsIndexed'
  <2> DEFINE k == Key(b)
             previous == activeKey[b.host]
  <2>1. k \in BindingKeys /\ b.host \in CertHosts /\ k.host = b.host
    BY KeyFields, Zenon
  <2>2. entries'[k].state = "active"
    BY <1>0, <1>6, <2>1, Zenon DEF Activates, EntryType
  <2>3. previous \in BindingKeys => ReplacedEntry(k, previous).state # "active"
    BY <1>0, Zenon DEF ReplacedEntry, NoEntry, EntryType
  <2>4. \A j \in BindingKeys \ {k, previous} : entries'[j] = entries[j]
    BY <1>6, Zenon DEF Activates
  <2>5. previous \in BindingKeys /\ previous # k => entries'[previous].state # "active"
    BY <1>6, <2>3, Zenon DEF Activates
  <2>6. \A h \in CertHosts : activeKey'[h] = IF h = b.host THEN k ELSE activeKey[h]
    BY <1>0, <1>6, Zenon DEF Activates
  <2> HIDE DEF k, previous
  <2>7. \A j \in BindingKeys : entries'[j].state = "active" => activeKey'[j.host] = j
    BY <1>0, <2>1, <2>4, <2>5, <2>6 DEF ActiveIsIndexed, previous
  <2>8. \A h \in CertHosts : activeKey'[h] # Nothing =>
           activeKey'[h] \in BindingKeys /\ activeKey'[h].host = h /\ entries'[activeKey'[h]].state = "active"
    BY <1>0, <2>1, <2>2, <2>4, <2>6 DEF ActiveIsIndexed, previous
  <2> QED  BY <2>7, <2>8, Zenon DEF ActiveIsIndexed
<1>7. ASSUME NEW k \in BindingKeys, Forgets(k)
      PROVE  ActiveIsIndexed'
  <2>1. entries'[k].state = "none" /\ \A j \in BindingKeys \ {k} : entries'[j] = entries[j]
    BY <1>0, <1>7, Zenon DEF Forgets, NoEntry
  <2> QED  BY <1>0, <1>7, <2>1 DEF Forgets, ActiveIsIndexed
<1>8. ASSUME NEW b \in Bindings, Revokes(Key(b))
      PROVE  ActiveIsIndexed'
  <2>1. Key(b) \in BindingKeys
    BY KeyFields, Zenon
  <2>2. entries'[Key(b)].state = "none" /\ \A j \in BindingKeys \ {Key(b)} : entries'[j] = entries[j]
    BY <1>0, <1>8, <2>1, Zenon DEF Revokes, NoEntry
  <2>3. \A h \in CertHosts :
           activeKey'[h] = IF activeKey[h] = Key(b) /\ h = Key(b).host THEN Nothing ELSE activeKey[h]
    BY <1>0, <1>8, Zenon DEF Revokes
  <2> QED  BY <1>0, <2>1, <2>2, <2>3 DEF ActiveIsIndexed
<1>9. CASE Clears
  BY <1>0, <1>9, Zenon DEF Clears, NoEntry, ActiveIsIndexed
<1> QED  BY <1>1, <1>2, <1>3, <1>4, <1>5, <1>6, <1>7, <1>8, <1>9, Effects, Zenon

(* Every action keeps the key material of what may still be served.            *)
LEMMA UsableInductive ==
    ASSUME CertInv, [CertNext]_certVars
    PROVE  CandidateIsUsable'
<1>0. /\ CertTypeOK /\ ActiveIsIndexed /\ CandidateIsUsable
      /\ entries \in [BindingKeys -> EntryType]
  BY Zenon DEF CertInv, CertTypeOK, EntryType
<1> DEFINE Usable(e, h) == e.state \in {"staged", "ready", "active"} =>
                               e.cert \in Certificates /\ ~e.wiped /\ Covers(e.cert, h)
<1>1. \A k \in BindingKeys : Usable(entries[k], k.host)
  BY <1>0, Zenon DEF CandidateIsUsable
<1>2. \A h : Usable(NoEntry, h)
  BY Zenon DEF NoEntry
<1>3. \A now : \A k \in BindingKeys : Usable(expiredEntries(now)[k], k.host)
  BY <1>0, <1>1, SweepKeeps
<1> SUFFICES \A k \in BindingKeys : Usable(entries'[k], k.host)
  BY Zenon DEF CandidateIsUsable, Covers
<1>4. CASE Keeps
  BY <1>1, <1>4, Zenon DEF Keeps
<1>5. ASSUME NEW now \in Readings, Sweeps(now)
      PROVE  \A k \in BindingKeys : Usable(entries'[k], k.host)
  BY <1>3, <1>5, Zenon DEF Sweeps
<1>6. ASSUME NEW b \in Bindings, NEW c \in Certificates, NEW now \in Readings, Stages(b, c, now)
      PROVE  \A k \in BindingKeys : Usable(entries'[k], k.host)
  <2>1. Usable([state |-> "staged", cert |-> c, until |-> b.until, wiped |-> FALSE], b.host)
    BY <1>6, Zenon DEF Stages
  <2> HIDE DEF Usable
  <2> QED  BY <1>2, <1>3, <1>6, <2>1, KeyFields, Zenon DEF Stages, Staged
<1>7. ASSUME NEW k \in BindingKeys, Lapses(k)
      PROVE  \A j \in BindingKeys : Usable(entries'[j], j.host)
  <2>1. entries'[k].state = "expired" /\ \A j \in BindingKeys \ {k} : entries'[j] = entries[j]
    BY <1>0, <1>7, Zenon DEF Lapses, ExpireEntry, EntryType
  <2> QED  BY <1>1, <2>1, Zenon
<1>8. ASSUME NEW k \in BindingKeys, MarksReady(k)
      PROVE  \A j \in BindingKeys : Usable(entries'[j], j.host)
  <2>1. /\ entries'[k].cert = entries[k].cert /\ entries'[k].wiped = entries[k].wiped
        /\ entries[k].state = "staged"
        /\ \A j \in BindingKeys \ {k} : entries'[j] = entries[j]
    BY <1>0, <1>8, Zenon DEF MarksReady, EntryType
  <2> QED  BY <1>1, <2>1, Zenon
<1>9. ASSUME NEW b \in Bindings, Activates(b)
      PROVE  \A j \in BindingKeys : Usable(entries'[j], j.host)
  <2> DEFINE k == Key(b)
             previous == activeKey[b.host]
  <2>1. k \in BindingKeys
    BY KeyFields, Zenon
  <2>2. /\ entries'[k].cert = entries[k].cert /\ entries'[k].wiped = entries[k].wiped
        /\ entries[k].state = "ready"
    BY <1>0, <1>9, <2>1, Zenon DEF Activates, EntryType
  <2>3. previous \in BindingKeys => ReplacedEntry(k, previous).state \in {"none", "retired"}
    BY <1>0, Zenon DEF ReplacedEntry, NoEntry, EntryType
  <2>4. \A j \in BindingKeys \ {k} : entries'[j] = entries[j] \/ entries'[j].state \in {"none", "retired"}
    BY <1>9, <2>3, Zenon DEF Activates
  <2> HIDE DEF k
  <2> QED  BY <1>1, <2>1, <2>2, <2>4, Zenon
<1>10. ASSUME NEW k \in BindingKeys, entries' = [entries EXCEPT ![k] = NoEntry]
       PROVE  \A j \in BindingKeys : Usable(entries'[j], j.host)
  <2> HIDE DEF Usable
  <2> QED  BY <1>0, <1>1, <1>2, <1>10, Zenon
<1>11. CASE Clears
  <2> HIDE DEF Usable
  <2> QED  BY <1>2, <1>11, Zenon DEF Clears
<1> HIDE DEF Usable
<1> QED  BY <1>4, <1>5, <1>6, <1>7, <1>8, <1>9, <1>10, <1>11, Effects, KeyFields, Zenon DEF Forgets, Revokes

LEMMA CertInitInv == CertInit => CertInv
<1> SUFFICES ASSUME CertInit
             PROVE  CertInv
  BY Zenon
<1>1. CertTypeOK
  <2>1. entries \in [BindingKeys -> EntryType]
    BY NoEntryType, Zenon DEF CertInit
  <2> QED  BY <2>1, Zenon DEF CertInit, CertTypeOK, EntryType, NoBatch
<1>2. HalfIsOfTheBatch /\ ActiveIsIndexed /\ CandidateIsUsable
  BY Zenon DEF CertInit, HalfIsOfTheBatch, ActiveIsIndexed, CandidateIsUsable, NoEntry
<1> QED  BY <1>1, <1>2, Zenon DEF CertInv

LEMMA CertNextInv ==
    ASSUME CertInv, [CertNext]_certVars
    PROVE  CertInv'
  BY TypeInductive, IndexInductive, UsableInductive, Zenon DEF CertInv

(* The registry keeps its types, its index and the key material of what may    *)
(* still be served, for any number of bindings and certificates.               *)
THEOREM RegistryInvariant == CertSpec => []CertInv
<1>1. CertInv /\ [CertNext]_certVars => CertInv'
  BY CertNextInv, Zenon
<1> QED  BY CertInitInv, <1>1, PTL DEF CertSpec

(* GetCertificate gives a handshake only a certificate that has not lapsed,    *)
(* covers its name and still holds its key.                                    *)
THEOREM HandshakesAreValid == CertSpec => []ServedIsValid
<1>1. CertInv => ServedIsValid
  <2> SUFFICES ASSUME CertInv, NEW n \in Names, GetCertificate(n) # Nothing
               PROVE  LET k == GetCertificate(n)
                          e == entries[k]
                      IN  /\ e.state = "active" /\ ~e.wiped /\ ~Lapsed(k, e, certClock)
                          /\ Covers(e.cert, n) /\ ~(k.onDemand /\ k.host # n)
    BY Zenon DEF ServedIsValid
  <2> DEFINE serving == expiredActive(certClock)
             k == GetCertificate(n)
  <2>1. PICK h \in {n, Parent[n]} : k = serving[h] /\ (h = Parent[n] => ~OnDemandOver(n, serving) \/ h = n)
    BY Zenon DEF GetCertificate
  <2>2. h \in CertHosts
    BY Zenon DEF CertHosts
  <2>3. k = activeKey[h] /\ k \notin Expiring(certClock)
    BY <2>1, <2>2, SweepKeeps DEF CertInv
  <2>4. k \in BindingKeys /\ k.host = h /\ entries[k].state = "active"
    BY <2>2, <2>3, Zenon DEF CertInv, ActiveIsIndexed
  <2> HIDE DEF k
  <2>5. ~entries[k].wiped /\ Covers(entries[k].cert, h)
    BY <2>4, Zenon DEF CertInv, CandidateIsUsable
  <2>6. ~Lapsed(k, entries[k], certClock)
    BY <2>3, <2>4, Zenon DEF Expiring
  <2>7. Covers(entries[k].cert, n)
    BY <2>5, CertificateAssumption, Zenon DEF Covers
  <2>8. ~(k.onDemand /\ k.host # n)
    BY <2>1, <2>4, Zenon DEF OnDemandOver, k
  <2> QED  BY <2>4, <2>5, <2>6, <2>7, <2>8, Zenon DEF k
<1> QED  BY RegistryInvariant, <1>1, PTL

-----------------------------------------------------------------------------
(* While a hostname is served its generations never go down: a delayed or      *)
(* repeated action of the server cannot bring an older certificate back.       *)
THEOREM NoOlderCertificate == CertSpec => ActiveNeverRegresses
<1> DEFINE Forward == \A h \in CertHosts : activeKey[h] # Nothing /\ activeKey'[h] # Nothing =>
              activeKey'[h].dgen >= activeKey[h].dgen /\ activeKey'[h].cgen >= activeKey[h].cgen
<1>1. CertInv /\ [CertNext]_certVars => Forward
  <2> SUFFICES ASSUME CertInv, [CertNext]_certVars,
                      NEW h \in CertHosts, activeKey[h] # Nothing, activeKey'[h] # Nothing
               PROVE  activeKey'[h].dgen >= activeKey[h].dgen /\ activeKey'[h].cgen >= activeKey[h].cgen
    BY Zenon
  <2>1. /\ activeKey \in [CertHosts -> BindingKeys \cup {Nothing}] /\ CertTypeOK /\ ActiveIsIndexed
        /\ activeKey[h].dgen \in Nat /\ activeKey[h].cgen \in Nat
    BY BindingKeyFields, Zenon DEF CertInv, CertTypeOK
  <2> SUFFICES \/ activeKey'[h] = activeKey[h]
               \/ \E b \in Bindings : Activates(b) /\ h = b.host /\ activeKey'[h] = Key(b)
    BY <2>1, KeyFields DEF Activates
  <2>2. ASSUME NEW now, activeKey' = expiredActive(now)
        PROVE  activeKey'[h] = activeKey[h]
    BY <2>1, <2>2, SweepKeeps, Zenon
  <2>3. ASSUME NEW b \in Bindings, Activates(b)
        PROVE  activeKey'[h] = activeKey[h] \/ (h = b.host /\ activeKey'[h] = Key(b))
    <3>1. activeKey' = [activeKey EXCEPT ![b.host] = Key(b)]
      BY <2>3, Zenon DEF Activates
    <3> QED  BY <2>1, <3>1, Zenon
  <2>4. ASSUME NEW k, activeKey' = IF activeKey[k.host] = k THEN [activeKey EXCEPT ![k.host] = Nothing] ELSE activeKey
        PROVE  activeKey'[h] = activeKey[h]
    BY <2>1, <2>4, Zenon
  <2>5. ~Clears
    BY Zenon DEF Clears
  <2> QED  BY <2>2, <2>3, <2>4, <2>5, Effects, Zenon
             DEF Keeps, Sweeps, Stages, Lapses, ExpireEntry, MarksReady, Forgets, Revokes
<1>2. CertInv /\ [CertNext]_certVars => [Forward]_certVars
  BY <1>1, Zenon
<1> QED  BY RegistryInvariant, <1>2, PTL DEF CertSpec, ActiveNeverRegresses

(* A hostname that is served stays served until its certificate or its lease   *)
(* lapses, its binding is revoked, or the registry is closed.                  *)
THEOREM ServedStaysServed == CertSpec => HostKeepsACertificate
<1> DEFINE Kept == \A h \in CertHosts : Serving(h) /\ ~Serving(h)' =>
                      \/ Lapsed(activeKey[h], entries[activeKey[h]], certClock)
                      \/ certsClosed'
                      \/ \E b \in Bindings, c \in Certificates : RevokeMessage(b, c)
<1>1. CertInv /\ [CertNext]_certVars => Kept
  <2> SUFFICES ASSUME CertInv, [CertNext]_certVars, NEW h \in CertHosts, Serving(h), ~Serving(h)'
               PROVE  \/ Lapsed(activeKey[h], entries[activeKey[h]], certClock)
                      \/ certsClosed'
                      \/ \E b \in Bindings, c \in Certificates : RevokeMessage(b, c)
    BY Zenon
  <2>1. /\ activeKey \in [CertHosts -> BindingKeys \cup {Nothing}] /\ CertTypeOK /\ ActiveIsIndexed
        /\ activeKey[h] \in BindingKeys /\ activeKey[h].host = h /\ activeKey[h] # Nothing
        /\ entries[activeKey[h]].cert \in Certificates
    BY Zenon DEF Serving, CertInv, CertTypeOK, ActiveIsIndexed, CandidateIsUsable
  <2>2. activeKey'[h] = Nothing
    BY IndexInductive, Zenon DEF ActiveIsIndexed, Serving
  <2>3. ASSUME NEW now \in Readings, activeKey' = expiredActive(now)
        PROVE  Lapsed(activeKey[h], entries[activeKey[h]], certClock)
    <3>1. PICK k \in Expiring(now) : k.host = h
      BY <2>1, <2>2, <2>3, Zenon DEF expiredActive
    <3>2. k = activeKey[h] /\ Lapsed(k, entries[k], now)
      BY <2>1, <3>1, Zenon DEF Expiring, ActiveIsIndexed
    <3> QED  BY <2>1, <3>2, LapsedLater, Zenon
  <2>4. ASSUME NEW k \in BindingKeys, Lapses(k)
        PROVE  Lapsed(activeKey[h], entries[activeKey[h]], certClock)
    <3>1. k = activeKey[h]
      BY <2>1, <2>2, <2>4, Zenon DEF Lapses, ExpireEntry
    <3> QED  BY <2>4, <3>1, Zenon DEF Lapses
  <2>5. \A b \in Bindings : ~Activates(b)
    BY <2>1, <2>2, KeyFields, BindingKeyFields, Zenon DEF Activates
  <2> QED  BY <2>1, <2>2, <2>3, <2>4, <2>5, Effects, Zenon DEF Keeps, Sweeps, Stages, MarksReady, Forgets, Clears
<1>2. CertInv /\ [CertNext]_certVars => [Kept]_certVars
  BY <1>1, Zenon
<1> QED  BY RegistryInvariant, <1>2, PTL DEF CertSpec, HostKeepsACertificate

-----------------------------------------------------------------------------
(* The certificate broker                                                      *)

(* A step of one handler keeps the invariant unless Shutdown has returned.     *)
Answers(h) ==
    /\ h \in Handlers
    /\ h.step # "done" => h.answer = "none" /\ (h.step \notin Unread => h.name \in BrokerNames)
    /\ h.exact => h.answer # "wildcard"

LEMMA HandlerStep ==
  ASSUME BrokerInv, UNCHANGED lifeVars, shut # "returned",
         NEW c \in BrokerConns, NEW h, handler' = [handler EXCEPT ![c] = h], Answers(h),
         call' \in [BrokerConns -> CallsMade], demand' \in [BrokerNames -> BrokerConns \cup {NoLeader}],
         call'[c].state = "open" => h.step = "leading",
         \A d \in BrokerConns \ {c} : call'[d].state = "open" => call[d].state = "open"
  PROVE  BrokerInv'
<1>1. handler \in [BrokerConns -> Handlers] /\ h \in Handlers
  BY Zenon DEF BrokerInv, BrokerTypeOK, Answers
<1>2. handler' \in [BrokerConns -> Handlers]
  BY <1>1, Zenon
<1>3. /\ handler'[c] = h /\ \A d \in BrokerConns \ {c} : handler'[d] = handler[d]
      /\ UNCHANGED <<start, shut, acceptLoop, socket>>
  BY <1>1, Zenon DEF lifeVars
<1>4. BrokerTypeOK' /\ SocketHasItsStart'
  BY <1>2, <1>3, Zenon DEF BrokerInv, BrokerTypeOK, SocketHasItsStart, ShutSteps
<1>5. CallHasItsLeader' /\ AnswerEnds' /\ MarkedNameIsExact'
  BY <1>3 DEF BrokerInv, CallHasItsLeader, AnswerEnds, MarkedNameIsExact, Answers
<1>6. ShutdownIsQuiet'
  BY <1>3, Zenon DEF ShutdownIsQuiet
<1> QED  BY <1>4, <1>5, <1>6, Zenon DEF BrokerInv

(* A connection that is handled, or that the accept loop takes, is there only  *)
(* before Shutdown returns.                                                    *)
LEMMA HandledIsBefore ==
  ASSUME BrokerInv, (\E c \in BrokerConns : handler[c].step \notin {"away", "done"}) \/ acceptLoop = "running"
  PROVE  shut # "returned"
BY Zenon DEF BrokerInv, ShutdownIsQuiet, Handled

LEMMA EndStep ==
  ASSUME BrokerInv, UNCHANGED lifeVars, shut # "returned",
         NEW c \in BrokerConns, NEW a \in {"none", "error", "leaf", "wildcard"}, End(c, a),
         a = "wildcard" => ~handler[c].exact,
         call' \in [BrokerConns -> CallsMade], demand' \in [BrokerNames -> BrokerConns \cup {NoLeader}],
         call'[c].state # "open",
         \A d \in BrokerConns \ {c} : call'[d].state = "open" => call[d].state = "open"
  PROVE  BrokerInv'
<1>1. handler[c].exact \in BOOLEAN
  BY Zenon DEF BrokerInv, BrokerTypeOK, Handlers
<1>2. PICK x \in BOOLEAN : x = (handler[c].exact /\ a = "wildcard")
  BY <1>1, Zenon
<1> DEFINE h == [Away EXCEPT !.step = "done", !.answer = a, !.exact = x]
<1>3. handler' = [handler EXCEPT ![c] = h]
  BY <1>2, Zenon DEF End
<1>4. PICK w \in Handlers : w = Away
  BY Zenon DEF Away, Handlers, HandlerSteps
<1>5. h = [w EXCEPT !.step = "done", !.answer = a, !.exact = x]
  BY <1>4, Zenon
<1> HIDE DEF h
<1>6. h \in Handlers /\ h.step = "done" /\ h.answer = a /\ h.exact = x
  BY <1>5, Zenon DEF Handlers, HandlerSteps
<1> QED  BY <1>2, <1>3, <1>6, HandlerStep, Zenon DEF Answers

LEMMA CallsStand ==
  ASSUME BrokerInv, UNCHANGED <<call, demand>>, NEW c \in BrokerConns, handler[c].step # "leading"
  PROVE  /\ call' \in [BrokerConns -> CallsMade] /\ demand' \in [BrokerNames -> BrokerConns \cup {NoLeader}]
         /\ call'[c].state # "open" /\ \A d \in BrokerConns \ {c} : call'[d].state = "open" => call[d].state = "open"
BY Zenon DEF BrokerInv, BrokerTypeOK, CallHasItsLeader

(* A handler that moves on without an answer.                                  *)
LEMMA MoveStep ==
  ASSUME BrokerInv, UNCHANGED <<lifeVars, call, demand>>, NEW c \in BrokerConns,
         handler[c].step \notin {"done", "leading"},
         handler[c].step # "away" \/ acceptLoop = "running",
         NEW h \in Handlers, h.step \notin {"done", "leading"}, h.answer = handler[c].answer,
         h.step \notin Unread => h.name \in BrokerNames,
         handler' = [handler EXCEPT ![c] = h]
  PROVE  BrokerInv'
<1>1. handler[c].answer = "none"
  BY Zenon DEF BrokerInv, AnswerEnds
<1>2. Answers(h)
  BY <1>1, Zenon DEF Answers
<1>3. shut # "returned"
  BY HandledIsBefore, Zenon
<1> QED  BY <1>2, <1>3, CallsStand, HandlerStep, Zenon

(* The same for a handler whose step alone changes.                            *)
LEMMA StepStep ==
  ASSUME BrokerInv, UNCHANGED <<lifeVars, call, demand>>, NEW c \in BrokerConns,
         handler[c].step \notin {"done", "leading"},
         handler[c].step # "away" \/ acceptLoop = "running",
         NEW st \in HandlerSteps \ {"done", "leading"}, Step(c, st), st \in Unread \/ handler[c].step \notin Unread
  PROVE  BrokerInv'
<1>1. PICK s \in Handlers : s = handler[c]
  BY Zenon DEF BrokerInv, BrokerTypeOK
<1> DEFINE h == [s EXCEPT !.step = st]
<1>2. handler' = [handler EXCEPT ![c] = h]
  BY <1>1, Zenon DEF Step
<1>3. h \in Handlers /\ h.step = st /\ h.answer = s.answer /\ h.name = s.name
  BY Zenon DEF Handlers
<1> HIDE DEF h
<1>4. h.step \notin Unread => h.name \in BrokerNames
  BY <1>1, <1>3, Zenon DEF BrokerInv, AnswerEnds
<1> QED  BY <1>1, <1>2, <1>3, <1>4, MoveStep, Zenon

(* A handler that ends before or without a request of its own.                 *)
LEMMA AnswerStep ==
  ASSUME BrokerInv, UNCHANGED <<lifeVars, call>>, NEW c \in BrokerConns,
         demand' \in [BrokerNames -> BrokerConns \cup {NoLeader}],
         handler[c].step \notin {"done", "leading"},
         handler[c].step # "away" \/ acceptLoop = "running",
         NEW a \in {"none", "error", "leaf", "wildcard"}, End(c, a),
         a = "wildcard" => ~handler[c].exact
  PROVE  BrokerInv'
<1>1. shut # "returned"
  BY HandledIsBefore, Zenon
<1>2. /\ call' \in [BrokerConns -> CallsMade] /\ call'[c].state # "open"
      /\ \A d \in BrokerConns \ {c} : call'[d].state = "open" => call[d].state = "open"
  BY Zenon DEF BrokerInv, BrokerTypeOK, CallHasItsLeader
<1> QED  BY <1>1, <1>2, EndStep, Zenon

LEMMA DemandTyped == ASSUME BrokerInv PROVE demand \in [BrokerNames -> BrokerConns \cup {NoLeader}]
BY Zenon DEF BrokerInv, BrokerTypeOK

LEMMA AcceptKeeps == ASSUME BrokerInv, NEW c \in BrokerConns, Accept(c) PROVE BrokerInv'
<1>1. acceptLoop = "running" /\ handler[c].step = "away" /\ UNCHANGED <<lifeVars, call, demand>>
  BY Zenon DEF Accept, LoopIsFree
<1>2. Step(c, "accepted") \/ End(c, "error")
  BY Zenon DEF Accept
<1> QED  BY <1>1, <1>2, StepStep, AnswerStep, DemandTyped, Zenon DEF HandlerSteps, Unread

LEMMA TrackKeeps == ASSUME BrokerInv, NEW c \in BrokerConns, Track(c) PROVE BrokerInv'
<1>1. handler[c].step = "accepted" /\ UNCHANGED <<lifeVars, call, demand>>
  BY Zenon DEF Track
<1>2. Step(c, "reading") \/ End(c, "none")
  BY Zenon DEF Track
<1> QED  BY <1>1, <1>2, StepStep, AnswerStep, DemandTyped, Zenon DEF HandlerSteps, Unread

LEMMA ReadKeeps == ASSUME BrokerInv, NEW c \in BrokerConns, ReadRequest(c) PROVE BrokerInv'
<1>1. handler[c].step = "reading" /\ UNCHANGED <<lifeVars, call, demand>>
  BY Zenon DEF ReadRequest
<1>2. CASE End(c, "error")
  BY <1>1, <1>2, AnswerStep, DemandTyped, Zenon
<1>3. CASE \E n \in BrokerNames : handler' = [handler EXCEPT ![c].step = "matching", ![c].name = n]
  <2>1. PICK n \in BrokerNames : handler' = [handler EXCEPT ![c].step = "matching", ![c].name = n]
    BY <1>3, Zenon
  <2>2. PICK s \in Handlers : s = handler[c]
    BY Zenon DEF BrokerInv, BrokerTypeOK
  <2> DEFINE h == [s EXCEPT !.step = "matching", !.name = n]
  <2>3. handler' = [handler EXCEPT ![c] = h]
    BY <2>1, <2>2, Zenon
  <2>4. h \in Handlers /\ h.step = "matching" /\ h.answer = s.answer /\ h.name \in BrokerNames
    BY Zenon DEF Handlers, HandlerSteps
  <2> HIDE DEF h
  <2> QED  BY <1>1, <2>2, <2>3, <2>4, MoveStep, Zenon
<1> QED  BY <1>2, <1>3, Zenon DEF ReadRequest

LEMMA ExactKeeps == ASSUME BrokerInv, NEW c \in BrokerConns, RequiresExact(c) PROVE BrokerInv'
<1>1. handler[c].step = "matching" /\ UNCHANGED <<lifeVars, call, demand>>
  BY Zenon DEF RequiresExact
<1>2. PICK s \in Handlers : s = handler[c]
  BY Zenon DEF BrokerInv, BrokerTypeOK
<1>3. PICK x \in BOOLEAN : x = (~leaf[handler[c].name] /\ parent = "on_demand")
  BY Zenon
<1> DEFINE h == [s EXCEPT !.step = "looking", !.exact = x]
<1>4. handler' = [handler EXCEPT ![c] = h]
  BY <1>2, <1>3, Zenon DEF RequiresExact
<1>5. h \in Handlers /\ h.step = "looking" /\ h.answer = s.answer /\ h.name = s.name
  BY Zenon DEF Handlers, HandlerSteps
<1> HIDE DEF h
<1>6. s.name \in BrokerNames
  BY <1>1, <1>2, Zenon DEF BrokerInv, AnswerEnds, Unread
<1> QED  BY <1>1, <1>2, <1>4, <1>5, <1>6, MoveStep, Zenon

LEMMA LookKeeps == ASSUME BrokerInv, NEW c \in BrokerConns, LookFirst(c) \/ LookAgain(c) PROVE BrokerInv'
<1>1. handler[c].step \in {"looking", "again"} /\ UNCHANGED <<lifeVars, call, demand>>
  BY Zenon DEF LookFirst, LookAgain
<1>2. Found(c) \in {"leaf", "wildcard", "none"} /\ (Covered(c) /\ Found(c) = "wildcard" => ~handler[c].exact)
  BY Zenon DEF Found, Covered
<1>3. (Covered(c) /\ End(c, Found(c))) \/ Step(c, "asking") \/ End(c, "error")
  BY Zenon DEF LookFirst, LookAgain
<1> QED  BY <1>1, <1>2, <1>3, StepStep, AnswerStep, DemandTyped, Zenon DEF HandlerSteps, Unread

LEMMA FollowKeeps == ASSUME BrokerInv, NEW c \in BrokerConns, FollowReturns(c) \/ FollowGivesUp(c) PROVE BrokerInv'
<1>1. handler[c].step = "following" /\ UNCHANGED <<lifeVars, call, demand>>
  BY Zenon DEF FollowReturns, FollowGivesUp
<1>2. Step(c, "again") \/ End(c, "error")
  BY Zenon DEF FollowReturns, FollowGivesUp
<1> QED  BY <1>1, <1>2, StepStep, AnswerStep, DemandTyped, Zenon DEF HandlerSteps, Unread

LEMMA DemandKeeps == ASSUME BrokerInv, NEW c \in BrokerConns, Demand(c) PROVE BrokerInv'
<1>1. handler[c].step = "asking" /\ UNCHANGED lifeVars
  BY Zenon DEF Demand
<1>2. PICK aged \in SUBSET Answered :
        LET known == [n \in BrokerNames |-> IF n \in aged THEN NoLeader ELSE demand[n]]
        IN  \/ known[handler[c].name] # NoLeader /\ Follow(c, known)
            \/ End(c, "error") /\ demand' = known /\ UNCHANGED call
            \/ Lead(c, known)
  BY Zenon DEF Demand
<1> DEFINE known == [n \in BrokerNames |-> IF n \in aged THEN NoLeader ELSE demand[n]]
<1>3. known \in [BrokerNames -> BrokerConns \cup {NoLeader}]
  BY DemandTyped, Zenon
<1>4. PICK s \in Handlers : s = handler[c]
  BY Zenon DEF BrokerInv, BrokerTypeOK
<1>5. shut # "returned" /\ s.answer = "none" /\ s.name \in BrokerNames /\ call \in [BrokerConns -> CallsMade] /\ call[c].state # "open"
  BY <1>1, <1>4, HandledIsBefore, Zenon DEF BrokerInv, AnswerEnds, Unread, BrokerTypeOK, CallHasItsLeader
<1>6. CASE known[handler[c].name] # NoLeader /\ Follow(c, known)
  <2>1. PICK l \in BrokerConns \cup {NoLeader} : l = known[handler[c].name]
    BY <1>3, <1>4, <1>5, Zenon
  <2> DEFINE h == [s EXCEPT !.step = "following", !.leader = l]
  <2>2. handler' = [handler EXCEPT ![c] = h] /\ demand' = known /\ UNCHANGED call
    <3> HIDE DEF known
    <3>1. handler' = [handler EXCEPT ![c] = [handler[c] EXCEPT !.step = "following", !.leader = known[handler[c].name]]]
          /\ demand' = known /\ UNCHANGED call
      BY <1>6, Zenon DEF Follow
    <3> QED  BY <1>4, <2>1, <3>1, Zenon
  <2>3. h \in Handlers /\ h.step = "following" /\ h.answer = s.answer /\ h.name = s.name
    BY Zenon DEF Handlers, HandlerSteps
  <2> HIDE DEF h, known
  <2>4. Answers(h) /\ demand' \in [BrokerNames -> BrokerConns \cup {NoLeader}]
    BY <1>3, <1>5, <2>2, <2>3, Zenon DEF Answers
  <2> QED  BY <1>1, <1>5, <2>2, <2>4, HandlerStep, Zenon
<1>7. CASE End(c, "error") /\ demand' = known /\ UNCHANGED call
  <2> HIDE DEF known
  <2> QED  BY <1>1, <1>3, <1>7, AnswerStep, Zenon
<1>8. CASE Lead(c, known)
  <2> DEFINE h == [s EXCEPT !.step = "leading"]
             k == [state |-> "open", cancelled |-> FALSE, base |-> IF brokerClosed THEN "none" ELSE "run"]
  <2>1. /\ handler' = [handler EXCEPT ![c] = h] /\ demand' = [known EXCEPT ![handler[c].name] = c]
        /\ call' = [call EXCEPT ![c] = k]
    BY <1>4, <1>8, Zenon DEF Lead, Step
  <2>2. h \in Handlers /\ h.step = "leading" /\ h.answer = s.answer /\ h.name = s.name /\ k \in CallsMade
    BY Zenon DEF Handlers, HandlerSteps, CallsMade
  <2> HIDE DEF h, k, known
  <2>3. /\ Answers(h) /\ demand' \in [BrokerNames -> BrokerConns \cup {NoLeader}]
        /\ call' \in [BrokerConns -> CallsMade]
        /\ \A d \in BrokerConns \ {c} : call'[d] = call[d]
    BY <1>3, <1>5, <2>1, <2>2, Zenon DEF Answers
  <2> QED  BY <1>1, <1>5, <2>1, <2>2, <2>3, HandlerStep, Zenon
<1> QED  BY <1>2, <1>6, <1>7, <1>8, Zenon

LEMMA LeadSucceedsKeeps == ASSUME BrokerInv, NEW c \in BrokerConns, LeadSucceeds(c) PROVE BrokerInv'
<1>1. PICK s \in Handlers, k \in CallsMade : s = handler[c] /\ k = call[c]
  BY Zenon DEF BrokerInv, BrokerTypeOK
<1>2. /\ handler[c].step = "leading" /\ UNCHANGED lifeVars /\ shut # "returned"
      /\ s.answer = "none" /\ s.name \in BrokerNames
  BY <1>1, HandledIsBefore, Zenon DEF LeadSucceeds, BrokerInv, AnswerEnds, Unread
<1> DEFINE h == [s EXCEPT !.step = "again"]
           m == [k EXCEPT !.state = "answered"]
<1>3. handler' = [handler EXCEPT ![c] = h] /\ call' = [call EXCEPT ![c] = m] /\ UNCHANGED demand
  BY <1>1, Zenon DEF LeadSucceeds, Step
<1>4. h \in Handlers /\ h.step = "again" /\ h.answer = s.answer /\ h.name = s.name
  BY Zenon DEF Handlers, HandlerSteps
<1>5. m \in CallsMade /\ m.state = "answered"
  BY Zenon DEF CallsMade
<1> HIDE DEF h, m
<1>6. /\ call' \in [BrokerConns -> CallsMade] /\ call'[c].state # "open"
      /\ \A d \in BrokerConns \ {c} : call'[d] = call[d]
  BY <1>3, <1>5, Zenon DEF BrokerInv, BrokerTypeOK
<1>7. demand' \in [BrokerNames -> BrokerConns \cup {NoLeader}]
  BY <1>3, DemandTyped, Zenon
<1> QED  BY <1>2, <1>3, <1>4, <1>6, <1>7, HandlerStep, Zenon DEF Answers

LEMMA LeadFailsKeeps == ASSUME BrokerInv, NEW c \in BrokerConns, LeadFails(c) PROVE BrokerInv'
<1>1. PICK k \in CallsMade : k = call[c]
  BY Zenon DEF BrokerInv, BrokerTypeOK
<1>2. handler[c].step = "leading" /\ UNCHANGED lifeVars /\ shut # "returned" /\ End(c, "error")
  BY HandledIsBefore, Zenon DEF LeadFails
<1> DEFINE m == [k EXCEPT !.state = "failed"]
<1>3. call' = [call EXCEPT ![c] = m] /\ demand' = [demand EXCEPT ![handler[c].name] = NoLeader]
  BY <1>1, Zenon DEF LeadFails
<1>4. m \in CallsMade /\ m.state = "failed"
  BY Zenon DEF CallsMade
<1> HIDE DEF m
<1>5. /\ call' \in [BrokerConns -> CallsMade] /\ call'[c].state # "open"
      /\ \A d \in BrokerConns \ {c} : call'[d] = call[d]
  BY <1>3, <1>4, Zenon DEF BrokerInv, BrokerTypeOK
<1>6. demand' \in [BrokerNames -> BrokerConns \cup {NoLeader}]
  BY <1>3, DemandTyped, Zenon
<1> QED  BY <1>2, <1>5, <1>6, EndStep, Zenon

(* Start, the accept loop's end and Shutdown leave the handlers and their      *)
(* requests as they are.                                                       *)
LEMMA LifeStep ==
  ASSUME BrokerInv, UNCHANGED <<handler, demand>>,
         call' \in [BrokerConns -> CallsMade], \A c \in BrokerConns : call'[c].state = call[c].state,
         start' \in {"none", "checked", "bound", "running", "failed"},
         acceptLoop' \in {"none", "running", "ended"}, socket' \in BOOLEAN,
         \E i \in DOMAIN ShutSteps : shut' = ShutSteps[i],
         SocketHasItsStart', ShutdownIsQuiet'
  PROVE  BrokerInv'
<1>1. BrokerTypeOK'
  BY Zenon DEF BrokerInv, BrokerTypeOK, ShutSteps
<1>2. CallHasItsLeader' /\ AnswerEnds' /\ MarkedNameIsExact'
  BY Zenon DEF BrokerInv, CallHasItsLeader, AnswerEnds, MarkedNameIsExact
<1> QED  BY <1>1, <1>2, Zenon DEF BrokerInv

LEMMA ShutNames ==
  \A s : (\E i \in DOMAIN ShutSteps : s = ShutSteps[i]) <=>
      s \in {"none", "marked", "cancelled", "undemanded", "unlistened", "returned", "expired"}
BY DEF ShutSteps

LEMMA StartKeeps == ASSUME BrokerInv, StartChecks \/ StartListens \/ StartPublishes PROVE BrokerInv'
<1>1. /\ UNCHANGED <<handler, demand, call, shut>> /\ start' \in {"none", "checked", "bound", "running", "failed"}
      /\ acceptLoop' \in {"none", "running", "ended"} /\ socket' \in BOOLEAN
      /\ call' \in [BrokerConns -> CallsMade]
  BY Zenon DEF StartChecks, StartListens, StartPublishes, BrokerInv, BrokerTypeOK
<1>2. \E i \in DOMAIN ShutSteps : shut' = ShutSteps[i]
  BY <1>1, Zenon DEF BrokerInv, BrokerTypeOK, ShutSteps
<1>3. SocketHasItsStart'
  BY Zenon DEF StartChecks, StartListens, StartPublishes, BrokerInv, BrokerTypeOK, SocketHasItsStart
<1>4. ShutdownIsQuiet'
  BY <1>1, Zenon DEF StartChecks, StartListens, StartPublishes, brokerClosed, BrokerInv, BrokerTypeOK,
      SocketHasItsStart, ShutdownIsQuiet, Handled
<1> QED  BY <1>1, <1>2, <1>3, <1>4, LifeStep, Zenon

LEMMA LoopEndKeeps == ASSUME BrokerInv, AcceptFails PROVE BrokerInv'
<1>1. /\ UNCHANGED <<handler, demand, call, shut, start, socket>> /\ acceptLoop' = "ended"
  BY Zenon DEF AcceptFails
<1>2. \E i \in DOMAIN ShutSteps : shut' = ShutSteps[i]
  BY <1>1, Zenon DEF BrokerInv, BrokerTypeOK, ShutSteps
<1>3. SocketHasItsStart' /\ ShutdownIsQuiet'
  BY <1>1, Zenon DEF BrokerInv, SocketHasItsStart, ShutdownIsQuiet, Handled
<1> QED  BY <1>1, <1>2, <1>3, LifeStep, Zenon DEF BrokerInv, BrokerTypeOK

LEMMA ShutKeeps ==
  ASSUME BrokerInv, ShutMarks \/ ShutCancels \/ ShutCancelsCalls \/ ShutUnlistens \/ ShutReturns \/ ShutExpires
  PROVE  BrokerInv'
<1>1. /\ UNCHANGED <<handler, demand, start, acceptLoop>>
      /\ shut' \in {"marked", "cancelled", "undemanded", "unlistened", "returned", "expired"}
      /\ shut' = "returned" => ShutReturns
      /\ socket' = socket \/ socket' = FALSE
  BY Zenon DEF ShutMarks, ShutCancels, ShutCancelsCalls, ShutUnlistens, ShutReturns, ShutExpires, ShutTo, onlyShut
<1>2. \E i \in DOMAIN ShutSteps : shut' = ShutSteps[i]
  BY <1>1, ShutNames, Zenon
<1>3. /\ call' \in [BrokerConns -> CallsMade] /\ \A c \in BrokerConns : call'[c].state = call[c].state
  <2>1. CASE ShutCancelsCalls
    <3>1. call' = [c \in BrokerConns |-> [call[c] EXCEPT !.cancelled = \E n \in BrokerNames : demand[n] = c]]
      BY <2>1, Zenon DEF ShutCancelsCalls
    <3>2. ASSUME NEW c \in BrokerConns PROVE call'[c] \in CallsMade /\ call'[c].state = call[c].state
      <4>1. PICK k \in CallsMade, x \in BOOLEAN : k = call[c] /\ x = (\E n \in BrokerNames : demand[n] = c)
        BY Zenon DEF BrokerInv, BrokerTypeOK
      <4>2. call'[c] = [k EXCEPT !.cancelled = x]
        BY <3>1, <4>1, Zenon
      <4> QED  BY <4>1, <4>2, Zenon DEF CallsMade
    <3> QED  BY <3>1, <3>2, Zenon
  <2>2. CASE UNCHANGED call
    BY <2>2, Zenon DEF BrokerInv, BrokerTypeOK
  <2> QED
    BY <2>1, <2>2, Zenon DEF ShutMarks, ShutCancels, ShutUnlistens, ShutReturns, ShutExpires
<1>4. SocketHasItsStart' /\ socket' \in BOOLEAN
  <2>1. socket \in BOOLEAN /\ (socket => start \in {"bound", "running"}) /\ start' = start
    BY <1>1, Zenon DEF BrokerInv, BrokerTypeOK, SocketHasItsStart
  <2>2. CASE socket' = socket
    BY <2>1, <2>2, Zenon DEF SocketHasItsStart
  <2>3. CASE socket' = FALSE
    BY <2>3, Zenon DEF SocketHasItsStart
  <2> QED  BY <1>1, <2>2, <2>3, Zenon
<1>5. ShutdownIsQuiet'
  <2> SUFFICES ASSUME ShutReturns PROVE ShutdownIsQuiet'
    BY <1>1, Zenon DEF ShutdownIsQuiet
  <2>1. Handled = {} /\ acceptLoop # "running" /\ socket' = FALSE
    BY Zenon DEF ShutReturns
  <2>2. \A c \in BrokerConns : call[c].state # "open"
    BY <2>1, Zenon DEF Handled, BrokerInv, CallHasItsLeader
  <2>3. Handled' = Handled
    BY <1>1, Zenon DEF Handled
  <2> QED  BY <1>1, <1>3, <2>1, <2>2, <2>3, Zenon DEF ShutdownIsQuiet
<1> QED  BY <1>1, <1>2, <1>3, <1>4, <1>5, LifeStep, Zenon DEF BrokerInv, BrokerTypeOK

(* certificate_broker.go: the inductive invariant, for any number of           *)
(* connections, names and limits, whatever the registry holds meanwhile.       *)
THEOREM BrokerInvariant == BrokerSpec => []BrokerInv
<1>1. BrokerInit => BrokerInv
  <2> SUFFICES ASSUME BrokerInit PROVE BrokerInv
    BY Zenon
  <2>1. Away \in Handlers /\ NoCall \in CallsMade
    BY Zenon DEF Away, NoCall, Handlers, HandlerSteps, CallsMade
  <2>2. handler \in [BrokerConns -> Handlers] /\ call \in [BrokerConns -> CallsMade]
    BY <2>1, Zenon DEF BrokerInit
  <2>3. BrokerTypeOK
    BY <2>2, ShutNames, Zenon DEF BrokerInit, BrokerTypeOK
  <2> QED
    BY <2>3, Zenon DEF BrokerInit, BrokerInv, CallHasItsLeader, SocketHasItsStart, AnswerEnds, Unread,
        MarkedNameIsExact, ShutdownIsQuiet, Away, NoCall
<1>2. BrokerInv /\ [BrokerNext]_brokerVars => BrokerInv'
  <2> SUFFICES ASSUME BrokerInv, [BrokerNext]_brokerVars PROVE BrokerInv'
    BY Zenon
  <2>1. CASE UNCHANGED <<lifeVars, handler, call, demand>>
    <3>1. UNCHANGED <<start, shut, acceptLoop, socket, handler, call, demand>>
      BY <2>1, Zenon DEF lifeVars
    <3>2. SocketHasItsStart' /\ ShutdownIsQuiet'
      BY <3>1, Zenon DEF BrokerInv, SocketHasItsStart, ShutdownIsQuiet, Handled
    <3>3. \E i \in DOMAIN ShutSteps : shut' = ShutSteps[i]
      BY <3>1, Zenon DEF BrokerInv, BrokerTypeOK, ShutSteps
    <3> QED  BY <3>1, <3>2, <3>3, LifeStep, Zenon DEF BrokerInv, BrokerTypeOK
  <2>2. CASE Redistribute
    BY <2>1, <2>2, Zenon DEF Redistribute
  <2>3. CASE UNCHANGED brokerVars
    BY <2>1, <2>3, Zenon DEF brokerVars
  <2>4. ASSUME NEW c \in BrokerConns, Accept(c) \/ Handle(c) \/ LeadSucceeds(c) \/ LeadFails(c)
        PROVE  BrokerInv'
    BY <2>4, AcceptKeeps, TrackKeeps, ReadKeeps, ExactKeeps, LookKeeps, DemandKeeps, FollowKeeps,
       LeadSucceedsKeeps, LeadFailsKeeps, Zenon DEF Handle
  <2> QED
    BY <2>2, <2>3, <2>4, StartKeeps, LoopEndKeeps, ShutKeeps, Zenon DEF BrokerNext, ShutdownGoesOn
<1> QED  BY <1>1, <1>2, PTL DEF BrokerSpec

(* Shutdown: once it has returned without an error no handler, no accept loop, *)
(* no request and no socket of a finished Start is left, however Start, the    *)
(* handlers and their shared requests interleave with it.                      *)
THEOREM BrokerShutdownIsQuiet == BrokerSpec => []ShutdownIsQuiet
<1>1. BrokerInv => ShutdownIsQuiet
  BY Zenon DEF BrokerInv
<1> QED  BY <1>1, BrokerInvariant, PTL

(* lookupCertificate: a name under the on-demand policy is never answered with *)
(* the wildcard, whatever is distributed between the lookups.                  *)
THEOREM MarkedNamesStayExact == BrokerSpec => []MarkedNameIsExact
<1>1. BrokerInv => MarkedNameIsExact
  BY Zenon DEF BrokerInv
<1> QED  BY <1>1, BrokerInvariant, PTL

-----------------------------------------------------------------------------
(* CredentialRotation                                                          *)

INSTANCE WellFoundedInduction

TargetType == [state : TargetStates, challenge : Records, install : Records,
               ready : Readies, revoke : 0..MaxProcess]
CoordinatorType == [started : BOOLEAN, finished : BOOLEAN, targets : [Targets -> TargetType]]
StoreType ==
    [started : BOOLEAN, succeeded : BOOLEAN,
     challenges : [Targets -> SUBSET Records], installs : [Targets -> Records],
     readiness : [Targets -> Readies], revocations : [Targets -> 0..MaxProcess],
     result : [Targets -> TargetStates \cup {"none"}]]
ConnectorType == [proc : 1..MaxProcess, key : 0..MaxNonce, install : Records,
                  readied : BOOLEAN, revoked : BOOLEAN]
FrameType ==
    [type : {"challenge", "proof", "install", "ready", "revoke", "revoked", "rejected"},
     to : Targets, proc : 1..MaxProcess, prev : 0..MaxProcess, nonce : 0..MaxNonce]

LEMMA Typed ==
    RotationTypeOK <=>
        /\ coordinator \in CoordinatorType /\ db \in StoreType
        /\ connector \in [Targets -> ConnectorType] /\ wire \subseteq FrameType
        /\ expired \subseteq 1..MaxNonce /\ nonce \in 0..MaxNonce
  BY Zenon DEF RotationTypeOK, CoordinatorType, TargetType, StoreType, ConnectorType, FrameType

LEMMA TypedNext ==
    RotationTypeOK' <=>
        /\ coordinator' \in CoordinatorType /\ db' \in StoreType
        /\ connector' \in [Targets -> ConnectorType] /\ wire' \subseteq FrameType
        /\ expired' \subseteq 1..MaxNonce /\ nonce' \in 0..MaxNonce
  BY Zenon DEF RotationTypeOK, CoordinatorType, TargetType, StoreType, ConnectorType, FrameType

(* The challenge that LoadCredentialRotation takes is one of the recorded.     *)
LEMMA LatestIsRecorded ==
    ASSUME NEW S \in SUBSET Records, S # {}
    PROVE  \E c \in S : \A d \in S : d.nonce <= c.nonce
<1> DEFINE T == {MaxNonce - c.nonce : c \in S}
<1>1. T \subseteq Nat /\ T # {}
  BY RotationAssumption DEF Records
<1>2. PICK x \in T : \A y \in T : ~(<<y, x>> \in OpToRel(<, Nat))
  BY <1>1, NatLessThanWellFounded, WFMin, Zenon
<1>3. \A y \in T : ~(y < x)
  BY <1>1, <1>2, Zenon DEF OpToRel
<1>4. PICK c \in S : x = MaxNonce - c.nonce
  BY Zenon
<1>5. ASSUME NEW d \in S
      PROVE  d.nonce <= c.nonce
  <2>1. ~(MaxNonce - d.nonce < MaxNonce - c.nonce)
    BY <1>3, <1>4, Zenon
  <2> QED  BY <2>1, RotationAssumption DEF Records
<1> QED  BY <1>5, Zenon

LEMMA LoadTyped ==
    ASSUME RotationTypeOK, NEW t \in Targets
    PROVE  LoadCredentialRotation(t) \in TargetType
<1>1. db \in StoreType
  BY Typed, Zenon
<1>2. /\ db.challenges[t] \in SUBSET Records /\ db.installs[t] \in Records /\ db.readiness[t] \in Readies
      /\ db.revocations[t] \in 0..MaxProcess /\ db.result[t] \in TargetStates \cup {"none"}
  BY <1>1, Zenon DEF StoreType
<1>3. NoRecord \in Records
  BY RotationAssumption DEF NoRecord, Records
<1>4. latestChallenge(t) \in Records
  BY <1>2, <1>3, LatestIsRecorded, Zenon DEF latestChallenge
<1>5. LoadCredentialRotation(t).state \in TargetStates
  BY <1>2, Zenon DEF LoadCredentialRotation, TargetStates
<1> QED  BY <1>2, <1>4, <1>5, Zenon DEF LoadCredentialRotation, TargetType

LEMMA NewTyped == NewRotationCoordinator \in CoordinatorType
<1>1. FreshTarget \in TargetType
  BY RotationAssumption DEF FreshTarget, TargetType, TargetStates, NoRecord, NoReady, Records, Readies
<1> QED  BY <1>1, Zenon DEF NewRotationCoordinator, CoordinatorType

(* The outcomes of an operation on target t keep the types.                    *)
LEMMA OutcomesTyped ==
    ASSUME RotationTypeOK, NEW t \in Targets, NEW stored \in StoreType, NEW e \in TargetType,
           NEW frames \in SUBSET FrameType,
           Recorded(t, stored, e, frames) \/ FailTarget(t) \/ CrashAfter(stored)
    PROVE  coordinator' \in CoordinatorType /\ db' \in StoreType /\ wire' \subseteq FrameType
<1>0. coordinator \in CoordinatorType /\ db \in StoreType /\ wire \subseteq FrameType
  BY Typed, Zenon
<1>1. CASE Recorded(t, stored, e, frames)
  BY <1>0, <1>1, Zenon DEF Recorded, CoordinatorType
<1>2. CASE FailTarget(t)
  <2>1. coordinator.targets[t] \in TargetType
    BY <1>0, Zenon DEF CoordinatorType
  <2>2. [coordinator.targets[t] EXCEPT !.state = "failed"] \in TargetType
    BY <2>1, Zenon DEF TargetType, TargetStates
  <2>3. coordinator' = [coordinator EXCEPT !.targets[t] = [coordinator.targets[t] EXCEPT !.state = "failed"]]
    BY <1>0, <1>2, Zenon DEF FailTarget, CoordinatorType
  <2> QED  BY <2>2, <2>3, <1>0, <1>2, Zenon DEF FailTarget, CoordinatorType
<1>3. CASE CrashAfter(stored)
  BY <1>0, <1>3, NewTyped, Zenon DEF CrashAfter
<1> QED  BY <1>1, <1>2, <1>3, Zenon

LEMMA EntryTyped ==
    ASSUME RotationTypeOK, NEW t \in Targets
    PROVE  /\ coordinator.targets[t] \in TargetType /\ connector[t] \in ConnectorType
           /\ states[t] = coordinator.targets[t].state /\ states \in [Targets -> TargetStates]
<1>1. coordinator.targets \in [Targets -> TargetType] /\ connector \in [Targets -> ConnectorType]
  BY Typed, Zenon DEF CoordinatorType
<1> QED  BY <1>1, Zenon DEF states, TargetType

LEMMA RotationTypeInductive ==
    ASSUME RotationInv, [RotationNext]_rotationVars
    PROVE  RotationTypeOK'
<1>0. /\ RotationTypeOK /\ coordinator \in CoordinatorType /\ db \in StoreType
      /\ connector \in [Targets -> ConnectorType] /\ wire \subseteq FrameType
      /\ expired \subseteq 1..MaxNonce /\ nonce \in 0..MaxNonce
  BY Typed, Zenon DEF RotationInv
<1>1. CASE UNCHANGED rotationVars
  BY <1>0, <1>1, TypedNext, Zenon DEF rotationVars
<1>2. CASE Start
  BY <1>0, <1>2, TypedNext, ZenonT(30) DEF Start, StoreType, CoordinatorType
<1>3. CASE Resume
  <2>1. coordinator' \in CoordinatorType
    BY <1>0, <1>3, LoadTyped, Zenon DEF Resume, CoordinatorType, StoreType
  <2> QED  BY <2>1, <1>0, <1>3, TypedNext, Zenon DEF Resume
<1>4. CASE Crash
  BY <1>0, <1>4, NewTyped, TypedNext, Zenon DEF Crash
<1>5. CASE ChallengeExpires
  BY <1>0, <1>5, TypedNext, RotationAssumption DEF ChallengeExpires
<1>6. ASSUME NEW t \in Targets, Challenge(t)
      PROVE  RotationTypeOK'
  <2> DEFINE c == [nonce |-> nonce + 1, proc |-> connector[t].proc]
             stored == [db EXCEPT !.challenges[t] = @ \cup {c}]
             e == [coordinator.targets[t] EXCEPT !.state = "challenged", !.challenge = c]
  <2>1. connector[t].proc \in 1..MaxProcess /\ nonce + 1 \in 0..MaxNonce
    BY <1>0, <1>6, EntryTyped, RotationAssumption DEF ConnectorType, Challenge
  <2>2. c \in Records
    BY <2>1, RotationAssumption DEF Records
  <2>3. RotationChallenge(t, c) \in FrameType
    BY <2>1, RotationAssumption DEF RotationChallenge, Frame, FrameType
  <2>4. Recorded(t, stored, e, {RotationChallenge(t, c)}) \/ CrashAfter(stored)
    BY <1>6, Zenon DEF Challenge
  <2>5. nonce' = nonce + 1 /\ UNCHANGED <<connector, expired>>
    BY <1>6, Zenon DEF Challenge
  <2> HIDE DEF c
  <2>6. stored \in StoreType
    BY <2>2, <1>0, Zenon DEF StoreType
  <2>7. e \in TargetType
    BY <2>2, <1>0, EntryTyped, Zenon DEF TargetType, TargetStates
  <2> HIDE DEF stored, e
  <2> QED  BY <2>1, <2>3, <2>4, <2>5, <2>6, <2>7, <1>0, OutcomesTyped, TypedNext, Zenon
<1>7. ASSUME NEW t \in Targets, AcceptProof(t)
      PROVE  RotationTypeOK'
  <2>1. PICK proof \in Received("proof", t) :
            LET r == [nonce |-> proof.nonce, proc |-> proof.proc]
                stored == [db EXCEPT !.installs[t] = r]
            IN  \/ Recorded(t, stored, [coordinator.targets[t] EXCEPT !.state = "installed", !.install = r],
                            {RotationInstall(t, proof)})
                \/ FailTarget(t)
                \/ CrashAfter(stored)
    BY <1>7, Zenon DEF AcceptProof
  <2> DEFINE r == [nonce |-> proof.nonce, proc |-> proof.proc]
             stored == [db EXCEPT !.installs[t] = r]
             e == [coordinator.targets[t] EXCEPT !.state = "installed", !.install = r]
  <2>2. proof \in FrameType
    BY <1>0, Zenon DEF Received
  <2>3. r \in Records /\ RotationInstall(t, proof) \in FrameType
    BY <2>2, RotationAssumption DEF Records, RotationInstall, Frame, FrameType
  <2>4. Recorded(t, stored, e, {RotationInstall(t, proof)}) \/ FailTarget(t) \/ CrashAfter(stored)
    BY <2>1, Zenon
  <2> HIDE DEF r
  <2>5. stored \in StoreType
    BY <2>3, <1>0, Zenon DEF StoreType
  <2>6. e \in TargetType
    BY <2>3, <1>0, EntryTyped, Zenon DEF TargetType, TargetStates
  <2>7. UNCHANGED <<connector, expired, nonce>>
    BY <1>7, Zenon DEF AcceptProof
  <2> HIDE DEF stored, e
  <2> QED  BY <2>3, <2>4, <2>5, <2>6, <2>7, <1>0, OutcomesTyped, TypedNext, Zenon
<1>8. ASSUME NEW t \in Targets, MarkReady(t)
      PROVE  RotationTypeOK'
  <2>1. PICK m \in Received("ready", t) :
            LET r == [proc |-> m.proc, prev |-> m.prev]
                stored == [db EXCEPT !.readiness[t] = r]
            IN  \/ Recorded(t, stored, [coordinator.targets[t] EXCEPT !.state = "ready", !.ready = r], {})
                \/ FailTarget(t)
                \/ CrashAfter(stored)
    BY <1>8, Zenon DEF MarkReady
  <2> DEFINE r == [proc |-> m.proc, prev |-> m.prev]
             stored == [db EXCEPT !.readiness[t] = r]
             e == [coordinator.targets[t] EXCEPT !.state = "ready", !.ready = r]
  <2>2. r \in Readies
    BY <1>0, RotationAssumption DEF Received, FrameType, Readies
  <2>3. Recorded(t, stored, e, {}) \/ FailTarget(t) \/ CrashAfter(stored)
    BY <2>1, Zenon
  <2> HIDE DEF r
  <2>4. stored \in StoreType
    BY <2>2, <1>0, Zenon DEF StoreType
  <2>5. e \in TargetType
    BY <2>2, <1>0, EntryTyped, Zenon DEF TargetType, TargetStates
  <2>6. UNCHANGED <<connector, expired, nonce>>
    BY <1>8, Zenon DEF MarkReady
  <2> HIDE DEF stored, e
  <2> QED  BY <2>3, <2>4, <2>5, <2>6, <1>0, OutcomesTyped, TypedNext
<1>9. ASSUME NEW t \in Targets, Revoke(t)
      PROVE  RotationTypeOK'
  <2> DEFINE p == coordinator.targets[t].ready.proc
             stored == [db EXCEPT !.revocations[t] = p]
             e == [coordinator.targets[t] EXCEPT !.state = "revoking", !.revoke = p]
  <2>1. coordinator.targets[t].state = "ready"
    BY <1>9, Zenon DEF Revoke
  <2>2. p \in 0..MaxProcess /\ p # 0
    BY <2>1, <1>0, EntryTyped DEF RotationInv, WriteBeforeTell, RecordsAreBacked, TargetType, Readies
  <2>3. RotationRevoke(t, p) \in FrameType
    BY <2>2, RotationAssumption DEF RotationRevoke, Frame, FrameType
  <2>4. Recorded(t, stored, e, {RotationRevoke(t, p)}) \/ FailTarget(t) \/ CrashAfter(stored)
    BY <1>9, Zenon DEF Revoke
  <2> HIDE DEF p
  <2>5. stored \in StoreType
    BY <2>2, <1>0, Zenon DEF StoreType
  <2>6. e \in TargetType
    BY <2>2, <1>0, EntryTyped, Zenon DEF TargetType, TargetStates
  <2>7. UNCHANGED <<connector, expired, nonce>>
    BY <1>9, Zenon DEF Revoke
  <2> HIDE DEF stored, e
  <2> QED  BY <2>3, <2>4, <2>5, <2>6, <2>7, <1>0, OutcomesTyped, TypedNext, Zenon
<1>10. ASSUME NEW t \in Targets, ReissueRevoke(t)
       PROVE  RotationTypeOK'
  <2>1. coordinator.targets[t].state = "revoking"
    BY <1>10, <1>0, EntryTyped, Zenon DEF ReissueRevoke
  <2>2. coordinator.targets[t].revoke \in 1..MaxProcess
    BY <2>1, <1>0, EntryTyped, RotationAssumption DEF RotationInv, WriteBeforeTell, TargetType
  <2>3. RotationRevoke(t, coordinator.targets[t].revoke) \in FrameType
    BY <2>2, RotationAssumption DEF RotationRevoke, Frame, FrameType
  <2> QED  BY <2>3, <1>10, <1>0, TypedNext, Zenon DEF ReissueRevoke
<1>11. ASSUME NEW s \in [Targets -> TargetStates]
       PROVE  RecordResult(s) \in StoreType
  BY <1>0, Zenon DEF RecordResult, StoreType
<1>12. ASSUME NEW t \in Targets, Fail(t) \/ HandleNegativeAck(t)
       PROVE  RotationTypeOK'
  <2> DEFINE s == [states EXCEPT ![t] = "failed"]
             e == [coordinator.targets[t] EXCEPT !.state = "failed"]
  <2>1. s \in [Targets -> TargetStates] /\ e \in TargetType
    BY <1>0, EntryTyped, Zenon DEF TargetStates, TargetType
  <2>2. Recorded(t, RecordResult(s), e, {}) \/ CrashAfter(RecordResult(s))
    BY <1>12, Zenon DEF Fail, HandleNegativeAck, TargetFails
  <2>3. UNCHANGED <<connector, expired, nonce>>
    BY <1>12, Zenon DEF Fail, HandleNegativeAck, TargetFails
  <2> HIDE DEF s, e
  <2> QED  BY <2>1, <2>2, <2>3, <1>11, <1>0, OutcomesTyped, TypedNext
<1>13. ASSUME NEW t \in Targets, HandleRevokedAck(t)
       PROVE  RotationTypeOK'
  <2> DEFINE s == [states EXCEPT ![t] = "revoked"]
             fin == coordinator.finished \/ summaryLocked(s) = "succeeded"
  <2>1. s \in [Targets -> TargetStates] /\ RecordResult(s) \in StoreType /\ fin \in BOOLEAN
    BY <1>0, <1>11, EntryTyped, Zenon DEF TargetStates, CoordinatorType
  <2> HIDE DEF fin, s
  <2>2. \A v \in {"revoked", "failed"} :
            [coordinator EXCEPT !.targets[t].state = v, !.finished = fin] \in CoordinatorType
    <3> SUFFICES ASSUME NEW v \in {"revoked", "failed"}
                 PROVE  [coordinator EXCEPT !.targets[t].state = v, !.finished = fin] \in CoordinatorType
      BY Zenon
    <3>1. [coordinator.targets[t] EXCEPT !.state = v] \in TargetType
      BY <1>0, EntryTyped, Zenon DEF TargetType, TargetStates
    <3>2. [coordinator EXCEPT !.targets[t].state = v, !.finished = fin] =
          [coordinator EXCEPT !.targets = [@ EXCEPT ![t] = [coordinator.targets[t] EXCEPT !.state = v]], !.finished = fin]
      BY <1>0, Zenon DEF CoordinatorType
    <3> QED  BY <3>1, <3>2, <2>1, <1>0, Zenon DEF CoordinatorType
  <2>3. coordinator' \in CoordinatorType /\ db' \in StoreType /\ wire' = wire
    BY <2>1, <2>2, <1>13, <1>0, NewTyped, Zenon DEF HandleRevokedAck, CrashAfter, s, fin
  <2> QED  BY <2>3, <1>13, <1>0, TypedNext, Zenon DEF HandleRevokedAck
<1>14. ASSUME NEW t \in Targets, HandleChallenge(t) \/ HandleInstall(t) \/ HandleRevoke(t)
       PROVE  RotationTypeOK'
  <2>1. PICK m \in wire : /\ m.to = t
            /\ wire' \subseteq wire \cup {RotationAck("rejected", t, m.proc), RotationProof(t, m),
                                          RotationAck("revoked", t, m.proc)}
            /\ \/ UNCHANGED connector
               \/ connector' = [connector EXCEPT ![t].install = [nonce |-> m.nonce, proc |-> m.proc]]
               \/ connector' = [connector EXCEPT ![t].revoked = TRUE]
    BY <1>14, Zenon DEF HandleChallenge, HandleInstall, HandleRevoke, rotationAckError, Received
  <2>2. m \in FrameType
    BY <1>0, Zenon
  <2>3. {RotationAck("rejected", t, m.proc), RotationProof(t, m), RotationAck("revoked", t, m.proc)} \subseteq FrameType
    BY <2>2, RotationAssumption DEF RotationAck, RotationProof, Frame, FrameType
  <2>4. [nonce |-> m.nonce, proc |-> m.proc] \in Records
    BY <2>2, RotationAssumption DEF FrameType, Records
  <2>5. connector' \in [Targets -> ConnectorType]
    <3>1. \/ connector' = connector
          \/ connector' = [connector EXCEPT ![t] = [connector[t] EXCEPT !.install = [nonce |-> m.nonce, proc |-> m.proc]]]
          \/ connector' = [connector EXCEPT ![t] = [connector[t] EXCEPT !.revoked = TRUE]]
      BY <2>1, <1>0, Zenon
    <3>2. /\ [connector[t] EXCEPT !.install = [nonce |-> m.nonce, proc |-> m.proc]] \in ConnectorType
          /\ [connector[t] EXCEPT !.revoked = TRUE] \in ConnectorType
      BY <2>4, <1>0, EntryTyped, Zenon DEF ConnectorType
    <3> QED  BY <3>1, <3>2, <1>0, Zenon
  <2> QED  BY <2>1, <2>3, <2>5, <1>14, <1>0, TypedNext, Zenon DEF HandleChallenge, HandleInstall, HandleRevoke
<1>15. ASSUME NEW t \in Targets, NextProcess(t)
       PROVE  RotationTypeOK'
  <2>1. PICK key \in {connector[t].key, connector[t].install.nonce} :
            connector' = [connector EXCEPT ![t].proc = @ + 1, ![t].key = key]
    BY <1>15, Zenon DEF NextProcess
  <2>2. key \in 0..MaxNonce /\ connector[t].proc + 1 \in 1..MaxProcess
    BY <1>15, <1>0, EntryTyped, RotationAssumption DEF NextProcess, ConnectorType, Records
  <2>3. [connector[t] EXCEPT !.proc = @ + 1, !.key = key] \in ConnectorType
    BY <2>2, <1>0, EntryTyped, Zenon DEF ConnectorType
  <2>4. connector' = [connector EXCEPT ![t] = [connector[t] EXCEPT !.proc = @ + 1, !.key = key]]
    BY <2>1, <1>0, Zenon
  <2>5. connector' \in [Targets -> ConnectorType]
    BY <2>3, <2>4, <1>0, Zenon
  <2> QED  BY <2>5, <1>15, <1>0, TypedNext, Zenon DEF NextProcess
<1>16. ASSUME NEW t \in Targets, SendReady(t)
       PROVE  RotationTypeOK'
  <2>1. RotationReady(t, connector[t].proc, connector[t].install.proc, connector[t].key) \in FrameType
    BY <1>0, EntryTyped, Zenon DEF ConnectorType, Records, RotationReady, Frame, FrameType
  <2>2. connector' \in [Targets -> ConnectorType]
    BY <1>16, <1>0, Zenon DEF SendReady, ConnectorType
  <2> QED  BY <2>1, <2>2, <1>16, <1>0, TypedNext, Zenon DEF SendReady
<1> QED  BY <1>1, <1>2, <1>3, <1>4, <1>5, <1>6, <1>7, <1>8, <1>9, <1>10, <1>12, <1>13, <1>14, <1>15, <1>16, Zenon
         DEF RotationNext

-----------------------------------------------------------------------------
(* What a frame says.                                                          *)
Told(m) ==
    /\ m.type = "install" => db.installs[m.to] = [nonce |-> m.nonce, proc |-> m.proc]
    /\ m.type = "revoke" => db.revocations[m.to] = m.proc
    /\ m.type = "ready" => connector[m.to].readied
    /\ m.type = "revoked" => connector[m.to].revoked

(* What a step may do to the store, to the connectors and to the frames: an    *)
(* install and a revocation are recorded once, a revocation after everyone is  *)
(* ready, and only what is recorded or done is told.                           *)
StoreMoves ==
    /\ db.started => db'.started
    /\ \A t \in Targets :
        /\ db'.installs[t] = db.installs[t] \/ (db.installs[t] = NoRecord /\ db.started)
        /\ \/ db'.revocations[t] = db.revocations[t]
           \/ /\ db.revocations[t] = 0 /\ db.started
              /\ \A u \in Targets : db.readiness[u] # NoReady
        /\ \/ db'.readiness[t] = db.readiness[t]
           \/ db'.readiness[t] # NoReady /\ db'.readiness[t].proc # 0 /\ connector[t].readied
        /\ db'.result[t] = "revoked" => db.result[t] = "revoked" \/ connector[t].revoked
    /\ db.succeeded => db'.succeeded
    /\ (\A t \in Targets : db'.result[t] = "revoked") =>
            db'.succeeded \/ \A t \in Targets : db.result[t] = "revoked"
ConnectorMoves ==
    \A t \in Targets :
        /\ connector[t].readied => connector'[t].readied
        /\ connector[t].revoked => connector'[t].revoked
        /\ connector'[t].revoked => connector[t].revoked \/ db.revocations[t] # 0
        /\ connector'[t].install \in {connector[t].install, db.installs[t]}
FramesMove == \A m \in wire' : m \in wire \/ Told(m)'
Moves == StoreMoves /\ ConnectorMoves /\ FramesMove

LEMMA StoreStays ==
    ASSUME db' = db \/ (\E t, c : db' = [db EXCEPT !.challenges[t] = @ \cup {c}]) \/ db' = [db EXCEPT !.started = TRUE],
           db \in StoreType
    PROVE  StoreMoves
  BY Zenon DEF StoreMoves, StoreType

LEMMA ConnectorsStay ==
    ASSUME connector' = connector
    PROVE  ConnectorMoves
  BY Zenon DEF ConnectorMoves

LEMMA Running ==
    ASSUME RotationInv, NEW t \in Targets, coordinator.targets[t].state # "pending"
    PROVE  coordinator.started /\ db.started
  BY DEF RotationInv, PhasesAreRecorded, NewRotationCoordinator, FreshTarget

LEMMA Succeeds ==
    ASSUME NEW s
    PROVE  summaryLocked(s) = "succeeded" <=> \A t \in Targets : s[t] = "revoked"
  BY RotationAssumption, Zenon DEF summaryLocked

LEMMA ResultMoves ==
    ASSUME RotationInv, NEW s \in [Targets -> TargetStates], db' = RecordResult(s),
           \A t \in Targets : s[t] = "revoked" => connector[t].revoked
    PROVE  StoreMoves
<1>1. db \in StoreType
  BY Typed, Zenon DEF RotationInv
<1>2. /\ db'.result = s /\ db'.started = db.started /\ db'.installs = db.installs
      /\ db'.readiness = db.readiness /\ db'.revocations = db.revocations
      /\ db'.succeeded <=> (db.succeeded \/ summaryLocked(s) = "succeeded")
  BY <1>1, Zenon DEF RecordResult, StoreType
<1> QED  BY <1>2, Succeeds, Zenon DEF StoreMoves

LEMMA RevokedIsRevoked ==
    ASSUME RotationInv, NEW t \in Targets
    PROVE  states[t] = "revoked" => connector[t].revoked
<1>1. states[t] = coordinator.targets[t].state
  BY EntryTyped, Zenon DEF RotationInv
<1> QED  BY <1>1, Running, Zenon DEF RotationInv, PhasesAreRecorded

LEMMA EveryoneReady ==
    ASSUME RotationInv, allReadyLocked, NEW u \in Targets
    PROVE  db.readiness[u] # NoReady
<1>1. coordinator.targets[u].state \in {"ready", "revoking", "revoked"}
  BY EntryTyped, Zenon DEF RotationInv, allReadyLocked
<1>2. CASE coordinator.targets[u].state = "ready"
  BY <1>2, Zenon DEF RotationInv, WriteBeforeTell
<1>3. CASE coordinator.targets[u].state \in {"revoking", "revoked"}
  BY <1>3, Running, Zenon DEF RotationInv, PhasesAreRecorded, RecordsAreBacked
<1> QED  BY <1>1, <1>2, <1>3, Zenon

LEMMA EveryStepMoves ==
    ASSUME RotationInv, [RotationNext]_rotationVars
    PROVE  Moves
<1>0. /\ RotationTypeOK /\ db \in StoreType /\ wire \subseteq FrameType
      /\ connector \in [Targets -> ConnectorType]
  BY Typed, Zenon DEF RotationInv
<1>1. CASE UNCHANGED rotationVars \/ Start \/ Resume \/ Crash \/ ChallengeExpires
  BY <1>0, <1>1, StoreStays, ConnectorsStay, Zenon
     DEF Moves, FramesMove, rotationVars, Start, Resume, Crash, ChallengeExpires
<1>2. ASSUME NEW t \in Targets, Challenge(t)
      PROVE  Moves
  <2>1. connector' = connector /\ StoreMoves
    BY <1>0, <1>2, StoreStays, Zenon DEF Challenge, Recorded, CrashAfter
  <2>2. FramesMove
    BY <1>2 DEF Challenge, Recorded, CrashAfter, FramesMove, Told, RotationChallenge, Frame
  <2> QED  BY <2>1, <2>2, ConnectorsStay, Zenon DEF Moves
<1>3. ASSUME NEW t \in Targets, AcceptProof(t)
      PROVE  Moves
  <2>1. /\ coordinator.targets[t].state = "challenged" /\ connector' = connector
        /\ \E proof \in wire :
             LET r == [nonce |-> proof.nonce, proc |-> proof.proc]
                 stored == [db EXCEPT !.installs[t] = r]
             IN  \/ db' = stored /\ wire' \subseteq wire \cup {RotationInstall(t, proof)}
                 \/ db' = db /\ wire' = wire
    BY <1>3, Zenon DEF AcceptProof, Received, Recorded, FailTarget, CrashAfter
  <2>2. db.installs[t] = NoRecord /\ db.started
    BY <2>1, Running, Zenon DEF RotationInv, PhasesAreRecorded
  <2>3. CASE db' = db /\ wire' = wire
    BY <2>1, <2>3, <1>0, StoreStays, ConnectorsStay, Zenon DEF Moves, FramesMove
  <2>4. ASSUME NEW proof \in wire, db' = [db EXCEPT !.installs[t] = [nonce |-> proof.nonce, proc |-> proof.proc]],
               wire' \subseteq wire \cup {RotationInstall(t, proof)}
        PROVE  Moves
    <3>1. StoreMoves /\ db'.installs[t] = [nonce |-> proof.nonce, proc |-> proof.proc]
      BY <2>2, <2>4, <1>0, Zenon DEF StoreMoves, StoreType
    <3>2. FramesMove
      BY <2>4, <3>1 DEF FramesMove, Told, RotationInstall, Frame
    <3> QED  BY <3>1, <3>2, <2>1, ConnectorsStay, Zenon DEF Moves
  <2> QED  BY <2>1, <2>3, <2>4, Zenon
<1>4. ASSUME NEW t \in Targets, MarkReady(t)
      PROVE  Moves
  <2>1. /\ coordinator.targets[t].state = "installed" /\ connector' = connector /\ wire' = wire
        /\ \E m \in wire :
             /\ m.type = "ready" /\ m.to = t
             /\ db' \in {db, [db EXCEPT !.readiness[t] = [proc |-> m.proc, prev |-> m.prev]]}
    BY <1>4, Zenon DEF MarkReady, Received, Recorded, FailTarget, CrashAfter
  <2>2. PICK m \in wire :
             /\ m.type = "ready" /\ m.to = t
             /\ db' \in {db, [db EXCEPT !.readiness[t] = [proc |-> m.proc, prev |-> m.prev]]}
    BY <2>1, Zenon
  <2>3. m.proc \in 1..MaxProcess /\ connector[t].readied
    BY <2>2, <1>0, Zenon DEF FrameType, RotationInv, RecordsAreBacked
  <2>4. [proc |-> m.proc, prev |-> m.prev] # NoReady
    BY <2>3, RotationAssumption DEF NoReady
  <2>5. CASE db' = [db EXCEPT !.readiness[t] = [proc |-> m.proc, prev |-> m.prev]]
    <3>1. /\ db'.readiness = [db.readiness EXCEPT ![t] = [proc |-> m.proc, prev |-> m.prev]]
          /\ db'.started = db.started /\ db'.installs = db.installs /\ db'.revocations = db.revocations
          /\ db'.result = db.result /\ db'.succeeded = db.succeeded
      BY <2>5, <1>0, Zenon DEF StoreType
    <3>2. db'.readiness[t] = [proc |-> m.proc, prev |-> m.prev]
          /\ \A u \in Targets \ {t} : db'.readiness[u] = db.readiness[u]
      BY <3>1, <1>0, Zenon DEF StoreType
    <3> QED  BY <3>1, <3>2, <2>3, <2>4, <2>1, ConnectorsStay, RotationAssumption DEF Moves, StoreMoves, FramesMove
  <2>6. CASE db' = db
    BY <2>1, <2>6, <1>0, StoreStays, ConnectorsStay, Zenon DEF Moves, FramesMove
  <2> QED  BY <2>2, <2>5, <2>6, Zenon
<1>5. ASSUME NEW t \in Targets, Revoke(t)
      PROVE  Moves
  <2> DEFINE p == coordinator.targets[t].ready.proc
  <2>1. /\ coordinator.targets[t].state = "ready" /\ allReadyLocked /\ connector' = connector
        /\ \/ db' = [db EXCEPT !.revocations[t] = p] /\ wire' \subseteq wire \cup {RotationRevoke(t, p)}
           \/ db' = db /\ wire' = wire
    BY <1>5, Zenon DEF Revoke, Recorded, FailTarget, CrashAfter
  <2>2. db.revocations[t] = 0 /\ db.started /\ \A u \in Targets : db.readiness[u] # NoReady
    BY <2>1, Running, EveryoneReady, Zenon DEF RotationInv, PhasesAreRecorded
  <2>3. CASE db' = db /\ wire' = wire
    BY <2>1, <2>3, <1>0, StoreStays, ConnectorsStay, Zenon DEF Moves, FramesMove
  <2> HIDE DEF p
  <2>4. CASE db' = [db EXCEPT !.revocations[t] = p] /\ wire' \subseteq wire \cup {RotationRevoke(t, p)}
    <3>1. StoreMoves /\ db'.revocations[t] = p
      BY <2>2, <2>4, <1>0, Zenon DEF StoreMoves, StoreType
    <3>2. FramesMove
      BY <2>4, <3>1 DEF FramesMove, Told, RotationRevoke, Frame
    <3> QED  BY <3>1, <3>2, <2>1, ConnectorsStay, Zenon DEF Moves
  <2> QED  BY <2>1, <2>3, <2>4, Zenon
<1>6. ASSUME NEW t \in Targets, ReissueRevoke(t)
      PROVE  Moves
  <2>1. /\ coordinator.targets[t].state = "revoking" /\ connector' = connector /\ db' = db
        /\ wire' = wire \cup {RotationRevoke(t, coordinator.targets[t].revoke)}
    BY <1>6, <1>0, EntryTyped, Zenon DEF ReissueRevoke
  <2>2. FramesMove
    BY <2>1 DEF FramesMove, Told, RotationRevoke, Frame, RotationInv, WriteBeforeTell
  <2> QED  BY <2>1, <2>2, <1>0, StoreStays, ConnectorsStay, Zenon DEF Moves
<1>7. ASSUME NEW t \in Targets, Fail(t) \/ HandleNegativeAck(t)
      PROVE  Moves
  <2> DEFINE s == [states EXCEPT ![t] = "failed"]
  <2>1. db' = RecordResult(s) /\ connector' = connector /\ wire' = wire
    BY <1>7, Zenon DEF Fail, HandleNegativeAck, TargetFails, Recorded, CrashAfter
  <2>2. s \in [Targets -> TargetStates] /\ \A u \in Targets : s[u] = "revoked" => states[u] = "revoked"
    BY <1>0, EntryTyped, Zenon DEF TargetStates
  <2> HIDE DEF s
  <2>3. StoreMoves
    BY <2>1, <2>2, ResultMoves, RevokedIsRevoked, Zenon
  <2> QED  BY <2>1, <2>3, ConnectorsStay, Zenon DEF Moves, FramesMove
<1>8. ASSUME NEW t \in Targets, HandleRevokedAck(t)
      PROVE  Moves
  <2> DEFINE s == [states EXCEPT ![t] = "revoked"]
  <2>1. db' \in {db, RecordResult(s)} /\ connector' = connector /\ wire' = wire
    BY <1>8, Zenon DEF HandleRevokedAck, CrashAfter
  <2>2. connector[t].revoked
    BY <1>8, Zenon DEF HandleRevokedAck, Received, RotationInv, RecordsAreBacked
  <2>3. /\ s \in [Targets -> TargetStates]
        /\ \A u \in Targets : s[u] = "revoked" => u = t \/ states[u] = "revoked"
    BY <1>0, EntryTyped, Zenon DEF TargetStates
  <2> HIDE DEF s
  <2>4. StoreMoves
    BY <2>1, <2>2, <2>3, <1>0, ResultMoves, RevokedIsRevoked, StoreStays, Zenon
  <2> QED  BY <2>1, <2>4, ConnectorsStay, Zenon DEF Moves, FramesMove
<1>9. ASSUME NEW t \in Targets, HandleChallenge(t)
      PROVE  Moves
  <2>1. connector' = connector /\ db' = db /\ FramesMove
    BY <1>9 DEF HandleChallenge, rotationAckError, FramesMove, Told, RotationAck, RotationProof, Frame
  <2> QED  BY <2>1, <1>0, StoreStays, ConnectorsStay, Zenon DEF Moves
<1>10. ASSUME NEW t \in Targets, HandleInstall(t)
       PROVE  Moves
  <2>1. db' = db /\ FramesMove
    BY <1>10 DEF HandleInstall, rotationAckError, FramesMove, Told, RotationAck, Frame
  <2>2. ConnectorMoves
    <3>1. \/ connector' = connector
          \/ connector' = [connector EXCEPT ![t].install = db.installs[t]]
      BY <1>10, Zenon DEF HandleInstall, rotationAckError, Received, RotationInv, RecordsAreBacked
    <3> QED  BY <3>1, <1>0, ConnectorsStay DEF ConnectorMoves, ConnectorType
  <2> QED  BY <2>1, <2>2, <1>0, StoreStays, Zenon DEF Moves
<1>11. ASSUME NEW t \in Targets, HandleRevoke(t)
       PROVE  Moves
  <2>1. PICK m \in wire : /\ m.type = "revoke" /\ m.to = t
            /\ \/ /\ connector' = [connector EXCEPT ![t].revoked = TRUE]
                  /\ wire' = wire \cup {RotationAck("revoked", t, m.proc)}
               \/ connector' = connector /\ wire' = wire \cup {RotationAck("rejected", t, m.proc)}
    BY <1>11, Zenon DEF HandleRevoke, rotationAckError, Received
  <2>2. db.revocations[t] # 0
    BY <2>1, <1>0, RotationAssumption DEF RotationInv, WriteBeforeTell, FrameType
  <2>3. ConnectorMoves
    BY <2>1, <2>2, <1>0, ConnectorsStay DEF ConnectorMoves, ConnectorType
  <2>4. FramesMove
    BY <2>1, <1>0 DEF FramesMove, Told, RotationAck, Frame, ConnectorType
  <2> QED  BY <2>3, <2>4, <1>11, <1>0, StoreStays, Zenon DEF Moves, HandleRevoke
<1>12. ASSUME NEW t \in Targets, NextProcess(t)
       PROVE  Moves
  <2>1. ConnectorMoves
    BY <1>12, <1>0 DEF NextProcess, ConnectorMoves, ConnectorType
  <2> QED  BY <2>1, <1>12, <1>0, StoreStays, Zenon DEF Moves, NextProcess, FramesMove
<1>13. ASSUME NEW t \in Targets, SendReady(t)
       PROVE  Moves
  <2>1. ConnectorMoves /\ connector'[t].readied
    BY <1>13, <1>0, Zenon DEF SendReady, ConnectorMoves, ConnectorType
  <2>2. FramesMove
    BY <2>1, <1>13 DEF SendReady, FramesMove, Told, RotationReady, Frame
  <2> QED  BY <2>1, <2>2, <1>13, <1>0, StoreStays, Zenon DEF Moves, SendReady
<1> QED  BY <1>1, <1>2, <1>3, <1>4, <1>5, <1>6, <1>7, <1>8, <1>9, <1>10, <1>11, <1>12, <1>13, Zenon
         DEF RotationNext

-----------------------------------------------------------------------------
LEMMA RecordsInductive ==
    ASSUME RotationInv, RotationTypeOK', Moves
    PROVE  RecordsAreBacked' /\ NoOrphanedKey' /\ \A m \in wire' : Told(m)'
<1>0. /\ wire \subseteq FrameType /\ db \in StoreType /\ db' \in StoreType
      /\ connector \in [Targets -> ConnectorType] /\ wire' \subseteq FrameType
  BY Typed, TypedNext, Zenon DEF RotationInv
<1>1. \A t \in Targets : db'.installs[t] = db.installs[t] \/ db.installs[t] = NoRecord
  BY Zenon DEF Moves, StoreMoves
<1>2. \A t \in Targets : db'.revocations[t] = db.revocations[t] \/ db.revocations[t] = 0
  BY Zenon DEF Moves, StoreMoves
<1>3. ASSUME NEW m \in wire
      PROVE  Told(m)'
  <2>1. m \in FrameType /\ m.to \in Targets /\ m.proc # 0
    BY <1>0, RotationAssumption DEF FrameType
  <2>2. Told(m)
    BY Zenon DEF Told, RotationInv, RecordsAreBacked, WriteBeforeTell
  <2>3. [nonce |-> m.nonce, proc |-> m.proc] # NoRecord
    BY <2>1, Zenon DEF NoRecord
  <2>4. /\ connector[m.to].readied => connector'[m.to].readied
        /\ connector[m.to].revoked => connector'[m.to].revoked
    BY <2>1, Zenon DEF Moves, ConnectorMoves
  <2> QED  BY <2>1, <2>2, <2>3, <2>4, <1>1, <1>2, Zenon DEF Told
<1>4. \A m \in wire' : Told(m)'
  BY <1>3, Zenon DEF Moves, FramesMove
<1>5. ASSUME NEW t \in Targets
      PROVE  /\ db'.readiness[t] # NoReady => db'.readiness[t].proc # 0 /\ connector'[t].readied
             /\ db'.revocations[t] # 0 => \A u \in Targets : db'.readiness[u] # NoReady
             /\ connector'[t].revoked => db'.revocations[t] # 0
             /\ db'.result[t] = "revoked" => connector'[t].revoked
             /\ ~db'.started => db'.installs[t] = NoRecord /\ db'.revocations[t] = 0
             /\ connector'[t].install # NoRecord => db'.installs[t] = connector'[t].install
  <2>1. db'.readiness[t] # NoReady => db'.readiness[t].proc # 0 /\ connector'[t].readied
    BY Zenon DEF Moves, StoreMoves, ConnectorMoves, RotationInv, RecordsAreBacked
  <2>2. \A u \in Targets : db.readiness[u] # NoReady => db'.readiness[u] # NoReady
    BY Zenon DEF Moves, StoreMoves
  <2>3. db'.revocations[t] # 0 => \A u \in Targets : db.readiness[u] # NoReady
    BY Zenon DEF Moves, StoreMoves, RotationInv, RecordsAreBacked
  <2>4. connector'[t].revoked => db'.revocations[t] # 0
    BY <1>2, Zenon DEF Moves, ConnectorMoves, RotationInv, RecordsAreBacked
  <2>5. db'.result[t] = "revoked" => connector'[t].revoked
    BY Zenon DEF Moves, StoreMoves, ConnectorMoves, RotationInv, RecordsAreBacked
  <2>6. ~db'.started => db'.installs[t] = NoRecord /\ db'.revocations[t] = 0
    BY Zenon DEF Moves, StoreMoves, RotationInv, RecordsAreBacked
  <2>7. connector'[t].install # NoRecord => db'.installs[t] = connector'[t].install
    BY <1>1, Zenon DEF Moves, ConnectorMoves, RotationInv, NoOrphanedKey
  <2> QED  BY <2>1, <2>2, <2>3, <2>4, <2>5, <2>6, <2>7, Zenon
<1>6. (\A t \in Targets : db'.result[t] = "revoked") => db'.succeeded
  BY Zenon DEF Moves, StoreMoves, RotationInv, RecordsAreBacked
<1>7. NoOrphanedKey'
  BY <1>5, Zenon DEF NoOrphanedKey
<1>8. RecordsAreBacked'
  BY <1>4, <1>5, <1>6, Zenon DEF RecordsAreBacked, Told
<1> QED  BY <1>4, <1>7, <1>8, Zenon

-----------------------------------------------------------------------------
(* The phase of target t in memory agrees with what is recorded.               *)
PhaseOK(t) ==
    LET e == coordinator.targets[t]
    IN  /\ e.state = "installed" => e.install = db.installs[t]
        /\ e.state = "ready" => e.ready = db.readiness[t] /\ e.ready # NoReady
        /\ e.state = "revoking" => e.revoke = db.revocations[t] /\ e.revoke # 0
        /\ coordinator.started =>
            /\ e.state \in {"pending", "challenged"} => db.installs[t] = NoRecord
            /\ e.state \in {"pending", "challenged", "installed", "ready"} => db.revocations[t] = 0
            /\ e.state \in {"revoking", "revoked"} => db.revocations[t] # 0
            /\ e.state = "revoked" => connector[t].revoked
SameRecords(u) ==
    /\ db'.installs[u] = db.installs[u] /\ db'.readiness[u] = db.readiness[u]
    /\ db'.revocations[u] = db.revocations[u]
MemoryOK ==
    /\ IF coordinator.started THEN db.started ELSE coordinator = NewRotationCoordinator
    /\ \A t \in Targets : PhaseOK(t)
    /\ (\A t \in Targets : coordinator.targets[t].state = "revoked") => db.succeeded

LEMMA MemoryIsOK ==
    ASSUME RotationInv
    PROVE  MemoryOK
<1>1. \A t \in Targets : states[t] = coordinator.targets[t].state
  BY EntryTyped, Zenon DEF RotationInv
<1> QED  BY <1>1, Succeeds DEF MemoryOK, PhaseOK, RotationInv, PhasesAreRecorded, WriteBeforeTell, SuccessIsReal

LEMMA PhaseStays ==
    ASSUME RotationInv, Moves, NEW u \in Targets, coordinator'.targets[u] = coordinator.targets[u],
           coordinator'.started = coordinator.started, SameRecords(u)
    PROVE  PhaseOK(u)'
<1>1. PhaseOK(u) /\ (connector[u].revoked => connector'[u].revoked)
  BY MemoryIsOK, Zenon DEF MemoryOK, Moves, ConnectorMoves
<1> QED  BY <1>1, Zenon DEF PhaseOK, SameRecords

LEMMA NewIsOK ==
    ASSUME coordinator' = NewRotationCoordinator
    PROVE  MemoryOK'
  BY RotationAssumption, Zenon DEF MemoryOK, PhaseOK, NewRotationCoordinator, FreshTarget

(* A step that changes the entry of target t and the records of t alone.       *)
LEMMA EntryStep ==
    ASSUME RotationInv, Moves, NEW t \in Targets, NEW e, coordinator.started,
           coordinator'.started, coordinator'.targets = [coordinator.targets EXCEPT ![t] = e],
           \A u \in Targets \ {t} : SameRecords(u), PhaseOK(t)',
           e.state = "revoked" /\ (\A u \in Targets \ {t} : states[u] = "revoked") => db'.succeeded
    PROVE  MemoryOK'
<1>0. coordinator.targets \in [Targets -> TargetType] /\ \A u \in Targets : states[u] = coordinator.targets[u].state
  BY Typed, EntryTyped, Zenon DEF RotationInv, CoordinatorType
<1>1. coordinator'.targets[t] = e /\ \A u \in Targets \ {t} : coordinator'.targets[u] = coordinator.targets[u]
  BY <1>0, Zenon
<1>2. coordinator.started = TRUE /\ coordinator'.started = coordinator.started
  BY Typed, TypedNext, Zenon DEF RotationInv, CoordinatorType
<1>3. \A u \in Targets : PhaseOK(u)'
  BY <1>1, <1>2, PhaseStays, Zenon
<1>4. db'.started
  BY Zenon DEF RotationInv, PhasesAreRecorded, Moves, StoreMoves
<1>5. (\A u \in Targets : coordinator'.targets[u].state = "revoked") => db'.succeeded
  BY <1>0, <1>1
<1> QED  BY <1>3, <1>4, <1>5, Zenon DEF MemoryOK

LEMMA FailedEntry ==
    ASSUME RotationInv, Moves, NEW t \in Targets, coordinator.started, coordinator'.started,
           coordinator'.targets = [coordinator.targets EXCEPT ![t].state = "failed"],
           \A u \in Targets \ {t} : SameRecords(u)
    PROVE  MemoryOK'
<1> DEFINE e == [coordinator.targets[t] EXCEPT !.state = "failed"]
<1>0. coordinator.targets[t] \in TargetType /\ coordinator.targets \in [Targets -> TargetType]
  BY Typed, EntryTyped, Zenon DEF RotationInv, CoordinatorType
<1>1. coordinator'.targets = [coordinator.targets EXCEPT ![t] = e] /\ e.state = "failed"
  BY <1>0, Zenon DEF TargetType
<1>2. coordinator'.targets[t].state = "failed"
  BY <1>0, <1>1, Zenon
<1>3. PhaseOK(t)'
  BY <1>2, Zenon DEF PhaseOK
<1> HIDE DEF e
<1> QED  BY <1>1, <1>3, EntryStep, Zenon

(* Resume takes a phase from the store that validateRotationResumeTarget       *)
(* found to agree with its records.                                            *)
LEMMA LoadedPhase ==
    ASSUME RotationInv, NEW t \in Targets, Resume
    PROVE  PhaseOK(t)' /\ (coordinator'.targets[t].state = "revoked" => db.result[t] = "revoked")
<1> DEFINE e == LoadCredentialRotation(t)
<1>1. coordinator'.targets[t] = e /\ db' = db /\ connector' = connector
  BY Zenon DEF Resume
<1>2. validateRotationResumeTarget(e)
  BY Zenon DEF Resume, Resumable
<1>3. /\ e.install = db.installs[t] /\ e.ready = db.readiness[t] /\ e.revoke = db.revocations[t]
      /\ e.state = "revoked" => db.result[t] = "revoked"
  BY Zenon DEF LoadCredentialRotation
<1> HIDE DEF e
<1>4. /\ e.install # NoRecord => e.challenge # NoRecord
      /\ e.ready # NoReady => e.install # NoRecord
      /\ e.revoke # 0 => e.ready # NoReady
  BY <1>2, Zenon DEF validateRotationResumeTarget
<1>5. /\ e.state = "pending" => e.challenge = NoRecord
      /\ e.state = "challenged" => e.install = NoRecord
      /\ e.state = "installed" => e.ready = NoReady
      /\ e.state = "ready" => e.ready # NoReady /\ e.revoke = 0
      /\ e.state \in {"revoking", "revoked"} => e.revoke # 0
  BY <1>2, Zenon DEF validateRotationResumeTarget
<1>6. db.result[t] = "revoked" => connector[t].revoked
  BY Zenon DEF RotationInv, RecordsAreBacked
<1> QED  BY <1>1, <1>3, <1>4, <1>5, <1>6, Zenon DEF PhaseOK

LEMMA MemoryInductive ==
    ASSUME RotationInv, [RotationNext]_rotationVars
    PROVE  MemoryOK'
<1>0. /\ RotationTypeOK /\ db \in StoreType /\ coordinator \in CoordinatorType /\ MemoryOK /\ Moves
      /\ \A u \in Targets : states[u] = coordinator.targets[u].state /\ coordinator.targets[u] \in TargetType
  BY Typed, MemoryIsOK, EveryStepMoves, EntryTyped, Zenon DEF RotationInv
<1>1. ASSUME coordinator' = coordinator, db' = db
      PROVE  MemoryOK'
  BY <1>1, <1>0, PhaseStays, Zenon DEF MemoryOK, SameRecords
<1>2. CASE UNCHANGED rotationVars \/ ChallengeExpires
  BY <1>1, <1>2, Zenon DEF rotationVars, ChallengeExpires
<1>3. CASE Crash
  BY <1>3, NewIsOK, Zenon DEF Crash
<1>4. CASE Start
  <2>1. CASE coordinator' = coordinator
    <3>1. coordinator = NewRotationCoordinator
      BY <1>4, <1>0, Zenon DEF Start, MemoryOK
    <3> QED  BY <3>1, <2>1, NewIsOK, Zenon
  <2>2. CASE coordinator' = [coordinator EXCEPT !.started = TRUE]
    <3>1. coordinator = NewRotationCoordinator
      BY <1>4, <1>0, Zenon DEF Start, MemoryOK
    <3>2. /\ coordinator'.started
          /\ \A t \in Targets : coordinator'.targets[t].state = "pending"
      BY <3>1, <2>2, Zenon DEF NewRotationCoordinator, FreshTarget
    <3>3. db'.started /\ db'.installs = db.installs /\ db'.revocations = db.revocations
      BY <1>4, <1>0, Zenon DEF Start, StoreType
    <3>4. \A t \in Targets : db.installs[t] = NoRecord /\ db.revocations[t] = 0
      BY <1>4, Zenon DEF Start, RotationInv, RecordsAreBacked
    <3> QED  BY <3>2, <3>3, <3>4, RotationAssumption, Zenon DEF MemoryOK, PhaseOK
  <2> QED  BY <2>1, <2>2, <1>4, Zenon DEF Start
<1>5. CASE Resume
  <2>1. coordinator'.started /\ db'.started /\ db' = db
    BY <1>5, Zenon DEF Resume
  <2> QED  BY <2>1, <1>5, LoadedPhase, Zenon DEF MemoryOK, RotationInv, RecordsAreBacked
<1>6. ASSUME NEW t \in Targets, NEW stored, NEW e, NEW frames, coordinator.started,
             Recorded(t, stored, e, frames), \A u \in Targets \ {t} : SameRecords(u), PhaseOK(t)',
             e.state # "revoked"
      PROVE  MemoryOK'
  <2>1. coordinator'.started /\ coordinator'.targets = [coordinator.targets EXCEPT ![t] = e]
    BY <1>6, <1>0, Zenon DEF Recorded, CoordinatorType
  <2> QED  BY <2>1, <1>6, <1>0, EntryStep, Zenon
<1>7. ASSUME NEW t \in Targets, coordinator.started, FailTarget(t)
      PROVE  MemoryOK'
  <2>1. coordinator'.started /\ coordinator'.targets = [coordinator.targets EXCEPT ![t].state = "failed"] /\ db' = db
    BY <1>7, <1>0, Zenon DEF FailTarget, CoordinatorType
  <2> QED  BY <2>1, <1>7, <1>0, FailedEntry, Zenon DEF SameRecords
<1>8. ASSUME NEW stored, CrashAfter(stored)
      PROVE  MemoryOK'
  BY <1>8, NewIsOK, Zenon DEF CrashAfter
<1>9. ASSUME NEW t \in Targets, NEW stored, NEW e, NEW frames, Recorded(t, stored, e, frames)
      PROVE  coordinator'.targets[t] = e /\ coordinator'.started = coordinator.started /\ db' = stored
  BY <1>9, <1>0, Zenon DEF Recorded, CoordinatorType
<1>10. ASSUME NEW t \in Targets, Challenge(t)
       PROVE  MemoryOK'
  <2> DEFINE c == [nonce |-> nonce + 1, proc |-> connector[t].proc]
             stored == [db EXCEPT !.challenges[t] = @ \cup {c}]
             e == [coordinator.targets[t] EXCEPT !.state = "challenged", !.challenge = c]
  <2>1. coordinator.started /\ coordinator.targets[t].state \in {"pending", "challenged"}
    BY <1>10, Zenon DEF Challenge
  <2>2. Recorded(t, stored, e, {RotationChallenge(t, c)}) \/ CrashAfter(stored)
    BY <1>10, Zenon DEF Challenge
  <2>3. e.state = "challenged" /\ stored.installs = db.installs /\ stored.readiness = db.readiness
        /\ stored.revocations = db.revocations
    BY <1>0, Zenon DEF TargetType, StoreType
  <2>4. db.installs[t] = NoRecord /\ db.revocations[t] = 0
    BY <2>1, <1>0, Zenon DEF MemoryOK, PhaseOK
  <2> HIDE DEF stored, e
  <2>5. CASE Recorded(t, stored, e, {RotationChallenge(t, c)})
    <3>1. coordinator'.targets[t] = e /\ db' = stored
      BY <2>5, <1>9, Zenon
    <3>2. PhaseOK(t)' /\ \A u \in Targets : SameRecords(u)
      BY <3>1, <2>3, <2>4, Zenon DEF PhaseOK, SameRecords
    <3> QED  BY <3>2, <2>1, <2>3, <2>5, <1>6, Zenon
  <2> QED  BY <2>2, <2>5, <1>8, Zenon
<1>11. ASSUME NEW t \in Targets, AcceptProof(t)
       PROVE  MemoryOK'
  <2>1. PICK proof \in Received("proof", t) :
            LET r == [nonce |-> proof.nonce, proc |-> proof.proc]
                stored == [db EXCEPT !.installs[t] = r]
            IN  \/ Recorded(t, stored, [coordinator.targets[t] EXCEPT !.state = "installed", !.install = r],
                            {RotationInstall(t, proof)})
                \/ FailTarget(t)
                \/ CrashAfter(stored)
    BY <1>11, Zenon DEF AcceptProof
  <2> DEFINE r == [nonce |-> proof.nonce, proc |-> proof.proc]
             stored == [db EXCEPT !.installs[t] = r]
             e == [coordinator.targets[t] EXCEPT !.state = "installed", !.install = r]
  <2>2. Recorded(t, stored, e, {RotationInstall(t, proof)}) \/ FailTarget(t) \/ CrashAfter(stored)
    BY <2>1, Zenon
  <2> HIDE DEF r
  <2>3. coordinator.targets[t].state = "challenged" /\ coordinator.started
    BY <1>11, Running, Zenon DEF AcceptProof
  <2>4. /\ e.state = "installed" /\ e.install = r /\ stored.installs = [db.installs EXCEPT ![t] = r]
        /\ stored.installs[t] = r /\ stored.readiness = db.readiness /\ stored.revocations = db.revocations
    BY <1>0, Zenon DEF TargetType, StoreType
  <2>5. db.revocations[t] = 0
    BY <2>3, <1>0, Zenon DEF MemoryOK, PhaseOK
  <2>6. \A u \in Targets \ {t} : stored.installs[u] = db.installs[u]
    BY <2>4, <1>0, Zenon DEF StoreType
  <2> HIDE DEF stored, e
  <2>7. CASE Recorded(t, stored, e, {RotationInstall(t, proof)})
    <3>1. coordinator'.targets[t] = e /\ db' = stored
      BY <2>7, <1>9, Zenon
    <3>2. PhaseOK(t)' /\ \A u \in Targets \ {t} : SameRecords(u)
      BY <3>1, <2>4, <2>5, <2>6, Zenon DEF PhaseOK, SameRecords
    <3> QED  BY <3>2, <2>3, <2>4, <2>7, <1>6, Zenon
  <2> QED  BY <2>2, <2>3, <2>7, <1>7, <1>8, Zenon
<1>12. ASSUME NEW t \in Targets, MarkReady(t)
       PROVE  MemoryOK'
  <2>1. PICK m \in Received("ready", t) :
            LET r == [proc |-> m.proc, prev |-> m.prev]
                stored == [db EXCEPT !.readiness[t] = r]
            IN  \/ Recorded(t, stored, [coordinator.targets[t] EXCEPT !.state = "ready", !.ready = r], {})
                \/ FailTarget(t)
                \/ CrashAfter(stored)
    BY <1>12, Zenon DEF MarkReady
  <2> DEFINE r == [proc |-> m.proc, prev |-> m.prev]
             stored == [db EXCEPT !.readiness[t] = r]
             e == [coordinator.targets[t] EXCEPT !.state = "ready", !.ready = r]
  <2>2. Recorded(t, stored, e, {}) \/ FailTarget(t) \/ CrashAfter(stored)
    BY <2>1, Zenon
  <2>3. r # NoReady
    <3>1. m \in FrameType
      BY Typed, <1>0, Zenon DEF Received
    <3> QED  BY <3>1, RotationAssumption DEF FrameType, NoReady
  <2> HIDE DEF r
  <2>4. coordinator.targets[t].state = "installed" /\ coordinator.started
    BY <1>12, Running, Zenon DEF MarkReady
  <2>5. /\ e.state = "ready" /\ e.ready = r /\ stored.readiness = [db.readiness EXCEPT ![t] = r]
        /\ stored.readiness[t] = r /\ stored.installs = db.installs /\ stored.revocations = db.revocations
    BY <1>0, Zenon DEF TargetType, StoreType
  <2>6. db.revocations[t] = 0
    BY <2>4, <1>0, Zenon DEF MemoryOK, PhaseOK
  <2>7. \A u \in Targets \ {t} : stored.readiness[u] = db.readiness[u]
    BY <2>5, <1>0, Zenon DEF StoreType
  <2> HIDE DEF stored, e
  <2>8. CASE Recorded(t, stored, e, {})
    <3>1. coordinator'.targets[t] = e /\ db' = stored
      BY <2>8, <1>9, Zenon
    <3>2. PhaseOK(t)' /\ \A u \in Targets \ {t} : SameRecords(u)
      BY <3>1, <2>3, <2>5, <2>6, <2>7, Zenon DEF PhaseOK, SameRecords
    <3> QED  BY <3>2, <2>4, <2>5, <2>8, <1>6, Zenon
  <2> QED  BY <2>2, <2>4, <2>8, <1>7, <1>8, Zenon
<1>13. ASSUME NEW t \in Targets, Revoke(t)
       PROVE  MemoryOK'
  <2> DEFINE p == coordinator.targets[t].ready.proc
             stored == [db EXCEPT !.revocations[t] = p]
             e == [coordinator.targets[t] EXCEPT !.state = "revoking", !.revoke = p]
  <2>1. coordinator.targets[t].state = "ready" /\ coordinator.started
    BY <1>13, Running, Zenon DEF Revoke
  <2>2. p # 0
    BY <2>1 DEF RotationInv, WriteBeforeTell, RecordsAreBacked
  <2>3. Recorded(t, stored, e, {RotationRevoke(t, p)}) \/ FailTarget(t) \/ CrashAfter(stored)
    BY <1>13, Zenon DEF Revoke
  <2> HIDE DEF p
  <2>4. /\ e.state = "revoking" /\ e.revoke = p /\ stored.revocations = [db.revocations EXCEPT ![t] = p]
        /\ stored.revocations[t] = p /\ stored.installs = db.installs /\ stored.readiness = db.readiness
    BY <1>0, Zenon DEF TargetType, StoreType
  <2>5. \A u \in Targets \ {t} : stored.revocations[u] = db.revocations[u]
    BY <2>4, <1>0, Zenon DEF StoreType
  <2> HIDE DEF stored, e
  <2>6. CASE Recorded(t, stored, e, {RotationRevoke(t, p)})
    <3>1. coordinator'.targets[t] = e /\ db' = stored
      BY <2>6, <1>9, Zenon
    <3>2. PhaseOK(t)' /\ \A u \in Targets \ {t} : SameRecords(u)
      BY <3>1, <2>2, <2>4, <2>5, Zenon DEF PhaseOK, SameRecords
    <3> QED  BY <3>2, <2>1, <2>4, <2>6, <1>6, Zenon
  <2> QED  BY <2>1, <2>3, <2>6, <1>7, <1>8, Zenon
<1>14. ASSUME NEW s
       PROVE  /\ RecordResult(s).installs = db.installs /\ RecordResult(s).readiness = db.readiness
              /\ RecordResult(s).revocations = db.revocations
              /\ RecordResult(s).succeeded <=> (db.succeeded \/ summaryLocked(s) = "succeeded")
  BY <1>0, Zenon DEF RecordResult, StoreType
<1>15. ASSUME NEW t \in Targets, Fail(t) \/ HandleNegativeAck(t)
       PROVE  MemoryOK'
  <2> DEFINE stored == RecordResult([states EXCEPT ![t] = "failed"])
             e == [coordinator.targets[t] EXCEPT !.state = "failed"]
  <2>1. coordinator.started
    BY <1>15, <1>0, Running, Zenon DEF Fail, HandleNegativeAck, rotationNegativeAckMatches
  <2>2. Recorded(t, stored, e, {}) \/ CrashAfter(stored)
    BY <1>15, Zenon DEF Fail, HandleNegativeAck, TargetFails
  <2>3. e.state = "failed"
    BY <1>0, Zenon DEF TargetType
  <2>4. CASE Recorded(t, stored, e, {})
    <3>1. coordinator'.targets[t] = e /\ db' = stored
      BY <2>4, <1>9
    <3>2. PhaseOK(t)' /\ \A u \in Targets \ {t} : SameRecords(u)
      BY <3>1, <2>3, <1>14, Zenon DEF PhaseOK, SameRecords
    <3> HIDE DEF stored, e
    <3> QED  BY <3>2, <2>1, <2>3, <2>4, <1>6, Zenon
  <2> QED  BY <2>2, <2>4, <1>8, Zenon
<1>16. ASSUME NEW t \in Targets, HandleRevokedAck(t)
       PROVE  MemoryOK'
  <2> DEFINE after == [states EXCEPT ![t] = "revoked"]
             fin == coordinator.finished \/ summaryLocked(after) = "succeeded"
             e == [coordinator.targets[t] EXCEPT !.state = "revoked"]
  <2>1. coordinator.targets[t].state = "revoking" /\ coordinator.started
    BY <1>16, Running, Zenon DEF HandleRevokedAck
  <2>2. connector'[t].revoked /\ db.revocations[t] # 0
    BY <1>16, <2>1, <1>0, Zenon DEF HandleRevokedAck, Received, RotationInv, RecordsAreBacked, MemoryOK, PhaseOK
  <2>3. CASE db' = RecordResult(after)
             /\ coordinator' = [coordinator EXCEPT !.targets[t].state = "revoked", !.finished = fin]
    <3>1. coordinator'.started /\ coordinator'.targets = [coordinator.targets EXCEPT ![t] = e]
      BY <2>1, <2>3, <1>0, Zenon DEF CoordinatorType
    <3>2. e.state = "revoked" /\ coordinator'.targets[t] = e
      BY <3>1, <1>0, Zenon DEF CoordinatorType, TargetType
    <3>3. PhaseOK(t)' /\ \A u \in Targets : SameRecords(u)
      BY <3>2, <2>2, <2>3, <1>14, Zenon DEF PhaseOK, SameRecords
    <3>4. (\A u \in Targets \ {t} : states[u] = "revoked") => db'.succeeded
      <4>1. (\A u \in Targets \ {t} : states[u] = "revoked") => \A u \in Targets : after[u] = "revoked"
        BY Zenon DEF states
      <4> QED  BY <4>1, <2>3, <1>14, Succeeds, Zenon
    <3> HIDE DEF e
    <3> QED  BY <3>1, <3>3, <3>4, <2>1, <1>0, EntryStep, Zenon
  <2>4. CASE db' = db /\ coordinator' = [coordinator EXCEPT !.targets[t].state = "failed", !.finished = fin]
    <3>1. coordinator'.started /\ coordinator'.targets = [coordinator.targets EXCEPT ![t].state = "failed"]
      BY <2>1, <2>4, <1>0, Zenon DEF CoordinatorType
    <3> QED  BY <3>1, <2>1, <2>4, <1>0, FailedEntry, Zenon DEF SameRecords
  <2>5. CASE CrashAfter(RecordResult(after))
    BY <2>5, <1>8, Zenon
  <2> HIDE DEF fin, after
  <2> QED  BY <2>3, <2>4, <2>5, <1>16, Zenon DEF HandleRevokedAck, fin, after
<1>17. ASSUME NEW t \in Targets, \/ ReissueRevoke(t) \/ HandleChallenge(t) \/ HandleInstall(t) \/ HandleRevoke(t)
                                 \/ NextProcess(t) \/ SendReady(t)
       PROVE  MemoryOK'
  BY <1>17, <1>1, Zenon DEF ReissueRevoke, HandleChallenge, HandleInstall, HandleRevoke, NextProcess, SendReady
<1> QED  BY <1>2, <1>3, <1>4, <1>5, <1>10, <1>11, <1>12, <1>13, <1>15, <1>16, <1>17, Zenon DEF RotationNext

-----------------------------------------------------------------------------
LEMMA RotationNextInv ==
    ASSUME RotationInv, [RotationNext]_rotationVars
    PROVE  RotationInv'
<1>1. RotationTypeOK' /\ Moves /\ MemoryOK'
  BY RotationTypeInductive, EveryStepMoves, MemoryInductive, Zenon
<1>2. RecordsAreBacked' /\ NoOrphanedKey' /\ \A m \in wire' : Told(m)'
  BY <1>1, RecordsInductive, Zenon
<1>3. \A m \in wire' : /\ m.type = "install" => db'.installs[m.to] # NoRecord
                       /\ m.type = "revoke" => db'.revocations[m.to] = m.proc
  <2> SUFFICES ASSUME NEW m \in wire'
               PROVE  /\ m.type = "install" => db'.installs[m.to] # NoRecord
                      /\ m.type = "revoke" => db'.revocations[m.to] = m.proc
    BY Zenon
  <2>1. m.proc # 0
    BY <1>1, TypedNext, RotationAssumption DEF FrameType
  <2>2. [nonce |-> m.nonce, proc |-> m.proc] # NoRecord
    BY <2>1, Zenon DEF NoRecord
  <2> QED  BY <2>2, <1>2, Zenon DEF Told
<1>4. WriteBeforeTell' /\ PhasesAreRecorded'
  BY <1>1, <1>3, Zenon DEF WriteBeforeTell, PhasesAreRecorded, MemoryOK, PhaseOK
<1>5. SuccessIsReal'
  <2> SUFFICES ASSUME (summaryLocked(states) = "succeeded")'
               PROVE  db'.succeeded /\ \A t \in Targets : connector'[t].revoked
    BY Zenon DEF SuccessIsReal
  <2>1. \A t \in Targets : coordinator'.targets[t].state = "revoked"
    BY RotationAssumption, Zenon DEF summaryLocked, states
  <2>2. coordinator'.started
    BY <2>1, <1>1, RotationAssumption DEF MemoryOK, NewRotationCoordinator, FreshTarget
  <2> QED  BY <2>1, <2>2, <1>1, Zenon DEF MemoryOK, PhaseOK
<1> QED  BY <1>1, <1>2, <1>4, <1>5, Zenon DEF RotationInv

LEMMA RotationInitInv ==
    ASSUME RotationInit
    PROVE  RotationInv
<1>1. NoRecord \in Records /\ NoReady \in Readies /\ 1 \in 1..MaxProcess /\ 0 \in 0..MaxNonce
  BY RotationAssumption DEF NoRecord, NoReady, Records, Readies
<1>2. coordinator \in CoordinatorType
  BY NewTyped, Zenon DEF RotationInit
<1>3. db \in StoreType
  BY <1>1, RotationAssumption DEF RotationInit, StoreType
<1>4. connector \in [Targets -> ConnectorType] /\ wire \subseteq FrameType /\ expired \subseteq 1..MaxNonce
      /\ nonce \in 0..MaxNonce
  BY <1>1, Zenon DEF RotationInit, ConnectorType
<1>5. RotationTypeOK
  BY <1>2, <1>3, <1>4, Typed, Zenon
<1>6. RecordsAreBacked /\ NoOrphanedKey
  BY RotationAssumption, Zenon DEF RotationInit, RecordsAreBacked, NoOrphanedKey
<1>7. PhasesAreRecorded /\ WriteBeforeTell /\ SuccessIsReal
  BY RotationAssumption, Zenon DEF RotationInit, PhasesAreRecorded, WriteBeforeTell, SuccessIsReal,
     NewRotationCoordinator, FreshTarget, summaryLocked, states
<1> QED  BY <1>5, <1>6, <1>7, Zenon DEF RotationInv

(* RotationCoordinator, its store, the connectors and the frames agree through *)
(* every crash, refused write and stale frame.                                 *)
THEOREM RotationInvariant == RotationSpec => []RotationInv
<1>1. RotationInit => RotationInv
  BY RotationInitInv, Zenon
<1>2. RotationInv /\ [RotationNext]_rotationVars => RotationInv'
  BY RotationNextInv, Zenon
<1> QED  BY <1>1, <1>2, PTL DEF RotationSpec

(* rotation.go:530-533, for any plan: no connector gives up its old credential *)
(* until every connector of the plan has had a replacement session ready.      *)
THEOREM NoEarlyRevocation == RotationSpec => []RevokedAfterAllReady
<1>1. RotationInv => RevokedAfterAllReady
  BY Zenon DEF RotationInv, RecordsAreBacked, RevokedAfterAllReady
<1> QED  BY <1>1, RotationInvariant, PTL

(* rotation.go:1176-1179, for any plan: what is sent and the phase in memory   *)
(* are recorded first, whichever writes fail and wherever the process dies.    *)
THEOREM RecordedBeforeTold == RotationSpec => []WriteBeforeTell
<1>1. RotationInv => WriteBeforeTell
  BY Zenon DEF RotationInv
<1> QED  BY <1>1, RotationInvariant, PTL

(* rotation.go:544-546, for any plan: the key that a connector has installed   *)
(* is the one on record, and success is reported when every old credential is  *)
(* revoked at its connector.                                                   *)
THEOREM KeysAndSuccessAreReal == RotationSpec => [](NoOrphanedKey /\ SuccessIsReal)
<1>1. RotationInv => NoOrphanedKey /\ SuccessIsReal
  BY Zenon DEF RotationInv
<1> QED  BY <1>1, RotationInvariant, PTL
=============================================================================
