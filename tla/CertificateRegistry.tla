------------------------ MODULE CertificateRegistry ------------------------
(* The certificate registry of internal/tlscert and the worker that feeds it:  *)
(* CertificateDistributionWorker pulls a batch of authenticated actions, hands *)
(* them one by one to the DistributionReceiver and acknowledges each. TLS      *)
(* handshakes look certificates up between any two critical sections. The      *)
(* receiver refuses a binding of another node or process epoch, so all the     *)
(* bindings of one registry are of this process. The server may send its       *)
(* actions in any order and again; an action of a batch is chosen when the     *)
(* worker reaches it.                                                          *)
EXTENDS Integers, FiniteSets

CONSTANTS
    Bindings,               \* kind, domain, lease, host, onDemand, dgen, cgen, agen, until
    Certificates, NotAfter, CertNames,
    Names, Parent,          \* names of handshakes, and the wildcard each falls under
    Nothing,
    MaximumCertificateLife, MessageLifetime,
    MaximumBatch,           \* bound: actions of one batch
    MaxCertTime             \* bound: the clock

VARIABLES
    certClock,
    entries,                \* binding key -> state, certificate, lease end, wiped
    activeKey,              \* hostname -> the key that is served
    batch,                  \* when the batch was pulled, actions not applied yet
    half,                   \* a binding that is staged and not marked ready yet
    stopping, certsClosed

certVars == <<certClock, entries, activeKey, batch, half, stopping, certsClosed>>

(* bindingKey leaves the end of a preview lease out.                           *)
Key(b) == [b EXCEPT !.until = 0]
BindingKeys == {Key(b) : b \in Bindings}
CertHosts == {b.host : b \in Bindings} \cup Names \cup {Parent[n] : n \in Names}
TargetKey(b) == <<b.kind, b.domain, b.lease>>

(* A binding is a record, its generations and times are numbers; a wildcard is *)
(* not the name of a handshake.                                                *)
ASSUME CertificateAssumption ==
    /\ \A b \in Bindings :
        /\ b = [kind |-> b.kind, domain |-> b.domain, lease |-> b.lease, host |-> b.host,
                onDemand |-> b.onDemand, dgen |-> b.dgen, cgen |-> b.cgen, agen |-> b.agen,
                until |-> b.until]
        /\ b.onDemand \in BOOLEAN
        /\ {b.dgen, b.cgen, b.agen, b.until} \subseteq Nat
    /\ Nothing \notin BindingKeys /\ Nothing \notin Certificates
    /\ Nothing \notin Bindings \X Certificates
    /\ NotAfter \in [Certificates -> Nat]
    /\ \A n \in Names : Parent[n] \notin Names
    /\ {MaximumCertificateLife, MessageLifetime, MaximumBatch, MaxCertTime} \subseteq Nat

NoEntry == [state |-> "none", cert |-> Nothing, until |-> 0, wiped |-> FALSE]
NoBatch == [at |-> 0, rest |-> 0]

CertInit ==
    /\ certClock = 0
    /\ entries = [k \in BindingKeys |-> NoEntry]
    /\ activeKey = [h \in CertHosts |-> Nothing]
    /\ batch = NoBatch /\ half = Nothing
    /\ stopping = FALSE /\ certsClosed = FALSE

-----------------------------------------------------------------------------
(* stage and activate read the clock before they wait for the lock.            *)
Readings == {certClock} \cup {t \in {certClock - 1} : t >= 0}

LeaseOver(b, until, now) == b.kind = "preview_lease" /\ until <= now
Lapsed(k, e, now) == NotAfter[e.cert] <= now \/ LeaseOver(k, e.until, now)

(* x509 VerifyHostname: the name itself, or the wildcard it falls under.       *)
Covers(c, h) == h \in CertNames[c] \/ (h \in Names /\ Parent[h] \in CertNames[c])

validateBundle(c, h, now) ==
    NotAfter[c] > now /\ NotAfter[c] - now <= MaximumCertificateLife /\ Covers(c, h)

(* Mutants: the end of a lease is ignored, and an entry lapses a tick early.   *)
ExpiringByCertificate(now) ==
    {k \in BindingKeys : entries[k].state = "active" /\ NotAfter[entries[k].cert] <= now}
ExpiringEarly(now) == {k \in BindingKeys : entries[k].state = "active" /\ Lapsed(k, entries[k], now + 1)}

(* expireLocked: every active entry that lapsed is expired and wiped.          *)
Expiring(now) == {k \in BindingKeys : entries[k].state = "active" /\ Lapsed(k, entries[k], now)}
expiredEntries(now) ==
    [k \in BindingKeys |-> IF k \in Expiring(now)
                           THEN [entries[k] EXCEPT !.state = "expired", !.wiped = TRUE]
                           ELSE entries[k]]
expiredActive(now) ==
    [h \in CertHosts |-> IF \E k \in Expiring(now) : k.host = h THEN Nothing ELSE activeKey[h]]

(* The fences of stage and activate: what may replace the certificate c0 that  *)
(* is active under the binding old. Only the renewal of a preview lease may    *)
(* bring the same generation again, with the same certificate.                 *)
(* FencedByDomain compares only the domain's generation: a mutant.             *)
FencedByDomain(b, c, old, c0) == b.dgen < old.dgen
Fenced(b, c, old, c0) ==
    \/ b.dgen < old.dgen
    \/ b.cgen < old.cgen
    \/ b.dgen = old.dgen /\ b.agen < old.agen
    \/ b.dgen = old.dgen /\ b.cgen = old.cgen /\ c # c0
    \/ /\ b.cgen = old.cgen
       /\ b.kind # "preview_lease" \/ TargetKey(b) = TargetKey(old) \/ c # c0

-----------------------------------------------------------------------------
(* A failed apply, a lost acknowledgement and a cancelled context end the      *)
(* batch; the server sends what it still holds again.                          *)
EndBatch == batch' = NoBatch /\ half' = Nothing
Acknowledge ==
    \/ /\ batch' = IF batch.rest = 1 THEN NoBatch ELSE [batch EXCEPT !.rest = @ - 1]
       /\ half' = Nothing
    \/ EndBatch

(* Pull and decodeCertificateDistribution.                                     *)
Pull ==
    /\ batch = NoBatch /\ ~stopping
    /\ \E n \in 1..MaximumBatch : batch' = [at |-> certClock, rest |-> n]
    /\ UNCHANGED <<certClock, entries, activeKey, half, stopping, certsClosed>>

Applies(b) ==
    /\ batch.rest > 0 /\ half = Nothing /\ ~stopping
    /\ ~LeaseOver(b, b.until, batch.at)

(* DistributionReceiver.authenticate: the message has not expired.             *)
authenticate == certClock < batch.at + MessageLifetime

-----------------------------------------------------------------------------
HostTaken(b, known) ==
    \E k \in BindingKeys : /\ k # Key(b) /\ k.host = b.host /\ k.domain # b.domain
                           /\ known[k].state = "active"

Knows(b, c, known) ==
    LET e == known[Key(b)]
    IN  e.until = b.until /\ e.cert = c /\ e.state \in {"staged", "ready", "active"}

(* currentDomainActiveLocked, and the fences against what it returns.          *)
MayStage(b, c, known, serving) ==
    LET current == serving[b.host]
    IN  /\ known[Key(b)].state = "none"
        /\ (current # Nothing /\ current.domain = b.domain)
              => ~Fenced(b, c, current, known[current].cert)

(* An older candidate of the same target goes away.                            *)
Outdated(k, b, known) ==
    /\ k.domain = b.domain /\ k.host = b.host /\ k.cgen < b.cgen
    /\ known[k].state \in {"staged", "ready", "expired"}

Staged(b, c, known) ==
    [k \in BindingKeys |->
        CASE k = Key(b) -> [state |-> "staged", cert |-> c, until |-> b.until, wiped |-> FALSE]
          [] k # Key(b) /\ Outdated(k, b, known) -> NoEntry
          [] OTHER -> known[k]]

(* StageAndReady, its first critical section. A refusal keeps what             *)
(* expireLocked did.                                                           *)
StageMessage(b, c) ==
    /\ Applies(b)
    /\ \E now \in Readings :
        IF ~authenticate \/ LeaseOver(b, b.until, now) \/ ~validateBundle(c, b.host, now) \/ certsClosed
        THEN EndBatch /\ UNCHANGED <<entries, activeKey>>
        ELSE LET known == expiredEntries(now)
                 serving == expiredActive(now)
             IN  /\ activeKey' = serving
                 /\ IF HostTaken(b, known) THEN entries' = known /\ EndBatch
                    ELSE IF Knows(b, c, known)
                    THEN entries' = known /\ half' = <<b, c>> /\ UNCHANGED batch
                    ELSE IF MayStage(b, c, known, serving)
                    THEN entries' = Staged(b, c, known) /\ half' = <<b, c>> /\ UNCHANGED batch
                    ELSE entries' = known /\ EndBatch
    /\ UNCHANGED <<certClock, stopping, certsClosed>>

(* What markReady and activate do with a binding whose time is over.           *)
ExpireEntry(k) ==
    /\ entries' = [entries EXCEPT ![k].state = "expired", ![k].wiped = TRUE]
    /\ activeKey' = IF activeKey[k.host] = k THEN [activeKey EXCEPT ![k.host] = Nothing] ELSE activeKey

HoldsCandidate(b, c) ==
    entries[Key(b)].state # "none" /\ entries[Key(b)].until = b.until /\ entries[Key(b)].cert = c

(* StageAndReady, its second critical section.                                 *)
ReadyMessage ==
    /\ half # Nothing /\ ~stopping
    /\ LET b == half[1]
           k == Key(b)
       IN  CASE certsClosed \/ ~HoldsCandidate(b, half[2]) -> EndBatch /\ UNCHANGED <<entries, activeKey>>
             [] ~certsClosed /\ HoldsCandidate(b, half[2]) /\ Lapsed(k, entries[k], certClock) ->
                    ExpireEntry(k) /\ EndBatch
             [] OTHER ->
                    /\ UNCHANGED activeKey
                    /\ \/ /\ entries[k].state \in {"ready", "active"}
                          /\ Acknowledge /\ UNCHANGED entries
                       \/ /\ entries[k].state = "staged"
                          /\ Acknowledge /\ entries' = [entries EXCEPT ![k].state = "ready"]
                       \/ /\ entries[k].state \notin {"staged", "ready", "active"}
                          /\ EndBatch /\ UNCHANGED entries
    /\ UNCHANGED <<certClock, stopping, certsClosed>>

(* The entry that was served is retired, and forgotten when only the lease of  *)
(* a preview was renewed.                                                      *)
ReplacedEntry(k, previous) ==
    IF previous.cgen = k.cgen /\ previous.kind = "preview_lease" /\ entries[previous].cert = entries[k].cert
    THEN NoEntry ELSE [entries[previous] EXCEPT !.state = "retired"]

ActivateMessage(b, c) ==
    LET k == Key(b)
        previous == activeKey[b.host]
    IN  /\ Applies(b)
        /\ \E now \in Readings :
            CASE ~authenticate \/ certsClosed \/ ~HoldsCandidate(b, c) -> EndBatch /\ UNCHANGED <<entries, activeKey>>
              [] authenticate /\ ~certsClosed /\ HoldsCandidate(b, c) /\ Lapsed(k, entries[k], now) ->
                    ExpireEntry(k) /\ EndBatch
              [] OTHER ->
                    \/ /\ entries[k].state = "active"
                       /\ Acknowledge /\ UNCHANGED <<entries, activeKey>>
                    \/ /\ \/ entries[k].state \notin {"ready", "active"}
                          \/ /\ entries[k].state = "ready" /\ previous # Nothing
                             /\ Fenced(b, c, previous, entries[previous].cert)
                       /\ EndBatch /\ UNCHANGED <<entries, activeKey>>
                    \/ /\ entries[k].state = "ready"
                       /\ previous # Nothing => ~Fenced(b, c, previous, entries[previous].cert)
                       /\ entries' = [j \in BindingKeys |->
                                        IF j = k THEN [entries[k] EXCEPT !.state = "active"]
                                        ELSE IF j = previous THEN ReplacedEntry(k, previous)
                                        ELSE entries[j]]
                       /\ activeKey' = [activeKey EXCEPT ![b.host] = k]
                       /\ Acknowledge
        /\ UNCHANGED <<certClock, stopping, certsClosed>>

(* Retire and Revoke do not know the binding: nothing is left to do.           *)
Unknown(b) == entries[Key(b)].state = "none" \/ entries[Key(b)].until # b.until

RetireMessage(b, c) ==
    LET k == Key(b)
    IN  /\ Applies(b)
        /\ CASE ~authenticate \/ (~Unknown(b) /\ entries[k].cert # c) -> EndBatch /\ UNCHANGED entries
             [] authenticate /\ Unknown(b) -> Acknowledge /\ UNCHANGED entries
             [] OTHER ->
                    \/ entries[k].state = "expired" /\ Acknowledge /\ UNCHANGED entries
                    \/ entries[k].state = "active" /\ activeKey[b.host] = k /\ EndBatch /\ UNCHANGED entries
                    \/ /\ entries[k].state # "expired" /\ ~(entries[k].state = "active" /\ activeKey[b.host] = k)
                       /\ Acknowledge /\ entries' = [entries EXCEPT ![k] = NoEntry]
        /\ UNCHANGED <<activeKey, certClock, stopping, certsClosed>>

RevokeMessage(b, c) ==
    LET k == Key(b)
    IN  /\ Applies(b)
        /\ CASE ~authenticate \/ (~Unknown(b) /\ entries[k].cert # c) ->
                    EndBatch /\ UNCHANGED <<entries, activeKey>>
             [] authenticate /\ Unknown(b) -> Acknowledge /\ UNCHANGED <<entries, activeKey>>
             [] OTHER -> /\ Acknowledge
                         /\ entries' = [entries EXCEPT ![k] = NoEntry]
                         /\ activeKey' = IF activeKey[b.host] = k THEN [activeKey EXCEPT ![b.host] = Nothing]
                                      ELSE activeKey
        /\ UNCHANGED <<certClock, stopping, certsClosed>>

-----------------------------------------------------------------------------
(* Shutdown cancels the worker, waits for its batch and closes the registry;   *)
(* with the context cancelled, the next operation of the batch fails.          *)
Cancel ==
    /\ ~stopping /\ stopping' = TRUE
    /\ UNCHANGED <<certClock, entries, activeKey, batch, half, certsClosed>>

Abandon ==
    /\ stopping /\ batch # NoBatch /\ EndBatch
    /\ UNCHANGED <<certClock, entries, activeKey, stopping, certsClosed>>

Close ==
    /\ stopping /\ batch = NoBatch /\ ~certsClosed
    /\ certsClosed' = TRUE
    /\ entries' = [k \in BindingKeys |-> NoEntry]
    /\ activeKey' = [h \in CertHosts |-> Nothing]
    /\ UNCHANGED <<certClock, batch, half, stopping>>

(* GetCertificate, RequiresExactCertificate and Snapshot call expireLocked.    *)
Lookup ==
    /\ ~certsClosed
    /\ entries' = expiredEntries(certClock) /\ activeKey' = expiredActive(certClock)
    /\ UNCHANGED <<certClock, batch, half, stopping, certsClosed>>

CertTick ==
    /\ certClock < MaxCertTime /\ certClock' = certClock + 1
    /\ UNCHANGED <<entries, activeKey, batch, half, stopping, certsClosed>>

CertNext ==
    \/ Pull \/ ReadyMessage \/ Cancel \/ Abandon \/ Close \/ Lookup \/ CertTick
    \/ \E b \in Bindings, c \in Certificates :
          StageMessage(b, c) \/ ActivateMessage(b, c) \/ RetireMessage(b, c) \/ RevokeMessage(b, c)

CertSpec == CertInit /\ [][CertNext]_certVars

-----------------------------------------------------------------------------
CertTypeOK ==
    /\ certClock \in Nat
    /\ entries \in [BindingKeys -> [state : {"none", "staged", "ready", "active", "retired", "expired"},
                                    cert : Certificates \cup {Nothing}, until : Nat, wiped : BOOLEAN]]
    /\ activeKey \in [CertHosts -> BindingKeys \cup {Nothing}]
    /\ batch \in [at : Nat, rest : Nat]
    /\ half \in (Bindings \X Certificates) \cup {Nothing}
    /\ stopping \in BOOLEAN /\ certsClosed \in BOOLEAN

(* An entry is active exactly when the hostname index names it: the index,     *)
(* which expireLocked, markReady, activate and revoke each clear on their own, *)
(* never points at a retired, expired or forgotten entry, and no hostname has  *)
(* two active certificates.                                                    *)
ActiveIsIndexed ==
    /\ \A k \in BindingKeys : entries[k].state = "active" => activeKey[k.host] = k
    /\ \A h \in CertHosts : activeKey[h] # Nothing =>
          activeKey[h] \in BindingKeys /\ activeKey[h].host = h /\ entries[activeKey[h]].state = "active"

(* onDemandWildcardActiveLocked, and the choice GetCertificate makes after     *)
(* expireLocked: the exact name first, the wildcard only without the policy.   *)
OnDemandOver(n, serving) == serving[Parent[n]] # Nothing /\ serving[Parent[n]].onDemand
GetCertificate(n) ==
    LET serving == expiredActive(certClock)
    IN  IF serving[n] # Nothing THEN serving[n]
        ELSE IF OnDemandOver(n, serving) THEN Nothing ELSE serving[Parent[n]]

(* Whatever a handshake is given has its key material, has not expired with    *)
(* its certificate or its preview lease, covers the name asked for, and is not *)
(* the wildcard of an on-demand policy.                                        *)
ServedIsValid ==
    \A n \in Names :
        LET k == GetCertificate(n)
            e == entries[k]
        IN  k # Nothing => /\ e.state = "active" /\ ~e.wiped /\ ~Lapsed(k, e, certClock)
                           /\ Covers(e.cert, n) /\ ~(k.onDemand /\ k.host # n)

(* What may still be served holds its key material and covers its hostname.    *)
CandidateIsUsable ==
    \A k \in BindingKeys : entries[k].state \in {"staged", "ready", "active"} =>
        entries[k].cert \in Certificates /\ ~entries[k].wiped /\ Covers(entries[k].cert, k.host)

(* A binding that is staged and not ready yet is of the batch under way.       *)
HalfIsOfTheBatch == half # Nothing => batch.rest > 0

(* The inductive invariant.                                                    *)
CertInv == CertTypeOK /\ HalfIsOfTheBatch /\ ActiveIsIndexed /\ CandidateIsUsable

Serving(h) == activeKey[h] # Nothing /\ entries[activeKey[h]].state = "active"

(* The ready-new-before-old rule of Retire: a hostname that is served stays    *)
(* served until its certificate or lease lapses, its binding is revoked, or    *)
(* the registry is closed.                                                     *)
HostKeepsACertificate ==
    [][\A h \in CertHosts : Serving(h) /\ ~Serving(h)' =>
          \/ Lapsed(activeKey[h], entries[activeKey[h]], certClock)
          \/ certsClosed'
          \/ \E b \in Bindings, c \in Certificates : RevokeMessage(b, c)]_certVars

(* A delayed or repeated action never brings back an older certificate: while  *)
(* a hostname is served, its domain and certificate generations do not go      *)
(* down, whichever order candidates were staged and activated in.              *)
ActiveNeverRegresses ==
    [][\A h \in CertHosts : activeKey[h] # Nothing /\ activeKey'[h] # Nothing =>
          activeKey'[h].dgen >= activeKey[h].dgen /\ activeKey'[h].cgen >= activeKey[h].cgen]_certVars
=============================================================================
