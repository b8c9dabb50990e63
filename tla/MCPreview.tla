------------------------------ MODULE MCPreview ------------------------------
(* Preview carriers and the certificate broker, under their fairness, and the  *)
(* index of the preview gateway. They share no state here: `part` is the one   *)
(* whose steps a behaviour takes.                                              *)
EXTENDS PreviewCarriers, PreviewAliases, CertificateBroker

VARIABLE part

(* One preview that is offered again in a later generation.                    *)
Machine == [session |-> 1, process |-> 1]
Offer(g, e) == [route |-> 1, identity |-> Machine, gen |-> g, rev |-> 1, expires |-> e]
OffersMC == {Offer(1, 1), Offer(2, 2)}
OneCarrier == {1}
TwoCarriers == {1, 2}
CarrierIdentityMC == <<Machine, Machine>>

(* Three routes; the first is attached again, with the same and with another   *)
(* lease and name. An alias covers another's name, and one takes a managed     *)
(* name.                                                                       *)
Entry(r, g, l, h) == [route |-> r, gen |-> g, lease |-> l, host |-> h]
EntriesMC == {Entry(1, 1, 1, "m1"), Entry(1, 2, 1, "m1"), Entry(1, 3, 2, "m4"),
              Entry(2, 1, 1, "m2"), Entry(2, 2, 1, "m2"), Entry(3, 1, 1, "m3")}
NamesMC == {"m1", "m2", "m3", "m4", "*.c", "x.c", "y"}
WildcardMC == [h \in NamesMC |-> IF h = "x.c" THEN "*.c" ELSE Vacant]
Alias(d, r, h, l, v) == [domain |-> d, route |-> r, host |-> h, lease |-> l, version |-> v]
AliasesMC == {Alias(1, 1, "*.c", 1, 1), Alias(1, 1, "*.c", 2, 2), Alias(2, 2, "x.c", 1, 1),
              Alias(2, 2, "y", 1, 1), Alias(2, 2, "y", 1, 2), Alias(3, 1, "x.c", 1, 1),
              Alias(3, 1, "m2", 1, 1)}
AliasSetsMC == {s \in SUBSET AliasesMC :
                    /\ Cardinality(s) <= 2
                    /\ \A a, b \in s : a # b => a.domain # b.domain /\ a.host # b.host}

MCInit ==
    /\ part \in {"carriers", "aliases", "broker"}
    /\ PreviewInit /\ AliasInit /\ BrokerInit

CarriersPart == part = "carriers" /\ PreviewNext /\ UNCHANGED <<part, aliasVars, brokerVars>>
AliasesPart == part = "aliases" /\ AliasNext /\ UNCHANGED <<part, previewVars, brokerVars>>
BrokerPart == part = "broker" /\ BrokerNext /\ UNCHANGED <<part, previewVars, aliasVars>>

MCNext == CarriersPart \/ AliasesPart \/ BrokerPart

mcVars == <<part, previewVars, aliasVars, brokerVars>>

(* The worker's loop is enabled from the start; nothing else that is fair is   *)
(* enabled in an initial state.                                                *)
MCSpec ==
    /\ MCInit /\ [][MCNext]_mcVars
    /\ WF_previewVars(part = "carriers" /\ WorkerLoop) /\ AnswersAndHandlers
    /\ BrokerFairness

(* Carriers alone.                                                             *)
CarriersOnly == MCInit /\ part = "carriers" /\ [][CarriersPart]_mcVars
=============================================================================
