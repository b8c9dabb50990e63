-------------------------- MODULE AdmissionJournal --------------------------
(* Admit of internal/admission over the Journal of internal/operation: an      *)
(* operation and the JTI of its credential are bound to one decision, which a  *)
(* repeated request gets again. Each call makes a run before it asks the       *)
(* journal. The journal is saved with the rest of the state, and restored.     *)
EXTENDS Naturals, FiniteSets

CONSTANTS
    Requests,           \* admission requests, by their canonical form
    RequestOf,          \* what each asks: op, jti, connector, routes
    JournalCapacity,    \* maxEntries
    MaxRuns             \* bound: runs made

VARIABLES
    journal,            \* the entries: each request's decision, or no run
    saved,              \* the entries of the last save
    answers,            \* the decisions handed out for each request
    runs,               \* runs made
    spent               \* credentials (by JTI) that have expired

journalVars == <<journal, saved, answers, runs, spent>>

NoRun == 0
Entries(j) == {q \in Requests : j[q] # NoRun}

JournalInit ==
    /\ journal = [q \in Requests |-> NoRun] /\ saved = journal
    /\ answers = [q \in Requests |-> {}]
    /\ runs = 0
    /\ spent = {}

SameOperation(p, q) == RequestOf[p].op = RequestOf[q].op
SameJTI(p, q) == RequestOf[p].jti = RequestOf[q].jti

ConsumableByOperation(j, q) ==
    q \in Entries(j) \/ ((\A e \in Entries(j) : ~SameOperation(e, q)) /\ Cardinality(Entries(j)) < JournalCapacity)

(* Consume: a repeated request, or one whose operation and JTI are both new    *)
(* and for which there is room; anything else is a replay, or finds it full.   *)
Consumable(j, q) ==
    \/ q \in Entries(j)
    \/ /\ \A e \in Entries(j) : ~SameOperation(e, q) /\ ~SameJTI(e, q)
       /\ Cardinality(Entries(j)) < JournalCapacity

Consumed(j, q, run) == IF j[q] = NoRun THEN [j EXCEPT ![q] = run] ELSE j

Admit(q) ==
    /\ RequestOf[q].jti \notin spent /\ runs < MaxRuns
    /\ runs' = runs + 1
    /\ IF Consumable(journal, q)
       THEN /\ journal' = Consumed(journal, q, runs')
            /\ answers' = [answers EXCEPT ![q] = @ \cup {journal'[q]}]
       ELSE UNCHANGED <<journal, answers>>
    /\ UNCHANGED <<saved, spent>>

RemoveExpired ==
    /\ journal' = [q \in Requests |-> IF RequestOf[q].jti \in spent THEN NoRun ELSE journal[q]]
    /\ UNCHANGED <<saved, answers, runs, spent>>

SaveJournal ==
    /\ saved' = journal
    /\ UNCHANGED <<journal, answers, runs, spent>>

(* A restart: what was decided after the last save is forgotten.               *)
RestoreJournal ==
    /\ journal' = saved
    /\ answers' = [q \in Requests |-> IF RequestOf[q].jti \in spent \/ saved[q] # NoRun THEN answers[q] ELSE {}]
    /\ UNCHANGED <<saved, runs, spent>>

CredentialExpires(q) ==
    /\ RequestOf[q].jti \notin spent
    /\ spent' = spent \cup {RequestOf[q].jti}
    /\ UNCHANGED <<journal, saved, answers, runs>>

JournalNext ==
    \/ RemoveExpired \/ SaveJournal \/ RestoreJournal
    \/ \E q \in Requests : Admit(q) \/ CredentialExpires(q)

JournalSpec == JournalInit /\ [][JournalNext]_journalVars

(* The journal and what it has answered: runs are numbered from one.           *)
JournalTypeOK ==
    /\ journal \in [Requests -> Nat] /\ saved \in [Requests -> Nat]
    /\ answers \in [Requests -> SUBSET (Nat \ {NoRun})]
    /\ runs \in Nat

Expired(q) == RequestOf[q].jti \in spent

(* "Journal atomically binds single-use JTIs and operation IDs": among the     *)
(* requests answered, other than those a restart forgot, no two share a JTI,   *)
(* and none that share an operation are unexpired together, though expired     *)
(* entries are removed and come back from an old save.                         *)
AdmissionIsSingleUse ==
    \A p, q \in {r \in Requests : answers[r] # {}} : p # q =>
        ~SameJTI(p, q) /\ (SameOperation(p, q) => Expired(p) \/ Expired(q))

(* A request that is repeated, also across a restart and a removal, is given   *)
(* the run of its first decision.                                              *)
RepeatedRequestKeepsItsRun == \A q \in Requests : \A r, s \in answers[q] : r = s

(* Entries share neither an operation nor a JTI; what was answered is on       *)
(* record until it expires, and so is what was saved; a record is the answer.  *)
Distinct(j) == \A p, q \in Entries(j) : p # q => ~SameOperation(p, q) /\ ~SameJTI(p, q)
AnswersAreRecorded ==
    \A q \in Requests :
        /\ answers[q] # {} => journal[q] # NoRun \/ Expired(q)
        /\ saved[q] # NoRun => journal[q] = saved[q] \/ Expired(q)
        /\ journal[q] # NoRun => answers[q] \subseteq {journal[q]}
        /\ saved[q] # NoRun => answers[q] \subseteq {saved[q]}

(* The inductive invariant.                                                    *)
JournalInv ==
    /\ JournalTypeOK /\ Distinct(journal) /\ Distinct(saved) /\ AnswersAreRecorded
    /\ AdmissionIsSingleUse /\ RepeatedRequestKeepsItsRun
=============================================================================
