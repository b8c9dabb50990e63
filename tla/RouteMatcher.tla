---------------------------- MODULE RouteMatcher ----------------------------
(* The matcher of internal/route/matcher.go: normalizeRules decides whether a  *)
(* table may be staged, and chooseRule goes through its rules to find the one  *)
(* that a request is served by. Hosts are sequences of labels, path prefixes   *)
(* sequences of segments: of two prefixes of one path the longer string is the *)
(* longer sequence. The rules are visited in any order.                        *)
EXTENDS Integers, Sequences, FiniteSets

CONSTANTS
    Rules,              \* rules in normalized form: id, type, host, path, priority, enabled
    RequestHosts, RequestPaths,
    NoRule,
    MaximumRules        \* bound: rules of a table

(* normalizeRule: three types, and a catch-all rule has no host. Labels and    *)
(* segments are told apart only by equality, and numbered.                     *)
ASSUME MatcherAssumption ==
    /\ Rules \subseteq [id : Nat, type : {"exact", "wildcard", "catch_all"}, host : Seq(Nat),
                       path : Seq(Nat), priority : Int, enabled : BOOLEAN]
    /\ \A r \in Rules : r.type = "catch_all" => r.host = <<>>
    /\ NoRule \notin Rules
    /\ RequestHosts \subseteq Seq(Nat) /\ RequestPaths \subseteq Seq(Nat)

VARIABLES
    staged,             \* the table, or no table
    visiting            \* the request, the rules not visited, the best so far, the verdict

matcherVars == <<staged, visiting>>

NoRequest == [host |-> <<>>, path |-> <<>>, remaining |-> {}, best |-> NoRule, verdict |-> "none"]

MatcherInit == staged = {} /\ visiting = NoRequest

-----------------------------------------------------------------------------
exactFallsUnderWildcard(host, suffix) == Len(host) = Len(suffix) + 1 /\ Tail(host) = suffix

hostMatch(rule, host) ==
    CASE rule.type = "exact" -> host = rule.host
      [] rule.type = "wildcard" -> exactFallsUnderWildcard(host, rule.host)
      [] rule.type = "catch_all" -> TRUE

hostClass(rule) == CASE rule.type = "exact" -> 3 [] rule.type = "wildcard" -> 2 [] rule.type = "catch_all" -> 1
suffixLabels(rule) == IF rule.type = "wildcard" THEN Len(rule.host) ELSE 0

pathMatches(prefix, path) == Len(prefix) <= Len(path) /\ SubSeq(path, 1, Len(prefix)) = prefix

MatchesRequest(rule, host, path) == rule.enabled /\ hostMatch(rule, host) /\ pathMatches(rule.path, path)

(* compareCandidates: the first difference decides, and the lower priority     *)
(* number wins.                                                                *)
Rank(rule) == <<hostClass(rule), suffixLabels(rule), Len(rule.path), -rule.priority>>
compareHostCandidates(left, right) ==
    IF hostClass(left) # hostClass(right) THEN hostClass(left) - hostClass(right)
    ELSE IF suffixLabels(left) # suffixLabels(right) THEN suffixLabels(left) - suffixLabels(right)
    ELSE right.priority - left.priority

compareCandidates(left, right) ==
    LET l == Rank(left)
        r == Rank(right)
    IN  IF l = r THEN 0
        ELSE LET i == CHOOSE i \in 1..4 : l[i] # r[i] /\ \A j \in 1..(i - 1) : l[j] = r[j]
             IN  IF l[i] < r[i] THEN -1 ELSE 1

hostsOverlap(left, right) ==
    \/ "catch_all" \in {left.type, right.type}
    \/ left.type = right.type /\ left.host = right.host
    \/ left.type = "exact" /\ right.type = "wildcard" /\ exactFallsUnderWildcard(left.host, right.host)
    \/ right.type = "exact" /\ left.type = "wildcard" /\ exactFallsUnderWildcard(right.host, left.host)

rulesOverlap(left, right) ==
    /\ hostsOverlap(left, right)
    /\ pathMatches(left.path, right.path) \/ pathMatches(right.path, left.path)

normalizeRules(table) ==
    \A left, right \in table : left # right =>
        left.id # right.id /\ (rulesOverlap(left, right) => compareCandidates(left, right) # 0)

-----------------------------------------------------------------------------
Stage(table) ==
    /\ visiting.verdict # "visiting"
    /\ normalizeRules(table)
    /\ staged' = table /\ visiting' = NoRequest

Request(host, path) ==
    /\ staged # {} /\ visiting.verdict = "none"
    /\ visiting' = [host |-> host, path |-> path, remaining |-> staged, best |-> NoRule, verdict |-> "visiting"]
    /\ UNCHANGED staged

(* One turn of the loop of chooseRule.                                         *)
Visit(rule) ==
    LET v == [visiting EXCEPT !.remaining = @ \ {rule}]
        comparison == compareCandidates(rule, v.best)
    IN  /\ visiting.verdict = "visiting" /\ rule \in visiting.remaining
        /\ visiting' =
            IF ~MatchesRequest(rule, v.host, v.path) THEN v
            ELSE IF v.best = NoRule THEN [v EXCEPT !.best = rule]
            ELSE IF comparison > 0 THEN [v EXCEPT !.best = rule]
            ELSE IF comparison = 0 THEN [v EXCEPT !.verdict = "conflict", !.remaining = {}]
            ELSE v
        /\ UNCHANGED staged

Chosen ==
    /\ visiting.verdict = "visiting" /\ visiting.remaining = {}
    /\ visiting' = [visiting EXCEPT !.verdict = IF visiting.best = NoRule THEN "no match" ELSE "match"]
    /\ UNCHANGED staged

MatcherNext ==
    \/ Chosen
    \/ \E table \in SUBSET Rules : Cardinality(table) <= MaximumRules /\ staged = {} /\ Stage(table)
    \/ \E host \in RequestHosts, path \in RequestPaths : Request(host, path)
    \/ \E rule \in Rules : Visit(rule)

MatcherSpec == MatcherInit /\ [][MatcherNext]_matcherVars

-----------------------------------------------------------------------------
(* The rule the documents describe: exact before wildcard before catch-all,    *)
(* the longer suffix, the longer prefix, the lower priority number.            *)
Better(a, b) ==
    \/ a.type = "exact" /\ b.type # "exact"
    \/ a.type = "wildcard" /\ b.type = "catch_all"
    \/ a.type = b.type /\ Len(a.host) > Len(b.host)
    \/ a.type = b.type /\ Len(a.host) = Len(b.host) /\ Len(a.path) > Len(b.path)
    \/ a.type = b.type /\ Len(a.host) = Len(b.host) /\ Len(a.path) = Len(b.path) /\ a.priority < b.priority

(* chooseRule: whatever the order of the rules, a request is served by the one *)
(* rule that is better than every other rule that matches it.                  *)
BestRuleIsChosen ==
    LET matching == {r \in staged : MatchesRequest(r, visiting.host, visiting.path)}
    IN  /\ visiting.verdict = "match" =>
            visiting.best \in matching /\ \A r \in matching \ {visiting.best} : Better(visiting.best, r)
        /\ visiting.verdict = "no match" => matching = {}

(* normalizeRules refuses every table in which two rules tie for a request, so *)
(* that no request of a staged table ends in ErrMatchConflict.                 *)
StagedTableHasNoConflict == visiting.verdict # "conflict"

(* What chooseRule has seen of the rules that match.                           *)
Seen == {r \in staged \ visiting.remaining : MatchesRequest(r, visiting.host, visiting.path)}

(* The inductive invariant: the best so far beats whatever else was seen.      *)
MatcherInv ==
    /\ staged \subseteq Rules /\ normalizeRules(staged)
    /\ visiting \in [host : Seq(Nat), path : Seq(Nat), remaining : SUBSET staged,
                    best : Rules \cup {NoRule}, verdict : {"none", "visiting", "match", "no match"}]
    /\ visiting.verdict # "none" =>
        IF visiting.best = NoRule THEN Seen = {}
        ELSE visiting.best \in Seen /\ \A r \in Seen \ {visiting.best} : compareCandidates(visiting.best, r) = 1
    /\ visiting.verdict = "match" => visiting.remaining = {} /\ visiting.best # NoRule
    /\ visiting.verdict = "no match" => visiting.remaining = {} /\ visiting.best = NoRule
=============================================================================
