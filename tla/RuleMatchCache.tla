-------------------------- MODULE RuleMatchCache --------------------------
(***************************************************************************)
(* The cache of matching rules: apps/alerts/services/cache.py,             *)
(* get_matching_rules in engine.py, and the invalidation that AlertRule's  *)
(* save and delete leave to on_commit.                                     *)
(*                                                                         *)
(* One reading, so one key per namespace.  A namespace is a version, drawn *)
(* anew (uuid4: the next natural number), or Fallback, the namespace       *)
(* "cache-unavailable" of a version lookup that failed.  Redis answers     *)
(* each call atomically; a call may fail, and everything in it may be lost.*)
(***************************************************************************)
EXTENDS Integers, FiniteSets

CONSTANTS
    Rules,          \* rules that may come to match the reading
    Evaluators,     \* processes that evaluate it
    Writers,        \* processes that save or delete a rule
    MaxVersions,    \* bound: versions drawn
    MaxFaults       \* bound: Redis calls that fail, and losses of its contents

CacheAssumption == MaxVersions \in Nat /\ MaxFaults \in Nat

VARIABLES
    rules,          \* the rules that match the reading, as committed
    version,        \* the version key
    lists,          \* per namespace, the cached rule list: none or one
    drawn,          \* versions drawn so far
    ev,             \* the progress of each evaluator
    writer,         \* the progress of each writer
    faults,         \* what is used of the bound
    unannounced,    \* history: rules changed since the last invalidation
    must,           \* history: rules that the lookup of an evaluator may not miss
    answer          \* history: the result of each evaluator's last lookup: none or one

vars == <<rules, version, lists, drawn, ev, writer, faults, unannounced, must, answer>>

NoVersion == 0
Fallback == -1

Versions == 1..MaxVersions
Namespaces == Versions \cup {Fallback}

IdleEvaluator == [pc |-> "idle", ns |-> NoVersion, found |-> {}]

Init ==
    /\ rules \in SUBSET Rules
    /\ version = NoVersion
    /\ lists = [n \in Namespaces |-> {}]
    /\ drawn = 0
    /\ ev = [e \in Evaluators |-> IdleEvaluator]
    /\ writer = [w \in Writers |-> "idle"]
    /\ faults = 0
    /\ unannounced = {}
    /\ must = [e \in Evaluators |-> {}]
    /\ answer = [e \in Evaluators |-> {}]

cached == <<version, lists, drawn>>
told == <<unannounced, must, answer>>

-----------------------------------------------------------------------------
(* Rules change.                                                           *)

\* A save or delete is committed; the reading is matched by one rule more or less.
CommitRule(w, r) ==
    /\ writer[w] = "idle"
    /\ rules' = IF r \in rules THEN rules \ {r} ELSE rules \cup {r}
    /\ writer' = [writer EXCEPT ![w] = "committed"]
    /\ unannounced' = unannounced \cup {r}
    /\ must' = [e \in Evaluators |-> must[e] \ {r}]
    /\ UNCHANGED <<cached, ev, faults, answer>>

\* invalidate_alert_rule_match_cache, from on_commit.
Invalidate(w) ==
    /\ writer[w] = "committed"
    /\ drawn < MaxVersions
    /\ drawn' = drawn + 1
    /\ version' = drawn'
    /\ writer' = [writer EXCEPT ![w] = "idle"]
    /\ unannounced' = {}
    /\ UNCHANGED <<rules, lists, ev, faults, must, answer>>

\* Redis fails, which is logged, or the process dies after its commit.
InvalidateFails(w) ==
    /\ writer[w] = "committed"
    /\ faults < MaxFaults
    /\ faults' = faults + 1
    /\ writer' = [writer EXCEPT ![w] = "idle"]
    /\ UNCHANGED <<rules, cached, ev, told>>

-----------------------------------------------------------------------------
(* get_matching_rules.                                                     *)

GetVersion(e) ==
    /\ ev[e].pc = "idle"
    /\ ev' = [ev EXCEPT ![e] = [pc |-> IF version = NoVersion THEN "missing" ELSE "keyed",
                                ns |-> version, found |-> {}]]
    /\ must' = [must EXCEPT ![e] = rules \ unannounced]
    /\ answer' = [answer EXCEPT ![e] = {}]
    /\ UNCHANGED <<rules, cached, writer, faults, unannounced>>

\* A missing version is drawn and set, over whatever another process has set since.
SetVersion(e) ==
    /\ ev[e].pc = "missing"
    /\ drawn < MaxVersions
    /\ drawn' = drawn + 1
    /\ version' = drawn'
    /\ ev' = [ev EXCEPT ![e].pc = "keyed", ![e].ns = drawn']
    /\ UNCHANGED <<rules, lists, writer, faults, told>>

\* The get or the set of the version raises: the namespace is the fallback's.
VersionFails(e) ==
    /\ ev[e].pc \in {"idle", "missing"}
    /\ faults < MaxFaults
    /\ faults' = faults + 1
    /\ ev' = [ev EXCEPT ![e] = [pc |-> "keyed", ns |-> Fallback, found |-> {}]]
    /\ must' = [must EXCEPT ![e] = {}]
    /\ answer' = [answer EXCEPT ![e] = {}]
    /\ UNCHANGED <<rules, cached, writer, unannounced>>

GetList(e) ==
    /\ ev[e].pc = "keyed"
    /\ LET list == lists[ev[e].ns]
       IN  ev' = [ev EXCEPT ![e] = [pc |-> IF list = {} THEN "miss" ELSE "hit",
                                    ns |-> ev[e].ns, found |-> UNION list]]
    /\ UNCHANGED <<rules, cached, writer, faults, told>>

\* Cached rules are read again under the conditions of the match.
QueryCached(e) ==
    /\ ev[e].pc = "hit"
    /\ answer' = [answer EXCEPT ![e] = {ev[e].found \cap rules}]
    /\ ev' = [ev EXCEPT ![e] = IdleEvaluator]
    /\ UNCHANGED <<rules, cached, writer, faults, unannounced, must>>

QueryAll(e) ==
    /\ ev[e].pc = "miss"
    /\ ev' = [ev EXCEPT ![e] = [pc |-> "store", ns |-> ev[e].ns, found |-> rules]]
    /\ answer' = [answer EXCEPT ![e] = {rules}]
    /\ UNCHANGED <<rules, cached, writer, faults, unannounced, must>>

\* (Mutated form of what follows.)  The key is made anew, from the version that
\* is current by then.
SetListLate(e) ==
    /\ ev[e].pc = "store"
    /\ lists' = [lists EXCEPT ![IF version = NoVersion THEN ev[e].ns ELSE version] =
                    {ev[e].found}]
    /\ ev' = [ev EXCEPT ![e] = IdleEvaluator]
    /\ UNCHANGED <<rules, version, drawn, writer, faults, told>>

SetList(e) ==
    /\ ev[e].pc = "store"
    /\ lists' = [lists EXCEPT ![ev[e].ns] = {ev[e].found}]
    /\ ev' = [ev EXCEPT ![e] = IdleEvaluator]
    /\ UNCHANGED <<rules, version, drawn, writer, faults, told>>

\* Only the version lookup catches what Redis raises: elsewhere the evaluation of
\* the reading ends, whatever the query had found.
ListFails(e) ==
    /\ ev[e].pc \in {"keyed", "store"}
    /\ faults < MaxFaults
    /\ faults' = faults + 1
    /\ ev' = [ev EXCEPT ![e] = IdleEvaluator]
    /\ UNCHANGED <<rules, cached, writer, told>>

-----------------------------------------------------------------------------
(* Redis.                                                                  *)

\* ALERT_RULE_MATCH_CACHE_TIMEOUT_SECONDS have passed.
Expire(n) ==
    /\ lists[n] # {}
    /\ lists' = [lists EXCEPT ![n] = {}]
    /\ UNCHANGED <<rules, version, drawn, ev, writer, faults, told>>

LoseAll ==
    /\ faults < MaxFaults
    /\ faults' = faults + 1
    /\ version' = NoVersion
    /\ lists' = [n \in Namespaces |-> {}]
    /\ UNCHANGED <<rules, drawn, ev, writer, told>>

-----------------------------------------------------------------------------

Write(w) ==
    \/ \E r \in Rules : CommitRule(w, r)
    \/ Invalidate(w)
    \/ InvalidateFails(w)

LookUp(e) ==
    \/ GetVersion(e) \/ SetVersion(e) \/ VersionFails(e)
    \/ GetList(e) \/ QueryCached(e) \/ QueryAll(e) \/ SetList(e) \/ ListFails(e)

Next ==
    \/ \E w \in Writers : Write(w)
    \/ \E e \in Evaluators : LookUp(e)
    \/ \E n \in Namespaces : Expire(n)
    \/ LoseAll

Spec == Init /\ [][Next]_vars

-----------------------------------------------------------------------------
(* Properties.                                                             *)

TypeOK ==
    /\ rules \in SUBSET Rules
    /\ version \in Versions \cup {NoVersion}
    /\ lists \in [Namespaces -> SUBSET SUBSET Rules]
    /\ drawn \in 0..MaxVersions
    /\ ev \in [Evaluators ->
                  [pc : {"idle", "missing", "keyed", "hit", "miss", "store"},
                   ns : Namespaces \cup {NoVersion}, found : SUBSET Rules]]
    /\ writer \in [Writers -> {"idle", "committed"}]
    /\ faults \in 0..MaxFaults
    /\ unannounced \in SUBSET Rules
    /\ must \in [Evaluators -> SUBSET Rules]
    /\ answer \in [Evaluators -> SUBSET SUBSET Rules]

\* Whatever is lost, fails or is set twice, a lookup returns the rules that match
\* now and misses none that an invalidation had announced before it began, unless
\* the lookup of the version itself failed.
Lookup == INSTANCE RuleLookup
LookupsComplete == Lookup!Spec
=============================================================================
