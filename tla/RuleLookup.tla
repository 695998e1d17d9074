---------------------------- MODULE RuleLookup ----------------------------
(***************************************************************************)
(* What get_matching_rules promises to the evaluations of one reading: the *)
(* rules that match it now, and none of them missing that matched when the *)
(* lookup began, provided the change that made it match had been announced *)
(* by then.  Nothing of a cache is seen here.                              *)
(***************************************************************************)
CONSTANTS Rules, Evaluators

VARIABLES
    rules,      \* the rules that match, as committed
    unannounced,\* rules that changed since the last announcement
    must,       \* per lookup under way, the rules that it may not miss
    answer      \* per evaluator, the result of its last lookup: none or one

vars == <<rules, unannounced, must, answer>>

Init ==
    /\ rules \in SUBSET Rules
    /\ unannounced = {}
    /\ must = [e \in Evaluators |-> {}]
    /\ answer = [e \in Evaluators |-> {}]

Change(r) ==
    /\ rules' = IF r \in rules THEN rules \ {r} ELSE rules \cup {r}
    /\ unannounced' = unannounced \cup {r}
    /\ must' = [e \in Evaluators |-> must[e] \ {r}]
    /\ UNCHANGED answer

Announce ==
    /\ unannounced' = {}
    /\ UNCHANGED <<rules, must, answer>>

\* A lookup that cannot tell which announcements there were promises less.
Ask(e) ==
    /\ must' \in {[must EXCEPT ![e] = rules \ unannounced], [must EXCEPT ![e] = {}]}
    /\ answer' = [answer EXCEPT ![e] = {}]
    /\ UNCHANGED <<rules, unannounced>>

Answer(e) ==
    /\ answer[e] = {}
    /\ \E found \in SUBSET rules :
          /\ must[e] \subseteq found
          /\ answer' = [answer EXCEPT ![e] = {found}]
    /\ UNCHANGED <<rules, unannounced, must>>

Next ==
    \/ \E r \in Rules : Change(r)
    \/ Announce
    \/ \E e \in Evaluators : Ask(e) \/ Answer(e)

Spec == Init /\ [][Next]_vars
=============================================================================
