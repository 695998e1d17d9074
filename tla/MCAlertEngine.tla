----------------------------- MODULE MCAlertEngine -----------------------------
(* Instances of AlertEngine for TLC. *)
EXTENDS AlertEngine

CONSTANTS snmp1, snmp2, trap1, trap2, u1, u2

\* A behaviour has an API request or an evaluator that dies, not both.
OneMishap == calls' + deaths' <= 1

MCFairSpec == Init /\ [][Next /\ OneMishap]_vars /\ Fairness
=============================================================================
