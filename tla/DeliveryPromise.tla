-------------------------- MODULE DeliveryPromise --------------------------
(***************************************************************************)
(* What the delivery promises of a notification row: one worker at a time  *)
(* tries to send it, only while the row says DELIVERING; SENT records that *)
(* the provider has accepted the message, and is the end; every other      *)
(* acceptance is forgotten by whoever saw it.  Nothing of queues, retries, *)
(* commands and clocks is seen here.                                       *)
(***************************************************************************)
CONSTANTS Rows, Workers

VARIABLES
    status,     \* Notification.status, "NONE" before the row is committed
    holders,    \* the workers that try to send the row: none or one
    accepted    \* a message was accepted, and that is known or recorded

vars == <<status, holders, accepted>>

Init ==
    /\ status = [n \in Rows |-> "NONE"]
    /\ holders = [n \in Rows |-> {}]
    /\ accepted = [n \in Rows |-> FALSE]

Becomes(n, is, by, known) ==
    /\ status' = [status EXCEPT ![n] = is]
    /\ holders' = [holders EXCEPT ![n] = by]
    /\ accepted' = [accepted EXCEPT ![n] = known]

Create(n) == status[n] = "NONE" /\ Becomes(n, "PENDING", {}, FALSE)

\* A worker tries one row at a time.
Begin(n, w) ==
    /\ status[n] \in {"PENDING", "FAILED"} /\ holders[n] = {}
    /\ \A m \in Rows : w \notin holders[m]
    /\ Becomes(n, "DELIVERING", {w}, FALSE)

Tried(n) == status[n] = "DELIVERING" /\ holders[n] # {}

Accept(n) == Tried(n) /\ ~accepted[n] /\ Becomes(n, "DELIVERING", holders[n], TRUE)

Record(n) == Tried(n) /\ accepted[n] /\ Becomes(n, "SENT", {}, TRUE)

\* The save of SENT fails, and the attempt with it.
Forget(n) == Tried(n) /\ accepted[n] /\ Becomes(n, "DELIVERING", holders[n], FALSE)

Fail(n) == Tried(n) /\ ~accepted[n] /\ Becomes(n, "FAILED", {}, FALSE)

Die(n) == Tried(n) /\ Becomes(n, "DELIVERING", {}, FALSE)

Requeue(rows) ==
    /\ \A n \in rows : status[n] = "DELIVERING" /\ holders[n] = {}
    /\ status' = [n \in Rows |-> IF n \in rows THEN "PENDING" ELSE status[n]]
    /\ UNCHANGED <<holders, accepted>>

Next ==
    \/ \E n \in Rows :
          \/ Create(n) \/ Accept(n) \/ Record(n) \/ Forget(n) \/ Fail(n) \/ Die(n)
          \/ \E w \in Workers : Begin(n, w)
    \/ \E rows \in SUBSET Rows : Requeue(rows)

Spec == Init /\ [][Next]_vars
=============================================================================
