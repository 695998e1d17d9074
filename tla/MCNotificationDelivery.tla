----------------------- MODULE MCNotificationDelivery -----------------------
(* Instances of NotificationDelivery for TLC. *)
EXTENDS NotificationDelivery, TLC

CONSTANTS sms, web, mail, mail2, w1, w2

OnlySms  == [n \in {sms} |-> "SMS"]
OnlyMail == [n \in {mail} |-> "EMAIL"]
TwoMails == [n \in {mail, mail2} |-> "EMAIL"]

\* send_mail has no timeout (EMAIL_TIMEOUT is unset); SMS and webhooks have one.
Untimed == {"EMAIL"}

Slots == Permutations({w1, w2})
=============================================================================
