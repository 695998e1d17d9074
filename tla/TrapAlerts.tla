----------------------------- MODULE TrapAlerts -----------------------------
(***************************************************************************)
(* SNMP traps and the alerts without a rule they lead to:                  *)
(* collectors/snmp_trap_receiver and create_or_update_trap_alert,          *)
(* _resolve_ups_trap_alert_if_needed in apps/alerts/services/engine.py.    *)
(*                                                                         *)
(* One device and one key.  The traps of a UPS (one mapped OID) open or    *)
(* update an alert directly, in the transaction that stores the trap.      *)
(* Those of a PAC (PAC_ALARM_FIRED, PAC_ALARM_RESTORED) only make a second *)
(* task read the alarm metric; what that finds goes through the rules      *)
(* and, if these have nothing to say, to the metric's exact alert.         *)
(* Traps travel by UDP and through a queue, and may be doubled, overtaken  *)
(* or lost.  SELECT ... FOR UPDATE is as in AlertEngine: candidates from a *)
(* snapshot, newest first, each tested again once it is locked.            *)
(*                                                                         *)
(* Left out: unmapped traps and texts; a rule's duration, windows and      *)
(* alerts beyond being there or not (AlertEngine).  A request to resolve   *)
(* is one step: manually_resolve_alert tests nothing it has read, and an   *)
(* alert that is resolved already stays so.                                *)
(***************************************************************************)
EXTENDS Integers

CONSTANTS
    Slots,          \* process slots of trap-worker
    NoSlot,
    MaxAlerts,      \* bound: alerts without a rule
    MaxTraps,       \* bound: traps sent or doubled
    MaxMishaps      \* bound: losses, failures and deaths

\* A hosted module states its assumptions as a definition.
TrapAssumption == NoSlot \notin Slots

Alerts == 1 .. MaxAlerts
NoAlert == 0
Codes == {"FIRED", "RESTORED"}

VARIABLES
    device,         \* "UPS" or "PAC"
    alarm,          \* whether the equipment is in alarm
    traps,          \* per code, traps that wait to be processed
    confirmations,  \* per code, queued confirmation tasks
    latest,         \* the alarm metric as stored in LatestTelemetry
    ruled,          \* whether a rule matches the metric
    ruleAlert,      \* whether an alert of that rule is active
    state,          \* the status of each alert without a rule
    occurrences,    \* its occurrence_count
    lockedBy,       \* who holds its row lock
    slot,           \* the progress of each slot
    acks,           \* alerts that requests to acknowledge have read as OPEN
    sent, mishaps,  \* what is used of the bounds
    \* history, read by the properties only
    newest,         \* what the latest reading of the alarm metric found
    known,          \* per alert, those that were there when its creator looked
    revived,        \* alerts that were acknowledged after they had been resolved
    counted,        \* per alert, the traps that were processed for it
    excused         \* whether something befell the PAC that no task makes up for

vars == <<device, alarm, traps, confirmations, latest, ruled, ruleAlert, state,
          occurrences, lockedBy, slot, acks, sent, mishaps, newest, known, revived, counted,
          excused>>

Active == {"OPEN", "ACKNOWLEDGED"}

\* The statuses the lookup filters by: an exact alert is sought among the OPEN only.
SoughtOpen == {"OPEN"}        \* mutated form of Sought
Sought == IF device = "UPS" THEN Active ELSE {"OPEN"}
Candidates == {a \in Alerts : state[a] \in Sought}
Existing == {a \in Alerts : state[a] # "NONE"}

IdleSlot == [pc |-> "idle", told |-> "FIRED", on |-> FALSE, seen |-> {}, there |-> {},
             alert |-> NoAlert, was |-> 0]

None == [c \in Codes |-> 0]

Init ==
    /\ device \in {"UPS", "PAC"}
    /\ alarm = FALSE
    /\ traps = None /\ confirmations = None
    /\ latest = FALSE
    /\ ruled \in {FALSE, device = "PAC"} /\ ruleAlert = FALSE
    /\ state = [a \in Alerts |-> "NONE"]
    /\ occurrences = [a \in Alerts |-> 0]
    /\ lockedBy = [a \in Alerts |-> NoSlot]
    /\ slot = [s \in Slots |-> IdleSlot]
    /\ acks = {} /\ revived = {}
    /\ sent = 0 /\ mishaps = 0
    /\ newest = FALSE
    /\ known = [a \in Alerts |-> {}]
    /\ counted = [a \in Alerts |-> 0]
    /\ excused = FALSE

queues == <<traps, confirmations>>
rows == <<state, occurrences, lockedBy>>
requests == <<acks, revived>>
rule == <<latest, ruled, ruleAlert>>
history == <<newest, known, counted, excused>>

Mishap ==
    /\ mishaps < MaxMishaps
    /\ mishaps' = mishaps + 1
    /\ excused' = TRUE

-----------------------------------------------------------------------------
(* The equipment and the network.                                          *)

\* A UPS repeats itself while a condition lasts; a PAC sends a trap per change.
SendTrap(c) ==
    /\ sent < MaxTraps
    /\ sent' = sent + 1
    /\ traps' = [traps EXCEPT ![c] = @ + 1]
    /\ IF device = "PAC"
         THEN c = (IF alarm THEN "RESTORED" ELSE "FIRED") /\ alarm' = ~alarm
         ELSE c = "FIRED" /\ UNCHANGED alarm
    /\ UNCHANGED <<device, confirmations, rule, rows, slot, mishaps, history, requests>>

Doubled(c) ==
    /\ traps[c] > 0
    /\ sent < MaxTraps
    /\ sent' = sent + 1
    /\ traps' = [traps EXCEPT ![c] = @ + 1]
    /\ UNCHANGED <<device, alarm, confirmations, rule, rows, slot, mishaps, history,
                   requests>>

\* By the network, by a broker that refuses it, or after the last retry.
TrapLost(c) ==
    /\ traps[c] > 0
    /\ traps' = [traps EXCEPT ![c] = @ - 1]
    /\ Mishap
    /\ UNCHANGED <<device, alarm, confirmations, rule, rows, slot, sent, newest, known,
                   counted, requests>>

-----------------------------------------------------------------------------
(* process_snmp_trap_task: one transaction, done again when it raises.     *)

\* The trap of a UPS goes on to create_or_update_trap_alert.
ProcessUps(s, c) ==
    /\ device = "UPS"
    /\ slot[s].pc = "idle"
    /\ traps[c] > 0
    /\ traps' = [traps EXCEPT ![c] = @ - 1]
    /\ slot' = [slot EXCEPT ![s] = [IdleSlot EXCEPT !.pc = "select", !.on = TRUE]]
    /\ UNCHANGED <<device, alarm, confirmations, rule, rows, sent, mishaps, history,
                   requests>>

ProcessPac(s, c) ==
    /\ device = "PAC"
    /\ slot[s].pc = "idle"
    /\ traps[c] > 0
    /\ traps' = [traps EXCEPT ![c] = @ - 1]
    /\ slot' = [slot EXCEPT ![s] = [IdleSlot EXCEPT !.pc = "stored", !.told = c]]
    /\ UNCHANGED <<device, alarm, confirmations, rule, rows, sent, mishaps, history,
                   requests>>

\* on_commit: the confirmation is queued once the trap can be read.
QueueConfirmation(s) ==
    /\ slot[s].pc = "stored"
    /\ confirmations' = [confirmations EXCEPT ![slot[s].told] = @ + 1]
    /\ slot' = [slot EXCEPT ![s] = IdleSlot]
    /\ UNCHANGED <<device, alarm, traps, rule, rows, sent, mishaps, history, requests>>

-----------------------------------------------------------------------------
(* process_pac_trap_alarm_confirmation, for one mapping.                   *)

Confirm(s, c) ==
    /\ slot[s].pc = "idle"
    /\ confirmations[c] > 0
    /\ confirmations' = [confirmations EXCEPT ![c] = @ - 1]
    /\ slot' = [slot EXCEPT ![s] = [IdleSlot EXCEPT !.pc = "sample", !.told = c]]
    /\ UNCHANGED <<device, alarm, traps, rule, rows, sent, mishaps, history, requests>>

\* (Mutated form of what follows.)  The trap's word is taken for the state.
SampleTold(s) ==
    /\ slot[s].pc = "sample"
    /\ newest' = (slot[s].told = "FIRED")
    /\ slot' = [slot EXCEPT ![s].pc = "write", ![s].on = newest']
    /\ UNCHANGED <<device, alarm, queues, rule, rows, sent, mishaps, known, counted,
                   excused, requests>>

Sample(s) ==
    /\ slot[s].pc = "sample"
    /\ newest' = alarm
    /\ slot' = [slot EXCEPT ![s].pc = "write", ![s].on = alarm]
    /\ UNCHANGED <<device, alarm, queues, rule, rows, sent, mishaps, known, counted,
                   excused, requests>>

\* What goes wrong is logged as PAC_CONFIRMATION_FAILED; nothing is tried again.
ConfirmationFails(s) ==
    /\ slot[s].pc \in {"sample", "write", "fetch"}
    /\ slot' = [slot EXCEPT ![s] = IdleSlot]
    /\ Mishap
    /\ UNCHANGED <<device, alarm, queues, rule, rows, sent, newest, known, counted,
                   requests>>

WriteReading(s) ==
    /\ slot[s].pc = "write"
    /\ latest' = slot[s].on
    /\ slot' = [slot EXCEPT ![s].pc = "fetch"]
    /\ UNCHANGED <<device, alarm, queues, ruled, ruleAlert, rows, sent, mishaps, history,
                   requests>>

\* evaluate_latest looks at the row, whoever wrote it last.  When it returns an
\* alert, opened or resolved, the exact alert is left alone.
Evaluate(s) ==
    /\ slot[s].pc = "fetch"
    /\ ruleAlert' = (ruled /\ latest)
    /\ slot' = [slot EXCEPT ![s] = IF ruled /\ (latest \/ ruleAlert)
                                     THEN IdleSlot
                                     ELSE [@ EXCEPT !.pc = "select"]]
    /\ excused' = (excused \/ {latest, slot[s].on} # {newest})
    /\ UNCHANGED <<device, alarm, queues, latest, ruled, rows, sent, mishaps,
                   newest, known, counted, requests>>

-----------------------------------------------------------------------------
(* The alert without a rule: create_or_update_trap_alert and               *)
(* _open_or_update_exact_alert, _resolve_exact_alert.                      *)

Select(s) ==
    /\ slot[s].pc = "select"
    /\ slot' = [slot EXCEPT ![s].pc = "lock", ![s].seen = Candidates,
                            ![s].there = Existing]
    /\ UNCHANGED <<device, alarm, queues, rule, rows, sent, mishaps, history, requests>>

Newest(a, S) == a \in S /\ \A b \in S : b <= a

\* (Mutated form of what follows.)  Without FOR UPDATE nobody waits.
LockWithoutWaiting(s) ==
    /\ slot[s].pc = "lock"
    /\ \E a \in Alerts :
          /\ Newest(a, slot[s].seen)
          /\ lockedBy' = [lockedBy EXCEPT ![a] = s]
          /\ slot' = [slot EXCEPT ![s].pc = "decide", ![s].alert = a, ![s].was = occurrences[a]]
    /\ UNCHANGED <<device, alarm, queues, rule, state, occurrences, sent, mishaps,
                   history, requests>>

Lock(s) ==
    /\ slot[s].pc = "lock"
    /\ \E a \in Alerts :
          /\ Newest(a, slot[s].seen)
          /\ lockedBy[a] = NoSlot
          /\ IF state[a] \in Sought
               THEN /\ lockedBy' = [lockedBy EXCEPT ![a] = s]
                    /\ slot' = [slot EXCEPT ![s].pc = "decide", ![s].alert = a,
                                            ![s].was = occurrences[a]]
               ELSE /\ slot' = [slot EXCEPT ![s].seen = @ \ {a}]
                    /\ UNCHANGED lockedBy
    /\ UNCHANGED <<device, alarm, queues, rule, state, occurrences, sent, mishaps,
                   history, requests>>

\* An older sample that is applied after a younger one was taken.
ExcuseStale(s) == excused' = (excused \/ (device = "PAC" /\ slot[s].on # newest))

\* The alert that was found is updated, or, by a PAC that is found normal, resolved.
UpdateAlert(s) ==
    LET a == slot[s].alert IN
    /\ slot[s].pc = "decide"
    /\ IF device = "UPS"
         THEN /\ occurrences' = [occurrences EXCEPT ![a] = slot[s].was + 1]
              /\ counted' = [counted EXCEPT ![a] = @ + 1]
         ELSE UNCHANGED <<occurrences, counted>>
    /\ state' = IF slot[s].on THEN state ELSE [state EXCEPT ![a] = "RESOLVED"]
    /\ lockedBy' = [lockedBy EXCEPT ![a] = NoSlot]
    /\ slot' = [slot EXCEPT ![s] = IdleSlot]
    /\ ExcuseStale(s)
    /\ UNCHANGED <<device, alarm, queues, rule, sent, mishaps, newest, known, requests>>

\* Two confirmations of one alarm may both create; what restores it resolves only one.
CreateAlert(s) ==
    /\ slot[s].pc = "lock" /\ slot[s].seen = {}
    /\ slot[s].on
    /\ \E a \in Alerts \ Existing :
          /\ a = 1 \/ a - 1 \in Existing
          /\ state' = [state EXCEPT ![a] = "OPEN"]
          /\ occurrences' = [occurrences EXCEPT ![a] = 1]
          /\ counted' = [counted EXCEPT ![a] = 1]
          /\ known' = [known EXCEPT ![a] = slot[s].there]
    /\ slot' = [slot EXCEPT ![s] = IdleSlot]
    /\ excused' = (excused \/ (device = "PAC" /\ (slot[s].on # newest \/ Candidates # {})))
    /\ UNCHANGED <<device, alarm, queues, rule, lockedBy, sent, mishaps, newest, requests>>

NothingToResolve(s) ==
    /\ slot[s].pc = "lock" /\ slot[s].seen = {}
    /\ ~slot[s].on
    /\ slot' = [slot EXCEPT ![s] = IdleSlot]
    /\ ExcuseStale(s)
    /\ UNCHANGED <<device, alarm, queues, rule, rows, sent, mishaps, newest, known,
                   counted, requests>>

-----------------------------------------------------------------------------
(* Around them.                                                            *)

\* A reading of the UPS says that the condition is over: evaluate_latest resolves
\* the newest active trap alert.
AutoResolve ==
    /\ device = "UPS"
    /\ \E a \in Alerts :
          /\ Newest(a, Candidates) /\ lockedBy[a] = NoSlot
          /\ state' = [state EXCEPT ![a] = "RESOLVED"]
    /\ UNCHANGED <<device, alarm, queues, rule, occurrences, lockedBy, slot, sent,
                   mishaps, history, requests>>

\* get_object, without a lock.  Others may read and save the same, before and after.
ReadToAcknowledge(a) ==
    /\ state[a] = "OPEN"
    /\ acks' = acks \cup {a}
    /\ UNCHANGED <<device, alarm, queues, rule, rows, slot, sent, mishaps, history,
                   revived>>

\* acknowledge_alert has tested the object that was read, and saves over the row
\* whatever it says now: an alert resolved in between comes back.
Acknowledge(a) ==
    /\ a \in acks /\ lockedBy[a] = NoSlot
    /\ acks' \in {acks, acks \ {a}}
    /\ state' = [state EXCEPT ![a] = "ACKNOWLEDGED"]
    /\ revived' = IF state[a] \in Active THEN revived ELSE revived \cup {a}
    /\ UNCHANGED <<device, alarm, queues, rule, occurrences, lockedBy, slot, sent,
                   mishaps, history>>

ResolveByHand(a) ==
    /\ state[a] \in Active /\ lockedBy[a] = NoSlot
    /\ state' = [state EXCEPT ![a] = "RESOLVED"]
    /\ excused' = TRUE
    /\ UNCHANGED <<device, alarm, queues, rule, occurrences, lockedBy, slot, sent, mishaps,
                   newest, known, counted, requests>>

\* The organization's rules are seeded: a rule's alert takes the exact one's place,
\* and the exact one is nobody's as long as there is a rule's.
SeedRule ==
    /\ device = "PAC" /\ ~ruled
    /\ ruled' = TRUE
    /\ excused' = TRUE
    /\ UNCHANGED <<device, alarm, queues, latest, ruleAlert, rows, slot, sent, mishaps,
                   newest, known, counted, requests>>

\* The process dies; its message was acknowledged when it was taken.
Die(s) ==
    /\ slot[s].pc # "idle"
    /\ slot' = [slot EXCEPT ![s] = IdleSlot]
    /\ lockedBy' = [a \in Alerts |-> IF lockedBy[a] = s THEN NoSlot ELSE lockedBy[a]]
    /\ Mishap
    /\ UNCHANGED <<device, alarm, queues, rule, state, occurrences, sent, newest, known,
                   counted, requests>>

-----------------------------------------------------------------------------

Run(s) ==
    \/ \E c \in Codes : ProcessUps(s, c) \/ ProcessPac(s, c) \/ Confirm(s, c)
    \/ QueueConfirmation(s)
    \/ Sample(s) \/ ConfirmationFails(s) \/ WriteReading(s) \/ Evaluate(s)
    \/ Select(s) \/ Lock(s) \/ UpdateAlert(s) \/ CreateAlert(s) \/ NothingToResolve(s)
    \/ Die(s)

Next ==
    \/ \E c \in Codes : SendTrap(c) \/ Doubled(c) \/ TrapLost(c)
    \/ \E s \in Slots : Run(s)
    \/ \E a \in Alerts : ReadToAcknowledge(a) \/ Acknowledge(a) \/ ResolveByHand(a)
    \/ AutoResolve
    \/ SeedRule

Spec == Init /\ [][Next]_vars

-----------------------------------------------------------------------------
(* Properties.                                                             *)

TypeOK ==
    /\ device \in {"UPS", "PAC"}
    /\ {alarm, latest, ruled, ruleAlert, newest, excused} \subseteq BOOLEAN
    /\ {traps, confirmations} \subseteq [Codes -> Nat]
    /\ state \in [Alerts -> Active \cup {"NONE", "RESOLVED"}]
    /\ occurrences \in [Alerts -> Nat] /\ counted \in [Alerts -> Nat]
    /\ known \in [Alerts -> SUBSET Alerts]
    /\ acks \subseteq Alerts /\ revived \subseteq Alerts
    /\ lockedBy \in [Alerts -> Slots \cup {NoSlot}]
    /\ slot \in [Slots ->
          [pc : {"idle", "stored", "sample", "write", "fetch", "select", "lock", "decide"},
           told : Codes, on : BOOLEAN, seen : SUBSET Alerts, there : SUBSET Alerts,
           alert : Alerts \cup {NoAlert}, was : Nat]]
    /\ sent \in Nat /\ mishaps \in Nat

\* The occurrence_count of a trap alert counts the traps that were processed for
\* it: create_or_update_trap_alert adds one to what it read, and nobody else may
\* have added in between.
TrapsCounted ==
    device = "UPS" => \A a \in Alerts : occurrences[a] = counted[a]

\* "Create one durable alert for a trap event and prevent duplicate open alerts"
\* (the docstring), as far as it goes: of two active alerts (two OPEN ones of a PAC)
\* the younger was created by a task that looked before the older one was there, or the
\* older one was over by then and a late acknowledgement has brought it back (which
\* gives a PAC no second OPEN one).
DoublesExplained ==
    \A a, b \in Alerts :
        /\ a < b
        /\ {state[a], state[b]} \subseteq Active
        /\ device = "PAC" => {state[a], state[b]} = {"OPEN"}
        => a \notin known[b] \/ (device = "UPS" /\ a \in revived)

\* Traps may come late, twice or out of order: once they are all dealt with, the
\* alerts of the PAC say what the equipment does.  Excused are a lost trap, a
\* confirmation that failed or died, a reading applied after a younger one was
\* taken, an alert doubled by two confirmations at once (one restoration resolves one
\* of them), an alert resolved by hand, and rules that come while alarms are handled.
TrapsConverge ==
    /\ device = "PAC" /\ ~excused
    /\ traps = None /\ confirmations = None
    /\ \A s \in Slots : slot[s].pc = "idle"
    => IF alarm THEN ruleAlert \/ \E a \in Alerts : state[a] \in Active
       ELSE ~ruleAlert /\ Candidates = {}
=============================================================================
