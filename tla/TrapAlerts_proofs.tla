-------------------------- MODULE TrapAlerts_proofs --------------------------
(***************************************************************************)
(* Proofs about TrapAlerts, for any slots and any number of alerts, traps  *)
(* and mishaps.                                                            *)
(*                                                                         *)
(* Counting holds because whoever adds to occurrence_count holds the row.  *)
(* Uniqueness does not hold: two tasks may both find nothing and create an *)
(* alert each.  What holds is that an alert which was there when a task    *)
(* looked is over by the time that task creates another, and stays so      *)
(* unless a late acknowledgement brings it back.                           *)
(***************************************************************************)
EXTENDS TrapAlerts, TLAPS

Statuses == Active \cup {"NONE", "RESOLVED"}
SlotType == [pc : {"idle", "stored", "sample", "write", "fetch", "select", "lock", "decide"},
             told : Codes, on : BOOLEAN, seen : SUBSET Alerts, there : SUBSET Alerts,
             alert : Alerts \cup {NoAlert}, was : Int]

\* The types the arguments need.
Types ==
    /\ device \in {"UPS", "PAC"}
    /\ alarm \in BOOLEAN
    /\ state \in [Alerts -> Statuses]
    /\ occurrences \in [Alerts -> Int] /\ counted \in [Alerts -> Int]
    /\ known \in [Alerts -> SUBSET Alerts]
    /\ lockedBy \in [Alerts -> Slots \cup {NoSlot}]
    /\ slot \in [Slots -> SlotType]

\* Over: an alert that was there and is not sought any more.
Over == {a \in Alerts : state[a] \notin Sought /\ state[a] # "NONE"}

\* Gone: an alert that is over, or was until a late acknowledgement.
Gone == Over \cup revived

\* Who decides holds the row and has read its count; who has been through the
\* alerts it saw left only such behind that are gone, and so did the creator of
\* every alert.  Requests acknowledge alerts that are there, and none opens one.
Inv ==
    /\ \A s \in Slots :
          /\ slot[s].pc = "decide" => /\ slot[s].alert \in Existing
                                      /\ lockedBy[slot[s].alert] = s
                                      /\ slot[s].was = occurrences[slot[s].alert]
          /\ slot[s].pc = "lock" => /\ slot[s].there \subseteq Existing
                                    /\ slot[s].there \ slot[s].seen \subseteq Gone
    /\ \A a \in Alerts : known[a] \subseteq Gone
    /\ acks \subseteq Existing
    /\ revived \subseteq {a \in Alerts : state[a] \in {"ACKNOWLEDGED", "RESOLVED"}}
    /\ occurrences = counted

LEMMA Initially == ASSUME TrapAssumption, Init PROVE Types /\ Inv
<1>1. IdleSlot \in SlotType /\ IdleSlot.pc = "idle"
  BY DEF IdleSlot, SlotType, Codes, NoAlert
<1>2. slot \in [Slots -> {IdleSlot}]
  BY DEF Init
<1>3. \A s \in Slots : slot[s].pc = "idle"
  BY <1>1, <1>2
<1>4. slot \in [Slots -> SlotType]
  BY <1>1, <1>2
<1>5. /\ state \in [Alerts -> Statuses]
      /\ occurrences \in [Alerts -> Int] /\ counted \in [Alerts -> Int]
      /\ known \in [Alerts -> SUBSET Alerts]
      /\ lockedBy \in [Alerts -> Slots \cup {NoSlot}]
  BY DEF Init, Statuses
<1>6. \A a \in Alerts : known[a] = {}
  BY DEF Init
<1>7. /\ alarm \in BOOLEAN /\ device \in {"UPS", "PAC"} /\ occurrences = counted
      /\ acks = {} /\ revived = {}
  BY DEF Init
<1>8. Types
  BY <1>4, <1>5, <1>7, Zenon DEF Types
<1>9. Inv
  BY <1>3, <1>6, <1>7 DEF Inv
<1>. QED BY <1>8, <1>9

\* Steps that leave the alerts alone and start, end or carry on a task.
Apart ==
    /\ UNCHANGED <<device, state, occurrences, lockedBy, known, counted, acks, revived>>
    /\ alarm' \in BOOLEAN
    /\ slot' \in [Slots -> SlotType]
    /\ \A s \in Slots : slot'[s] = slot[s] \/ slot'[s].pc \notin {"lock", "decide"}

LEMMA ApartKeeps == ASSUME Types, Inv, Apart PROVE Types' /\ Inv'
<1>1. Gone' = Gone /\ Existing' = Existing
  BY DEF Apart, Gone, Over, Sought, Existing
<1>. QED BY <1>1 DEF Apart, Types, Inv

\* A slot that starts or goes on.
LEMMA SlotTypes ==
    ASSUME Types
    PROVE  /\ IdleSlot \in SlotType
           /\ \A c \in Codes : [IdleSlot EXCEPT !.pc = "stored", !.told = c] \in SlotType
           /\ \A c \in Codes : [IdleSlot EXCEPT !.pc = "sample", !.told = c] \in SlotType
           /\ [IdleSlot EXCEPT !.pc = "select", !.on = TRUE] \in SlotType
           /\ \A s \in Slots : /\ slot[s] \in SlotType
                               /\ [slot[s] EXCEPT !.pc = "write", !.on = alarm] \in SlotType
                               /\ [slot[s] EXCEPT !.pc = "fetch"] \in SlotType
                               /\ [slot[s] EXCEPT !.pc = "select"] \in SlotType
<1>1. IdleSlot \in SlotType
  BY DEF IdleSlot, SlotType, Codes, NoAlert
<1>2. \A c \in Codes : [IdleSlot EXCEPT !.pc = "stored", !.told = c] \in SlotType
  BY <1>1 DEF SlotType
<1>3. \A c \in Codes : [IdleSlot EXCEPT !.pc = "sample", !.told = c] \in SlotType
  BY <1>1 DEF SlotType
<1>4. [IdleSlot EXCEPT !.pc = "select", !.on = TRUE] \in SlotType
  BY <1>1 DEF SlotType
<1>5. ASSUME NEW s \in Slots
      PROVE  /\ slot[s] \in SlotType
             /\ [slot[s] EXCEPT !.pc = "write", !.on = alarm] \in SlotType
             /\ [slot[s] EXCEPT !.pc = "fetch"] \in SlotType
             /\ [slot[s] EXCEPT !.pc = "select"] \in SlotType
  <2>1. slot[s] \in SlotType /\ alarm \in BOOLEAN
    BY DEF Types
  <2>. QED BY <2>1 DEF SlotType
<1>. QED BY <1>1, <1>2, <1>3, <1>4, <1>5, Zenon

\* A task that reads the alerts, locks one, and writes it or creates another.
LEMMA SelectKeeps ==
    ASSUME Types, Inv, NEW s \in Slots, Select(s)
    PROVE  Types' /\ Inv'
<1> DEFINE next == [slot[s] EXCEPT !.pc = "lock", !.seen = Candidates, !.there = Existing]
<1>1. slot[s] \in SlotType
  BY DEF Types
<1>2. slot' = [slot EXCEPT ![s] = next]
  BY DEF Select
<1>3. next \in SlotType /\ next.pc = "lock" /\ next.seen = Candidates /\ next.there = Existing
  <2>1. Candidates \subseteq Alerts /\ Existing \subseteq Alerts
    BY DEF Candidates, Existing
  <2>. QED BY <1>1, <2>1 DEF SlotType
<1>4. UNCHANGED <<device, alarm, state, occurrences, lockedBy, known, counted, acks, revived>>
  BY DEF Select, rows, history, requests
<1>5. Existing \ Candidates \subseteq Gone
  BY DEF Existing, Candidates, Gone, Over
<1>6. Gone' = Gone /\ Existing' = Existing
  BY <1>4 DEF Gone, Over, Sought, Existing
<1>. HIDE DEF next
<1>7. /\ slot' \in [Slots -> SlotType] /\ slot'[s] = next
      /\ \A t \in Slots \ {s} : slot'[t] = slot[t]
  BY <1>2, <1>3 DEF Types
<1>8. Types'
  BY <1>4, <1>7 DEF Types
<1>. QED BY <1>3, <1>4, <1>5, <1>6, <1>7, <1>8 DEF Inv

LEMMA LockKeeps ==
    ASSUME TrapAssumption, Types, Inv, NEW s \in Slots, Lock(s)
    PROVE  Types' /\ Inv'
<1>1. slot[s] \in SlotType /\ slot[s].pc = "lock"
  BY DEF Types, Lock
<1>2. UNCHANGED <<device, alarm, state, occurrences, known, counted, acks, revived>>
  BY DEF Lock, history, requests
<1>3. Gone' = Gone /\ Existing' = Existing
  BY <1>2 DEF Gone, Over, Sought, Existing
<1>4. PICK a \in Alerts :
         /\ lockedBy[a] = NoSlot
         /\ IF state[a] \in Sought
              THEN /\ lockedBy' = [lockedBy EXCEPT ![a] = s]
                   /\ slot' = [slot EXCEPT ![s].pc = "decide", ![s].alert = a,
                                           ![s].was = occurrences[a]]
              ELSE /\ slot' = [slot EXCEPT ![s].seen = @ \ {a}]
                   /\ UNCHANGED lockedBy
  BY Zenon DEF Lock
<1>5. CASE state[a] \in Sought
  <2> DEFINE next == [slot[s] EXCEPT !.pc = "decide", !.alert = a, !.was = occurrences[a]]
  <2>1. slot' = [slot EXCEPT ![s] = next]
    BY <1>4, <1>5
  <2>2. next \in SlotType /\ next.pc = "decide" /\ next.alert = a /\ next.was = occurrences[a]
    BY <1>1 DEF SlotType, Types
  <2>. HIDE DEF next
  <2>3. /\ slot' \in [Slots -> SlotType] /\ slot'[s] = next
        /\ \A t \in Slots \ {s} : slot'[t] = slot[t]
    BY <2>1, <2>2 DEF Types
  <2>4. /\ lockedBy' \in [Alerts -> Slots \cup {NoSlot}] /\ lockedBy'[a] = s
        /\ \A b \in Alerts : b = a \/ lockedBy'[b] = lockedBy[b]
    BY <1>4, <1>5 DEF Types
  <2>5. \A t \in Slots \ {s} : slot[t].pc = "decide" => slot[t].alert \in Alerts \ {a}
    BY <1>4 DEF Inv, TrapAssumption, Existing
  <2>6. Types' /\ a \in Existing
    <3>1. a \in Existing
      BY <1>5 DEF Existing, Sought, Active
    <3>. QED BY <1>2, <2>3, <2>4, <3>1 DEF Types
  <2>. QED BY <1>2, <1>3, <2>2, <2>3, <2>4, <2>5, <2>6 DEF Inv
<1>6. CASE state[a] \notin Sought
  <2> DEFINE next == [slot[s] EXCEPT !.seen = @ \ {a}]
  <2>1. slot' = [slot EXCEPT ![s] = next] /\ lockedBy' = lockedBy
    BY <1>4, <1>6
  <2>2. /\ next \in SlotType /\ next.pc = "lock"
        /\ next.seen = slot[s].seen \ {a} /\ next.there = slot[s].there
    BY <1>1 DEF SlotType
  <2>. HIDE DEF next
  <2>3. /\ slot' \in [Slots -> SlotType] /\ slot'[s] = next
        /\ \A t \in Slots \ {s} : slot'[t] = slot[t]
    BY <2>1, <2>2 DEF Types
  <2>4. next.there \ next.seen \subseteq Gone
    BY <1>1, <1>6, <2>2 DEF Inv, Gone, Over, Existing
  <2>5. Types'
    BY <1>2, <2>1, <2>3 DEF Types
  <2>. QED BY <1>1, <1>2, <1>3, <2>1, <2>2, <2>3, <2>4, <2>5 DEF Inv
<1>. QED BY <1>5, <1>6

LEMMA UpdateKeeps ==
    ASSUME Types, Inv, NEW s \in Slots, UpdateAlert(s)
    PROVE  Types' /\ Inv'
<1> DEFINE a == slot[s].alert
<1>1. /\ a \in Existing /\ a \in Alerts /\ lockedBy[a] = s /\ slot[s].was = occurrences[a]
      /\ slot[s].pc = "decide"
  BY DEF UpdateAlert, Inv, Existing
<1>2. UNCHANGED <<device, alarm, known, acks, revived>>
  BY DEF UpdateAlert, requests
<1>3. state' = state \/ state' = [state EXCEPT ![a] = "RESOLVED"]
  BY Zenon DEF UpdateAlert
<1>4. state' \in [Alerts -> Statuses] /\ Gone \subseteq Gone' /\ Existing \subseteq Existing'
  BY <1>1, <1>2, <1>3 DEF Types, Statuses, Gone, Over, Existing, Sought, Active
<1>5. /\ slot' \in [Slots -> SlotType] /\ slot'[s].pc = "idle"
      /\ \A t \in Slots \ {s} : slot'[t] = slot[t]
  <2>1. IdleSlot \in SlotType /\ IdleSlot.pc = "idle"
    BY SlotTypes DEF IdleSlot
  <2>2. slot' = [slot EXCEPT ![s] = IdleSlot]
    BY DEF UpdateAlert
  <2>. QED BY <2>1, <2>2 DEF Types
<1>6. /\ lockedBy' \in [Alerts -> Slots \cup {NoSlot}]
      /\ \A b \in Alerts : b = a \/ lockedBy'[b] = lockedBy[b]
  <2>1. lockedBy' = [lockedBy EXCEPT ![a] = NoSlot]
    BY DEF UpdateAlert
  <2>. QED BY <2>1 DEF Types
<1>7. \A t \in Slots \ {s} : slot[t].pc = "decide" => slot[t].alert # a
  BY <1>1 DEF Inv
<1>8. /\ occurrences' = counted' /\ occurrences' \in [Alerts -> Int]
      /\ \A b \in Alerts : b = a \/ occurrences'[b] = occurrences[b]
  <2>1. occurrences = counted /\ occurrences \in [Alerts -> Int]
    BY DEF Types, Inv
  <2>2. \/ UNCHANGED <<occurrences, counted>>
        \/ /\ occurrences' = [occurrences EXCEPT ![a] = slot[s].was + 1]
           /\ counted' = [counted EXCEPT ![a] = counted[a] + 1]
    BY DEF UpdateAlert
  <2>. QED BY <1>1, <2>1, <2>2
<1>. HIDE DEF a
<1>9. Types'
  BY <1>2, <1>4, <1>5, <1>6, <1>8 DEF Types
<1>10. \A t \in Slots \ {s} :
          /\ slot[t].pc = "decide" => slot[t].alert \in Alerts \ {a}
          /\ Existing \subseteq Alerts
  BY <1>7 DEF Inv, Existing
<1>11. revived' \subseteq {b \in Alerts : state'[b] \in {"ACKNOWLEDGED", "RESOLVED"}}
  BY <1>1, <1>2, <1>3 DEF Types, Inv
<1>. QED BY <1>2, <1>4, <1>5, <1>6, <1>8, <1>9, <1>10, <1>11 DEF Inv

LEMMA CreateKeeps ==
    ASSUME Types, Inv, NEW s \in Slots, CreateAlert(s)
    PROVE  Types' /\ Inv'
<1>1. /\ slot[s].pc = "lock" /\ slot[s].seen = {} /\ slot[s].there \subseteq Gone
      /\ slot' = [slot EXCEPT ![s] = IdleSlot]
      /\ UNCHANGED <<device, alarm, lockedBy, acks, revived>>
  BY DEF CreateAlert, Inv, requests
<1>2. PICK a \in Alerts \ Existing :
         /\ state' = [state EXCEPT ![a] = "OPEN"]
         /\ occurrences' = [occurrences EXCEPT ![a] = 1]
         /\ counted' = [counted EXCEPT ![a] = 1]
         /\ known' = [known EXCEPT ![a] = slot[s].there]
  BY DEF CreateAlert
<1>3. state' \in [Alerts -> Statuses] /\ Gone \subseteq Gone' /\ Existing \subseteq Existing'
  BY <1>1, <1>2 DEF Types, Statuses, Gone, Over, Existing, Sought, Active
<1>4. /\ slot' \in [Slots -> SlotType] /\ slot'[s].pc = "idle"
      /\ \A t \in Slots \ {s} : slot'[t] = slot[t]
  <2>1. IdleSlot \in SlotType /\ IdleSlot.pc = "idle"
    BY SlotTypes DEF IdleSlot
  <2>. QED BY <1>1, <2>1 DEF Types
<1>5. /\ occurrences' = counted' /\ occurrences' \in [Alerts -> Int]
      /\ \A b \in Existing : occurrences'[b] = occurrences[b]
  BY <1>2 DEF Types, Inv, Existing
<1>6. known' \in [Alerts -> SUBSET Alerts] /\ \A b \in Alerts : known'[b] \subseteq Gone
  BY <1>1, <1>2 DEF Types, Inv, Gone, Over
<1>7. Types'
  BY <1>1, <1>3, <1>4, <1>5, <1>6 DEF Types
<1>8. revived' \subseteq {b \in Alerts : state'[b] \in {"ACKNOWLEDGED", "RESOLVED"}}
  BY <1>1, <1>2 DEF Types, Inv, Existing
<1>. QED BY <1>1, <1>3, <1>4, <1>5, <1>6, <1>7, <1>8 DEF Inv

\* Requests and readings that resolve an alert.
LEMMA ResolveKeeps ==
    ASSUME Types, Inv, NEW a \in Alerts, state[a] \in Active,
           state' = [state EXCEPT ![a] = "RESOLVED"],
           UNCHANGED <<device, alarm, occurrences, counted, known, lockedBy, slot, acks, revived>>
    PROVE  Types' /\ Inv'
<1>1. state' \in [Alerts -> Statuses]
  BY DEF Types, Statuses, Active
<1>2. Gone \subseteq Gone' /\ Existing \subseteq Existing'
  BY DEF Types, Statuses, Gone, Over, Existing, Sought, Active
<1>3. Types'
  BY <1>1 DEF Types
<1>4. revived' \subseteq {b \in Alerts : state'[b] \in {"ACKNOWLEDGED", "RESOLVED"}}
  BY DEF Types, Inv
<1>. QED BY <1>2, <1>3, <1>4 DEF Inv

\* An acknowledgement revives what was over by then.
LEMMA AcknowledgeKeeps ==
    ASSUME Types, Inv, NEW a \in Alerts, Acknowledge(a)
    PROVE  Types' /\ Inv'
<1>1. /\ a \in Existing /\ acks' \subseteq Existing
      /\ state' = [state EXCEPT ![a] = "ACKNOWLEDGED"]
      /\ revived' = IF state[a] \in Active THEN revived ELSE revived \cup {a}
      /\ UNCHANGED <<device, alarm, occurrences, counted, known, lockedBy, slot>>
  BY DEF Acknowledge, history, Inv
<1>2. Types'
  BY <1>1 DEF Types, Statuses, Active
<1>3. Existing \subseteq Existing'
  BY <1>1 DEF Types, Existing
<1>4. Gone \subseteq Gone'
  BY <1>1 DEF Types, Statuses, Gone, Over, Existing, Sought, Active
<1>5. revived' \subseteq {b \in Alerts : state'[b] \in {"ACKNOWLEDGED", "RESOLVED"}}
  BY <1>1 DEF Types, Inv
<1>. QED BY <1>1, <1>2, <1>3, <1>4, <1>5 DEF Inv

LEMMA DieKeeps ==
    ASSUME TrapAssumption, Types, Inv, NEW s \in Slots, Die(s)
    PROVE  Types' /\ Inv'
<1>1. /\ UNCHANGED <<device, alarm, state, occurrences, counted, known, acks, revived>>
      /\ slot' = [slot EXCEPT ![s] = IdleSlot]
      /\ lockedBy' = [a \in Alerts |-> IF lockedBy[a] = s THEN NoSlot ELSE lockedBy[a]]
  BY DEF Die, requests
<1>2. Gone' = Gone /\ Existing' = Existing /\ Existing \subseteq Alerts
  BY <1>1 DEF Gone, Over, Sought, Existing
<1>3. /\ slot' \in [Slots -> SlotType] /\ slot'[s].pc = "idle"
      /\ \A t \in Slots \ {s} : slot'[t] = slot[t]
  <2>1. IdleSlot \in SlotType /\ IdleSlot.pc = "idle"
    BY SlotTypes DEF IdleSlot
  <2>. QED BY <1>1, <2>1 DEF Types
<1>4. /\ lockedBy' \in [Alerts -> Slots \cup {NoSlot}]
      /\ \A b \in Alerts : lockedBy[b] # s => lockedBy'[b] = lockedBy[b]
  BY <1>1 DEF Types
<1>5. Types'
  BY <1>1, <1>3, <1>4 DEF Types
<1>. QED BY <1>1, <1>2, <1>3, <1>4, <1>5 DEF Inv

LEMMA NextKeeps == ASSUME TrapAssumption, Types, Inv, [Next]_vars PROVE Types' /\ Inv'
<1>1. ASSUME NEW c \in Codes, SendTrap(c) \/ Doubled(c) \/ TrapLost(c) PROVE Apart
  BY <1>1 DEF SendTrap, Doubled, TrapLost, Apart, Types, rows, history, requests
<1>2. ASSUME NEW s \in Slots, NEW c \in Codes,
             ProcessUps(s, c) \/ ProcessPac(s, c) \/ Confirm(s, c)
      PROVE  Apart
  <2>1. UNCHANGED <<device, alarm, state, occurrences, lockedBy, known, counted, acks, revived>>
    BY <1>2 DEF ProcessUps, ProcessPac, Confirm, rows, history, requests
  <2>2. PICK next \in SlotType : /\ slot' = [slot EXCEPT ![s] = next]
                                 /\ next.pc \notin {"lock", "decide"}
    <3>1. /\ [IdleSlot EXCEPT !.pc = "select", !.on = TRUE].pc = "select"
          /\ [IdleSlot EXCEPT !.pc = "stored", !.told = c].pc = "stored"
          /\ [IdleSlot EXCEPT !.pc = "sample", !.told = c].pc = "sample"
      BY DEF IdleSlot
    <3>2. \/ slot' = [slot EXCEPT ![s] = [IdleSlot EXCEPT !.pc = "select", !.on = TRUE]]
          \/ slot' = [slot EXCEPT ![s] = [IdleSlot EXCEPT !.pc = "stored", !.told = c]]
          \/ slot' = [slot EXCEPT ![s] = [IdleSlot EXCEPT !.pc = "sample", !.told = c]]
      BY <1>2 DEF ProcessUps, ProcessPac, Confirm
    <3>. QED BY <3>1, <3>2, SlotTypes
  <2>. QED BY <2>1, <2>2 DEF Apart, Types
<1>3. ASSUME NEW s \in Slots,
             \/ QueueConfirmation(s) \/ Sample(s) \/ ConfirmationFails(s) \/ WriteReading(s)
             \/ Evaluate(s) \/ NothingToResolve(s)
      PROVE  Apart
  <2>1. UNCHANGED <<device, alarm, state, occurrences, lockedBy, known, counted, acks, revived>>
    BY <1>3 DEF QueueConfirmation, Sample, ConfirmationFails, WriteReading, Evaluate,
                NothingToResolve, rows, history, requests
  <2>2. PICK next \in SlotType : /\ slot' = [slot EXCEPT ![s] = next]
                                 /\ next.pc \notin {"lock", "decide"}
    <3>1. slot[s] \in SlotType
      BY DEF Types
    <3>2. /\ IdleSlot.pc = "idle"
          /\ [slot[s] EXCEPT !.pc = "write", !.on = alarm].pc = "write"
          /\ [slot[s] EXCEPT !.pc = "fetch"].pc = "fetch"
          /\ [slot[s] EXCEPT !.pc = "select"].pc = "select"
      BY <3>1 DEF IdleSlot, SlotType
    <3>3. \/ slot' = [slot EXCEPT ![s] = IdleSlot]
          \/ slot' = [slot EXCEPT ![s] = [slot[s] EXCEPT !.pc = "write", !.on = alarm]]
          \/ slot' = [slot EXCEPT ![s] = [slot[s] EXCEPT !.pc = "fetch"]]
          \/ slot' = [slot EXCEPT ![s] = [slot[s] EXCEPT !.pc = "select"]]
      BY <1>3 DEF QueueConfirmation, Sample, ConfirmationFails, WriteReading, Evaluate,
                  NothingToResolve
    <3>. QED BY <3>2, <3>3, SlotTypes
  <2>. QED BY <2>1, <2>2 DEF Apart, Types
<1>4. ASSUME NEW a \in Alerts, ReadToAcknowledge(a) PROVE Types' /\ Inv'
  <2>1. /\ a \in Existing /\ acks' = acks \cup {a}
        /\ UNCHANGED <<device, alarm, state, occurrences, counted, known, lockedBy, slot, revived>>
    BY <1>4 DEF ReadToAcknowledge, Existing, history, rows
  <2>. QED BY <2>1 DEF Types, Inv, Gone, Over, Existing, Sought
<1>5. ASSUME NEW a \in Alerts, ResolveByHand(a) PROVE Types' /\ Inv'
  <2>1. /\ state[a] \in Active /\ state' = [state EXCEPT ![a] = "RESOLVED"]
        /\ UNCHANGED <<device, alarm, occurrences, counted, known, lockedBy, slot, acks, revived>>
    BY <1>5 DEF ResolveByHand, requests
  <2>. QED BY <2>1, ResolveKeeps
<1>6. CASE AutoResolve
  <2>1. PICK a \in Alerts : /\ Newest(a, Candidates)
                            /\ state' = [state EXCEPT ![a] = "RESOLVED"]
    BY <1>6 DEF AutoResolve
  <2>2. /\ device = "UPS"
        /\ UNCHANGED <<device, alarm, occurrences, counted, known, lockedBy, slot, acks, revived>>
    BY <1>6 DEF AutoResolve, history, requests
  <2>3. state[a] \in Active
    BY <2>1, <2>2 DEF Newest, Candidates, Sought
  <2>. QED BY <2>1, <2>2, <2>3, ResolveKeeps
<1>7. CASE SeedRule \/ UNCHANGED vars
  <2>1. UNCHANGED <<device, alarm, state, occurrences, lockedBy, known, counted, slot, acks,
                    revived>>
    BY <1>7 DEF SeedRule, vars, rows, requests
  <2>. QED BY <2>1 DEF Types, Inv, Gone, Over, Existing, Sought
<1>8. ASSUME NEW s \in Slots, Run(s) PROVE Types' /\ Inv'
  BY <1>2, <1>3, <1>8, ApartKeeps, SelectKeeps, LockKeeps, UpdateKeeps, CreateKeeps, DieKeeps
     DEF Run
<1>. QED BY <1>1, <1>4, <1>5, <1>6, <1>7, <1>8, ApartKeeps, AcknowledgeKeeps DEF Next

\* The occurrence_count of a trap alert counts the traps that were processed for it,
\* although every task adds one to what it read before (create_or_update_trap_alert):
\* it keeps the row lock from the reading to the writing.
THEOREM EveryTrapCounted == ASSUME TrapAssumption PROVE Spec => []TrapsCounted
<1>1. Init => Types /\ Inv
  BY Initially
<1>2. Types /\ Inv /\ [Next]_vars => (Types /\ Inv)'
  BY NextKeeps
<1>3. Inv => TrapsCounted
  BY DEF Inv, TrapsCounted
<1>. QED BY <1>1, <1>2, <1>3, PTL DEF Spec

\* "Create one durable alert for a trap event and prevent duplicate open alerts"
\* (the docstring of create_or_update_trap_alert) fails in two ways only: the creator
\* of the second alert looked before the first was there, or the first was over by then
\* and acknowledge_alert, which saves over what it has not read, brought it back.
THEOREM DoubledAlertsExplained == ASSUME TrapAssumption PROVE Spec => []DoublesExplained
<1>1. Init => Types /\ Inv
  BY Initially
<1>2. Types /\ Inv /\ [Next]_vars => (Types /\ Inv)'
  BY NextKeeps
<1>3. Types /\ Inv => DoublesExplained
  <2>1. SUFFICES ASSUME Types, Inv, NEW a \in Alerts, NEW b \in Alerts, a \in known[b],
                        state[a] \in Active, device = "PAC" => state[a] = "OPEN"
                 PROVE  device = "UPS" /\ a \in revived
    BY DEF DoublesExplained
  <2>2. a \in Over \/ (a \in revived /\ state[a] # "OPEN")
    BY <2>1 DEF Inv, Gone
  <2>3. a \notin Over
    BY <2>1 DEF Types, Over, Sought
  <2>. QED BY <2>1, <2>2, <2>3 DEF Types
<1>. QED BY <1>1, <1>2, <1>3, PTL DEF Spec

-----------------------------------------------------------------------------
(* Convergence.  What a PAC's alarm is was found by the latest reading, or a *)
(* trap or a confirmation is still on its way; what that reading found is    *)
(* what the alerts say, or a task that can bring it about is under way.      *)

MoreTypes ==
    /\ {latest, ruled, ruleAlert, newest, excused} \subseteq BOOLEAN
    /\ traps \in [Codes -> Nat] /\ confirmations \in [Codes -> Nat]

\* Who decides holds an alert that is active, and nobody else closes it.
HeldActive == \A s \in Slots : slot[s].pc = "decide" => state[slot[s].alert] \in Active

\* A reading is going to be taken.
Due ==
    \/ \E c \in Codes : traps[c] > 0 \/ confirmations[c] > 0
    \/ \E s \in Slots : slot[s].pc \in {"stored", "sample"}

Applying(s) == slot[s].pc \in {"write", "fetch", "select", "lock", "decide"}

\* A task that will come across this alert.
Meets(s, a) ==
    \/ slot[s].pc \in {"write", "fetch", "select"}
    \/ slot[s].pc = "lock" /\ a \in slot[s].seen
    \/ slot[s].pc = "decide" /\ slot[s].alert = a

\* With a rule, its alert follows the reading and there is no other.
ByRule ==
    /\ Existing = {}
    /\ \A s \in Slots : slot[s].pc \in {"select", "lock", "decide"} => ~slot[s].on
    /\ ruleAlert = newest \/ \E s \in Slots : slot[s].pc \in {"write", "fetch"}

\* Without one, the exact alert does; only one of them is open.
ByAlert ==
    /\ ~ruleAlert
    /\ \A a, b \in Candidates : a = b
    /\ newest => (\E a \in Alerts : state[a] \in Active) \/ \E s \in Slots : Applying(s)
    /\ ~newest => \A a \in Candidates : \E s \in Slots : Meets(s, a)

Converging ==
    device = "PAC" /\ ~excused =>
        /\ newest = alarm \/ Due
        /\ IF ruled THEN ByRule ELSE ByAlert

ConvInv == MoreTypes /\ HeldActive /\ Converging

LEMMA MoreTypesKept == ASSUME Types, MoreTypes, [Next]_vars PROVE MoreTypes'
<1>. USE DEF MoreTypes
<1>1. ASSUME NEW c \in Codes, SendTrap(c) \/ Doubled(c) \/ TrapLost(c) PROVE MoreTypes'
  <2>1. traps[c] \in Nat /\ traps' \in {[traps EXCEPT ![c] = @ + 1], [traps EXCEPT ![c] = @ - 1]}
        /\ (traps' = [traps EXCEPT ![c] = @ - 1]
               => traps[c] > 0 \/ traps' = [traps EXCEPT ![c] = @ + 1])
    BY <1>1 DEF SendTrap, Doubled, TrapLost
  <2>2. traps' \in [Codes -> Nat]
    BY <2>1
  <2>3. UNCHANGED <<confirmations, latest, ruled, ruleAlert, newest>> /\ excused' \in BOOLEAN
    BY <1>1 DEF SendTrap, Doubled, TrapLost, Mishap, rule, history
  <2>. QED BY <2>2, <2>3
<1>2. ASSUME NEW s \in Slots, Run(s) PROVE MoreTypes'
  <2>1. slot[s] \in SlotType /\ slot[s].told \in Codes /\ slot[s].on \in BOOLEAN
    BY DEF Types, SlotType
  <2>2. ASSUME NEW c \in Codes, ProcessUps(s, c) \/ ProcessPac(s, c) \/ Confirm(s, c)
        PROVE  MoreTypes'
    BY <2>2 DEF ProcessUps, ProcessPac, Confirm, rule, history
  <2>3. CASE QueueConfirmation(s)
    BY <2>1, <2>3 DEF QueueConfirmation, rule, history
  <2>4. CASE Sample(s) \/ ConfirmationFails(s) \/ WriteReading(s) \/ Evaluate(s) \/ Die(s)
    BY <2>1, <2>4 DEF Types, Sample, ConfirmationFails, WriteReading, Evaluate, Die, Mishap,
                      rule, history, queues
  <2>5. CASE Select(s) \/ Lock(s) \/ UpdateAlert(s) \/ CreateAlert(s) \/ NothingToResolve(s)
    <3>1. UNCHANGED <<traps, confirmations, latest, ruled, ruleAlert, newest>>
      BY <2>5, Zenon DEF Select, Lock, UpdateAlert, CreateAlert, NothingToResolve, rule, history,
                         queues
    <3>2. excused' = excused \/ excused' = TRUE
      BY <2>5, Zenon DEF Select, Lock, UpdateAlert, CreateAlert, NothingToResolve, ExcuseStale,
                         history
    <3>. QED BY <3>1, <3>2
  <2>. QED BY <1>2, <2>2, <2>3, <2>4, <2>5 DEF Run
<1>3. CASE (\E a \in Alerts : ReadToAcknowledge(a) \/ Acknowledge(a) \/ ResolveByHand(a))
           \/ AutoResolve \/ SeedRule
  BY <1>3 DEF ReadToAcknowledge, Acknowledge, ResolveByHand, AutoResolve, SeedRule, rule, history,
              queues
<1>4. CASE UNCHANGED vars
  BY <1>4 DEF vars
<1>. QED BY <1>1, <1>2, <1>3, <1>4 DEF Next

\* A slot that moves, alone.
LEMMA SlotMoves ==
    ASSUME Types, NEW s \in Slots, NEW next, slot' = [slot EXCEPT ![s] = next]
    PROVE  slot'[s] = next /\ \A t \in Slots \ {s} : slot'[t] = slot[t]
  BY DEF Types

\* The lock of an alert keeps it active until its holder has decided.
LEMMA HeldActiveKept ==
    ASSUME TrapAssumption, Types, Inv, HeldActive, [Next]_vars
    PROVE  HeldActive'
<1>1. ASSUME UNCHANGED state,
             \A s \in Slots : slot'[s] = slot[s] \/ slot'[s].pc # "decide"
      PROVE  HeldActive'
  BY <1>1 DEF HeldActive
<1>2. CASE \E c \in Codes : SendTrap(c) \/ Doubled(c) \/ TrapLost(c)
  BY <1>1, <1>2 DEF SendTrap, Doubled, TrapLost, rows
<1>3. ASSUME NEW s \in Slots, Run(s) PROVE HeldActive'
  <2>0. slot[s] \in SlotType /\ IdleSlot.pc = "idle"
    BY DEF Types, IdleSlot
  <2>1. ASSUME NEW c \in Codes, ProcessUps(s, c) \/ ProcessPac(s, c) \/ Confirm(s, c)
        PROVE  HeldActive'
    <3>1. PICK next : slot' = [slot EXCEPT ![s] = next] /\ next.pc # "decide"
      <4>1. /\ [IdleSlot EXCEPT !.pc = "select", !.on = TRUE].pc # "decide"
            /\ [IdleSlot EXCEPT !.pc = "stored", !.told = c].pc # "decide"
            /\ [IdleSlot EXCEPT !.pc = "sample", !.told = c].pc # "decide"
        BY DEF IdleSlot
      <4>. QED BY <2>1, <4>1, Zenon DEF ProcessUps, ProcessPac, Confirm
    <3>. QED BY <1>1, <2>1, <3>1, SlotMoves DEF ProcessUps, ProcessPac, Confirm, rows
  <2>2. CASE \/ QueueConfirmation(s) \/ Sample(s) \/ ConfirmationFails(s) \/ WriteReading(s)
             \/ Evaluate(s) \/ Select(s) \/ NothingToResolve(s) \/ Die(s)
    <3>1. PICK next : slot' = [slot EXCEPT ![s] = next] /\ next.pc # "decide"
      <4>1. CASE \/ QueueConfirmation(s) \/ ConfirmationFails(s) \/ NothingToResolve(s) \/ Die(s)
        BY <2>0, <4>1 DEF QueueConfirmation, ConfirmationFails, NothingToResolve, Die
      <4>2. CASE Sample(s) \/ WriteReading(s)
        BY <2>0, <4>2 DEF Sample, WriteReading, SlotType
      <4>3. CASE Evaluate(s)
        <5>1. /\ [slot[s] EXCEPT !.pc = "select"].pc # "decide"
              /\ slot' \in {[slot EXCEPT ![s] = IdleSlot],
                            [slot EXCEPT ![s] = [slot[s] EXCEPT !.pc = "select"]]}
          BY <2>0, <4>3 DEF Evaluate, SlotType
        <5>. QED BY <2>0, <5>1
      <4>4. CASE Select(s)
        <5> DEFINE next == [slot[s] EXCEPT !.pc = "lock", !.seen = Candidates, !.there = Existing]
        <5>1. slot' = [slot EXCEPT ![s] = next] /\ next.pc # "decide"
          BY <2>0, <4>4 DEF Select, SlotType
        <5>. QED BY <5>1
      <4>. QED BY <2>2, <4>1, <4>2, <4>3, <4>4
    <3>2. UNCHANGED state
      BY <2>2 DEF QueueConfirmation, Sample, ConfirmationFails, WriteReading, Evaluate, Select,
                  NothingToResolve, Die, rows
    <3>. QED BY <1>1, <3>1, <3>2, SlotMoves
  <2>3. CASE Lock(s)
    <3>1. PICK a \in Alerts :
            IF state[a] \in Sought
              THEN slot' = [slot EXCEPT ![s] = [slot[s] EXCEPT !.pc = "decide", !.alert = a,
                                                               !.was = occurrences[a]]]
              ELSE slot' = [slot EXCEPT ![s] = [slot[s] EXCEPT !.seen = @ \ {a}]]
      BY <2>3, Zenon DEF Lock
    <3>2. slot[s].pc = "lock" /\ UNCHANGED state
      BY <2>3 DEF Lock
    <3>3. PICK next : /\ slot' = [slot EXCEPT ![s] = next]
                      /\ next.pc = "decide" => next.alert = a /\ state[a] \in Active
      <4>1. state[a] \in Sought => state[a] \in Active
        BY DEF Sought, Active
      <4>2. [slot[s] EXCEPT !.seen = @ \ {a}].pc # "decide"
        BY <2>0, <3>2 DEF SlotType
      <4>3. [slot[s] EXCEPT !.pc = "decide", !.alert = a, !.was = occurrences[a]].alert = a
        BY <2>0 DEF SlotType
      <4>. QED BY <3>1, <4>1, <4>2, <4>3
    <3>. QED BY <3>2, <3>3, SlotMoves DEF HeldActive
  <2>4. CASE UpdateAlert(s)
    <3>1. slot' = [slot EXCEPT ![s] = IdleSlot]
          /\ (state' = state \/ state' = [state EXCEPT ![slot[s].alert] = "RESOLVED"])
      BY <2>4 DEF UpdateAlert
    <3>2. \A t \in Slots \ {s} : slot[t].pc = "decide" =>
              slot[t].alert \in Alerts /\ slot[t].alert # slot[s].alert
      BY <2>4 DEF UpdateAlert, Inv, Existing
    <3>3. \A t \in Slots : (slot'[t] = slot[t] /\ t # s) \/ slot'[t].pc # "decide"
      BY <2>0, <3>1, SlotMoves
    <3>. QED BY <3>1, <3>2, <3>3 DEF HeldActive, Types
  <2>5. CASE CreateAlert(s)
    <3>1. slot' = [slot EXCEPT ![s] = IdleSlot]
          /\ \E a \in Alerts : state' = [state EXCEPT ![a] = "OPEN"]
      BY <2>5 DEF CreateAlert
    <3>2. \A t \in Slots : (slot'[t] = slot[t] /\ t # s) \/ slot'[t].pc # "decide"
      BY <2>0, <3>1, SlotMoves
    <3>. QED BY <3>1, <3>2 DEF HeldActive, Types, Inv, Existing, Active
  <2>. QED BY <1>3, <2>1, <2>2, <2>3, <2>4, <2>5 DEF Run
<1>4. ASSUME NEW a \in Alerts, Acknowledge(a) \/ ResolveByHand(a) \/ AutoResolve
      PROVE  HeldActive'
  <2>1. PICK b \in Alerts, status \in {"ACKNOWLEDGED", "RESOLVED"} :
            lockedBy[b] = NoSlot /\ state' = [state EXCEPT ![b] = status] /\ UNCHANGED slot
    BY <1>4 DEF Acknowledge, ResolveByHand, AutoResolve
  <2>2. \A s \in Slots : slot[s].pc = "decide" => slot[s].alert # b /\ slot[s].alert \in Alerts
    BY <2>1 DEF Inv, TrapAssumption, Existing
  <2>. QED BY <2>1, <2>2 DEF HeldActive, Types
<1>5. CASE SeedRule \/ UNCHANGED vars \/ \E a \in Alerts : ReadToAcknowledge(a)
  BY <1>1, <1>5 DEF SeedRule, ReadToAcknowledge, vars, rows
<1>6. CASE AutoResolve
  BY <1>4, <1>6 DEF AutoResolve
<1>. QED BY <1>2, <1>3, <1>4, <1>5, <1>6 DEF Next

\* What any step keeps, and those that are excused.
LEMMA StepsExcuse ==
    ASSUME [Next]_vars
    PROVE  /\ device' = device /\ (excused => excused')
           /\ \/ \E c \in Codes : TrapLost(c)
              \/ \E s \in Slots : ConfirmationFails(s) \/ Die(s)
              \/ \E a \in Alerts : ResolveByHand(a)
              \/ SeedRule
              => excused'
<1>1. ASSUME NEW s \in Slots, Run(s) PROVE device' = device /\ (excused => excused')
  <2>1. CASE \/ \E c \in Codes : ProcessUps(s, c) \/ ProcessPac(s, c) \/ Confirm(s, c)
             \/ QueueConfirmation(s) \/ WriteReading(s)
    <3>1. device' = device /\ excused' = excused
      BY <2>1, Zenon DEF ProcessUps, ProcessPac, Confirm, QueueConfirmation, WriteReading, history
    <3>. QED BY <3>1
  <2>2. CASE Sample(s) \/ Select(s) \/ Lock(s)
    <3>1. device' = device /\ excused' = excused
      BY <2>2, Zenon DEF Sample, Select, Lock, history
    <3>. QED BY <3>1
  <2>3. CASE ConfirmationFails(s) \/ Die(s)
    BY <2>3, Zenon DEF ConfirmationFails, Die, Mishap
  <2>4. CASE Evaluate(s) \/ UpdateAlert(s) \/ CreateAlert(s) \/ NothingToResolve(s)
    BY <2>4, Zenon DEF Evaluate, UpdateAlert, CreateAlert, NothingToResolve, ExcuseStale
  <2>. QED BY <1>1, <2>1, <2>2, <2>3, <2>4 DEF Run
<1>2. ASSUME Next PROVE device' = device /\ (excused => excused')
  <2>1. CASE \E c \in Codes : SendTrap(c) \/ Doubled(c) \/ TrapLost(c)
    <3>1. device' = device /\ (excused' = excused \/ excused' = TRUE)
      BY <2>1, Zenon DEF SendTrap, Doubled, TrapLost, Mishap, history
    <3>. QED BY <3>1
  <2>2. CASE (\E a \in Alerts : ReadToAcknowledge(a) \/ Acknowledge(a) \/ ResolveByHand(a))
           \/ AutoResolve \/ SeedRule
    <3>1. device' = device /\ (excused' = excused \/ excused' = TRUE)
      BY <2>2, Zenon DEF ReadToAcknowledge, Acknowledge, ResolveByHand, AutoResolve, SeedRule,
                         history
    <3>. QED BY <3>1
  <2>. QED BY <1>1, <1>2, <2>1, <2>2 DEF Next
<1>3. /\ \/ \E c \in Codes : TrapLost(c)
         \/ \E s \in Slots : ConfirmationFails(s) \/ Die(s)
         \/ \E a \in Alerts : ResolveByHand(a)
         \/ SeedRule
         => excused'
  BY Zenon DEF TrapLost, ConfirmationFails, Die, ResolveByHand, SeedRule, Mishap
<1>. QED BY <1>2, <1>3 DEF vars

\* A step that leaves alone what was read, what it led to, and who applies it.
LEMMA Elsewhere ==
    ASSUME Types, Converging, device = "PAC", ~excused,
           UNCHANGED <<device, ruled, ruleAlert, newest, state>>,
           \A s \in Slots : Applying(s) \/ Applying(s)' => slot'[s] = slot[s],
           newest' = alarm' \/ Due'
    PROVE  Converging'
<1>1. Candidates' = Candidates /\ Existing' = Existing
  BY DEF Candidates, Existing, Sought
<1>2. ByRule => ByRule'
  BY <1>1 DEF ByRule, Applying
<1>3. ByAlert => ByAlert'
  <2>1. \A s \in Slots : /\ Applying(s) => Applying(s)'
                        /\ \A a : Meets(s, a) => Meets(s, a)'
    BY DEF Applying, Meets
  <2>. QED BY <1>1, <2>1 DEF ByAlert, Candidates
<1>. QED BY <1>2, <1>3 DEF Converging

\* The trap, its task and the confirmation hand the news on to one another.
LEMMA NewsKept ==
    ASSUME Types, MoreTypes, [Next]_vars, device = "PAC", ~excused', newest = alarm \/ Due
    PROVE  newest' = alarm' \/ Due'
<1>1. ASSUME NEW c \in Codes, SendTrap(c) \/ Doubled(c) PROVE Due'
  <2>1. traps[c] \in Nat /\ traps' = [traps EXCEPT ![c] = @ + 1]
    BY <1>1 DEF SendTrap, Doubled, MoreTypes
  <2>2. traps'[c] > 0
    BY <2>1 DEF MoreTypes
  <2>. QED BY <2>2 DEF Due
<1>2. ASSUME NEW s \in Slots, NEW c \in Codes, ProcessPac(s, c) \/ Confirm(s, c) PROVE Due'
  <2>1. \/ slot' = [slot EXCEPT ![s] = [IdleSlot EXCEPT !.pc = "stored", !.told = c]]
        \/ slot' = [slot EXCEPT ![s] = [IdleSlot EXCEPT !.pc = "sample", !.told = c]]
    BY <1>2 DEF ProcessPac, Confirm
  <2>2. PICK next : slot' = [slot EXCEPT ![s] = next] /\ next.pc \in {"stored", "sample"}
    <3>1. /\ [IdleSlot EXCEPT !.pc = "stored", !.told = c].pc = "stored"
          /\ [IdleSlot EXCEPT !.pc = "sample", !.told = c].pc = "sample"
      BY DEF IdleSlot
    <3>. QED BY <2>1, <3>1
  <2>3. slot'[s].pc \in {"stored", "sample"}
    BY <2>2, SlotMoves
  <2>. QED BY <2>3 DEF Due
<1>3. ASSUME NEW s \in Slots, QueueConfirmation(s) PROVE Due'
  <2>1. slot[s].told \in Codes
    BY DEF Types, SlotType
  <2>2. confirmations' = [confirmations EXCEPT ![slot[s].told] = @ + 1]
    BY <1>3 DEF QueueConfirmation
  <2>3. confirmations'[slot[s].told] > 0
    BY <2>1, <2>2 DEF MoreTypes
  <2>. QED BY <2>1, <2>3 DEF Due
<1>4. ASSUME NEW s \in Slots, Sample(s) PROVE newest' = alarm'
  BY <1>4 DEF Sample
<1>5. ASSUME UNCHANGED <<alarm, newest, traps, confirmations>>,
             \A s \in Slots : slot[s].pc \in {"stored", "sample"} => slot'[s] = slot[s]
      PROVE  newest' = alarm' \/ Due'
  BY <1>5 DEF Due
<1>6. ASSUME NEW s \in Slots,
             \/ WriteReading(s) \/ Evaluate(s) \/ Select(s) \/ Lock(s) \/ UpdateAlert(s)
             \/ CreateAlert(s) \/ NothingToResolve(s)
      PROVE  newest' = alarm' \/ Due'
  <2>1. UNCHANGED <<alarm, newest, traps, confirmations>>
    BY <1>6, Zenon DEF WriteReading, Evaluate, Select, Lock, UpdateAlert, CreateAlert,
                       NothingToResolve, queues, history
  <2>2. slot[s].pc \notin {"stored", "sample"}
    BY <1>6 DEF WriteReading, Evaluate, Select, Lock, UpdateAlert, CreateAlert, NothingToResolve
  <2>3. \E next : slot' = [slot EXCEPT ![s] = next]
    BY <1>6, Zenon DEF WriteReading, Evaluate, Select, Lock, UpdateAlert, CreateAlert,
                       NothingToResolve
  <2>. QED BY <1>5, <2>1, <2>2, <2>3, SlotMoves
<1>7. ASSUME NEW a \in Alerts, ReadToAcknowledge(a) \/ Acknowledge(a)
      PROVE  newest' = alarm' \/ Due'
  BY <1>5, <1>7 DEF ReadToAcknowledge, Acknowledge, queues, history
<1>8. CASE UNCHANGED vars
  BY <1>5, <1>8 DEF vars
<1>9. (\A s \in Slots, c \in Codes : ~ProcessUps(s, c)) /\ ~AutoResolve
  BY DEF ProcessUps, AutoResolve
<1>10. ASSUME NEW s \in Slots, Run(s) PROVE newest' = alarm' \/ Due'
  BY <1>2, <1>3, <1>4, <1>6, <1>9, <1>10, StepsExcuse DEF Run
<1>. QED BY <1>1, <1>7, <1>8, <1>9, <1>10, StepsExcuse DEF Next

\* Where the news has not changed and a task only goes on with what it read.
LEMMA RuleAside ==
    ASSUME Types, ByRule, UNCHANGED <<device, state, newest, ruleAlert>>,
           NEW s \in Slots, NEW next, slot' = [slot EXCEPT ![s] = next],
           slot[s].pc \in {"write", "fetch"} => next.pc \in {"write", "fetch"},
           next.pc \in {"select", "lock", "decide"} => ~next.on
    PROVE  ByRule'
<1>1. slot'[s] = next /\ \A t \in Slots \ {s} : slot'[t] = slot[t]
  BY SlotMoves
<1>. QED BY <1>1 DEF ByRule, Existing

\* evaluate_latest opens and resolves the rule's alert; the exact one never comes up.
LEMMA RuleKept ==
    ASSUME Types, MoreTypes, Inv, ruled, ByRule, device = "PAC", ~excused', NEW s \in Slots,
           \/ Sample(s) \/ WriteReading(s) \/ Evaluate(s) \/ Select(s) \/ Lock(s)
           \/ UpdateAlert(s) \/ CreateAlert(s) \/ NothingToResolve(s)
    PROVE  ByRule' /\ ruled'
<1>0. slot[s] \in SlotType
  BY DEF Types
<1>1. CASE Sample(s)
  <2> DEFINE next == [slot[s] EXCEPT !.pc = "write", !.on = alarm]
  <2>1. slot' = [slot EXCEPT ![s] = next] /\ next.pc = "write"
    BY <1>0, <1>1 DEF Sample, SlotType
  <2>2. UNCHANGED <<state, ruled>>
    BY <1>1 DEF Sample, rows, rule
  <2>. HIDE DEF next
  <2>3. slot'[s].pc = "write" /\ \A t \in Slots \ {s} : slot'[t] = slot[t]
    BY <2>1, SlotMoves
  <2>. QED BY <2>2, <2>3 DEF ByRule, Existing
<1>2. CASE WriteReading(s)
  <2> DEFINE next == [slot[s] EXCEPT !.pc = "fetch"]
  <2>1. slot' = [slot EXCEPT ![s] = next] /\ next.pc = "fetch"
    BY <1>0, <1>2 DEF WriteReading, SlotType
  <2>2. UNCHANGED <<device, state, newest, ruleAlert, ruled>>
    BY <1>2 DEF WriteReading, rows, history
  <2>. HIDE DEF next
  <2>. QED BY <2>1, <2>2, RuleAside
<1>3. CASE Evaluate(s)
  <2>1. {latest, slot[s].on} = {newest} /\ UNCHANGED <<state, newest, ruled>>
    BY <1>3 DEF Evaluate, rows
  <2>2. latest = newest /\ slot[s].on = newest /\ ruleAlert' = newest'
    <3>1. latest = newest /\ slot[s].on = newest
      BY <2>1
    <3>2. ruleAlert' = (ruled /\ latest) /\ latest \in BOOLEAN
      BY <1>3 DEF Evaluate, MoreTypes
    <3>. QED BY <2>1, <3>1, <3>2
  <2>3. PICK next : /\ slot' = [slot EXCEPT ![s] = next]
                    /\ next.pc \in {"select", "lock", "decide"} => ~next.on
    <3>1. /\ [slot[s] EXCEPT !.pc = "select"].on = slot[s].on
          /\ IdleSlot.pc = "idle"
      BY <1>0 DEF SlotType, IdleSlot
    <3>2. slot' = [slot EXCEPT ![s] = IF latest \/ ruleAlert THEN IdleSlot
                                      ELSE [slot[s] EXCEPT !.pc = "select"]]
      BY <1>3 DEF Evaluate
    <3>. QED BY <2>2, <3>1, <3>2
  <2>4. slot'[s] = next /\ \A t \in Slots \ {s} : slot'[t] = slot[t]
    BY <2>3, SlotMoves
  <2>. QED BY <2>1, <2>2, <2>3, <2>4 DEF ByRule, Existing
<1>4. CASE Select(s)
  <2> DEFINE next == [slot[s] EXCEPT !.pc = "lock", !.seen = Candidates, !.there = Existing]
  <2>1. slot' = [slot EXCEPT ![s] = next] /\ next.on = slot[s].on
    BY <1>0, <1>4 DEF Select, SlotType
  <2>2. UNCHANGED <<device, state, newest, ruleAlert, ruled>> /\ slot[s].pc = "select"
    BY <1>4 DEF Select, rows, rule, history
  <2>3. ~slot[s].on
    BY <2>2 DEF ByRule
  <2>. HIDE DEF next
  <2>. QED BY <2>1, <2>2, <2>3, RuleAside
<1>5. CASE Lock(s)
  <2>1. PICK next : slot' = [slot EXCEPT ![s] = next] /\ next.on = slot[s].on
    <3>1. PICK a \in Alerts :
             \/ slot' = [slot EXCEPT ![s] = [slot[s] EXCEPT !.pc = "decide", !.alert = a,
                                                            !.was = occurrences[a]]]
             \/ slot' = [slot EXCEPT ![s] = [slot[s] EXCEPT !.seen = @ \ {a}]]
      BY <1>5 DEF Lock
    <3>2. /\ [slot[s] EXCEPT !.pc = "decide", !.alert = a, !.was = occurrences[a]].on = slot[s].on
          /\ [slot[s] EXCEPT !.seen = @ \ {a}].on = slot[s].on
      BY <1>0 DEF SlotType
    <3>. QED BY <3>1, <3>2
  <2>2. UNCHANGED <<device, state, newest, ruleAlert, ruled>> /\ slot[s].pc = "lock"
    BY <1>5 DEF Lock, rule, history
  <2>3. ~slot[s].on
    BY <2>2 DEF ByRule
  <2>. QED BY <2>1, <2>2, <2>3, RuleAside
<1>6. ~UpdateAlert(s) /\ ~CreateAlert(s)
  BY DEF UpdateAlert, CreateAlert, ByRule, Inv
<1>7. CASE NothingToResolve(s)
  <2>1. slot' = [slot EXCEPT ![s] = IdleSlot] /\ IdleSlot.pc = "idle"
    BY <1>7 DEF NothingToResolve, IdleSlot
  <2>2. UNCHANGED <<device, state, newest, ruleAlert, ruled>> /\ slot[s].pc = "lock"
    BY <1>7 DEF NothingToResolve, rows, rule
  <2>. QED BY <2>1, <2>2, RuleAside
<1>. QED BY <1>1, <1>2, <1>3, <1>4, <1>5, <1>6, <1>7

\* Without a rule: the exact alert is opened by an alarm and resolved by the next
\* reading that finds none.
LEMMA AlertKept ==
    ASSUME Types, MoreTypes, Inv, HeldActive, ~ruled, ByAlert, device = "PAC", ~excused',
           NEW s \in Slots,
           \/ Sample(s) \/ WriteReading(s) \/ Evaluate(s) \/ Select(s) \/ Lock(s)
           \/ UpdateAlert(s) \/ CreateAlert(s) \/ NothingToResolve(s)
    PROVE  ByAlert' /\ ~ruled'
<1>0. slot[s] \in SlotType
  BY DEF Types
\* A task that goes on to meet whatever is open.
<1>a. ASSUME UNCHANGED <<device, state>>, ~ruleAlert',
             NEW next, slot' = [slot EXCEPT ![s] = next],
             \/ next.pc \in {"write", "fetch", "select"}
             \/ next.pc = "lock" /\ Candidates \subseteq next.seen
      PROVE  ByAlert'
  <2>1. Candidates' = Candidates
    BY <1>a DEF Candidates, Sought
  <2>2. slot'[s] = next
    BY <1>a, SlotMoves
  <2>3. Applying(s)' /\ \A a \in Candidates : Meets(s, a)'
    BY <1>a, <2>2 DEF Applying, Meets
  <2>. QED BY <1>a, <2>1, <2>3 DEF ByAlert
<1>1. CASE Sample(s)
  <2> DEFINE next == [slot[s] EXCEPT !.pc = "write", !.on = alarm]
  <2>1. slot' = [slot EXCEPT ![s] = next] /\ next.pc = "write"
    BY <1>0, <1>1 DEF Sample, SlotType
  <2>2. UNCHANGED <<device, state, ruled, ruleAlert>> /\ ~ruleAlert
    BY <1>1 DEF Sample, rows, rule, ByAlert
  <2>. HIDE DEF next
  <2>. QED BY <1>a, <2>1, <2>2
<1>2. CASE WriteReading(s)
  <2> DEFINE next == [slot[s] EXCEPT !.pc = "fetch"]
  <2>1. slot' = [slot EXCEPT ![s] = next] /\ next.pc = "fetch"
    BY <1>0, <1>2 DEF WriteReading, SlotType
  <2>2. UNCHANGED <<device, state, ruled, ruleAlert>> /\ ~ruleAlert
    BY <1>2 DEF WriteReading, rows, ByAlert
  <2>. HIDE DEF next
  <2>. QED BY <1>a, <2>1, <2>2
<1>3. CASE Evaluate(s)
  <2> DEFINE next == [slot[s] EXCEPT !.pc = "select"]
  <2>1. slot' = [slot EXCEPT ![s] = next] /\ next.pc = "select"
    BY <1>0, <1>3 DEF Evaluate, SlotType
  <2>2. UNCHANGED <<device, state, ruled>> /\ ~ruleAlert'
    BY <1>3 DEF Evaluate, rows
  <2>. HIDE DEF next
  <2>. QED BY <1>a, <2>1, <2>2
<1>4. CASE Select(s)
  <2> DEFINE next == [slot[s] EXCEPT !.pc = "lock", !.seen = Candidates, !.there = Existing]
  <2>1. slot' = [slot EXCEPT ![s] = next] /\ next.pc = "lock" /\ next.seen = Candidates
    BY <1>0, <1>4 DEF Select, SlotType
  <2>2. UNCHANGED <<device, state, ruled, ruleAlert>> /\ ~ruleAlert
    BY <1>4 DEF Select, rows, rule, ByAlert
  <2>. HIDE DEF next
  <2>. QED BY <1>a, <2>1, <2>2
<1>5. CASE Lock(s)
  <2>1. UNCHANGED <<device, state, newest, ruleAlert, ruled>> /\ slot[s].pc = "lock"
    BY <1>5 DEF Lock, rule, history
  <2>2. Candidates' = Candidates
    BY <2>1 DEF Candidates, Sought
  <2>3. PICK a \in Alerts :
           IF state[a] \in Sought
             THEN slot' = [slot EXCEPT ![s] = [slot[s] EXCEPT !.pc = "decide", !.alert = a,
                                                              !.was = occurrences[a]]]
             ELSE slot' = [slot EXCEPT ![s] = [slot[s] EXCEPT !.seen = @ \ {a}]]
    BY <1>5, Zenon DEF Lock
  <2>4. PICK next : /\ slot' = [slot EXCEPT ![s] = next]
                    /\ \/ next.pc = "decide" /\ next.alert = a /\ a \in Candidates
                       \/ /\ next.pc = "lock" /\ next.seen = slot[s].seen \ {a}
                          /\ a \notin Candidates
    <3>1. [slot[s] EXCEPT !.pc = "decide", !.alert = a, !.was = occurrences[a]].pc = "decide"
          /\ [slot[s] EXCEPT !.pc = "decide", !.alert = a, !.was = occurrences[a]].alert = a
      BY <1>0 DEF SlotType
    <3>2. /\ [slot[s] EXCEPT !.seen = @ \ {a}].pc = "lock"
          /\ [slot[s] EXCEPT !.seen = @ \ {a}].seen = slot[s].seen \ {a}
      BY <1>0, <2>1 DEF SlotType
    <3>. QED BY <2>3, <3>1, <3>2 DEF Candidates
  <2>5. slot'[s] = next /\ \A t \in Slots \ {s} : slot'[t] = slot[t]
    BY <2>4, SlotMoves
  <2>6. \A t \in Slots, c \in Candidates : Meets(t, c) => Meets(t, c)'
    <3>1. \A c \in Candidates : Meets(s, c) => Meets(s, c)'
      BY <2>1, <2>4, <2>5 DEF Meets, ByAlert
    <3>2. \A t \in Slots \ {s}, c \in Candidates : Meets(t, c) => Meets(t, c)'
      BY <2>5 DEF Meets
    <3>. QED BY <3>1, <3>2
  <2>7. Applying(s)'
    BY <2>4, <2>5 DEF Applying
  <2>. QED BY <2>1, <2>2, <2>6, <2>7 DEF ByAlert
<1>6. CASE UpdateAlert(s)
  <2> DEFINE a == slot[s].alert
  <2>1. slot' = [slot EXCEPT ![s] = IdleSlot]
        /\ UNCHANGED <<device, newest, ruleAlert, ruled>> /\ slot[s].pc = "decide"
    BY <1>6 DEF UpdateAlert, rule
  <2>2. slot[s].on = newest
    BY <1>6 DEF UpdateAlert, ExcuseStale
  <2>3. state' = IF slot[s].on THEN state ELSE [state EXCEPT ![a] = "RESOLVED"]
    BY <1>6 DEF UpdateAlert
  <2>4. \A t \in Slots \ {s} : slot'[t] = slot[t]
    BY <2>1, SlotMoves
  <2>5. a \in Alerts /\ state[a] \in Active
    BY <2>1 DEF HeldActive, Inv, Existing
  <2>6. CASE newest
    BY <2>1, <2>2, <2>3, <2>5, <2>6 DEF ByAlert, Candidates, Sought
  <2>7. CASE ~newest
    <3>1. state' = [state EXCEPT ![a] = "RESOLVED"]
      BY <2>2, <2>3, <2>7
    <3>2. Candidates' \subseteq Candidates \ {a}
      BY <2>1, <2>5, <3>1 DEF Types, Candidates, Sought
    <3>3. ASSUME NEW c \in Candidates \ {a} PROVE \E t \in Slots : Meets(t, c)'
      <4>1. PICK t \in Slots : Meets(t, c)
        BY <2>7 DEF ByAlert
      <4>2. t # s
        BY <2>1, <3>3, <4>1 DEF Meets
      <4>. QED BY <2>4, <4>1, <4>2 DEF Meets
    <3>. QED BY <2>1, <2>7, <3>2, <3>3 DEF ByAlert
  <2>. QED BY <2>1, <2>6, <2>7
<1>7. CASE CreateAlert(s)
  <2>1. newest /\ newest' = newest /\ Candidates = {} /\ UNCHANGED <<device, ruleAlert, ruled>>
    BY <1>7 DEF CreateAlert, rule
  <2>2. PICK a \in Alerts : state' = [state EXCEPT ![a] = "OPEN"]
    BY <1>7 DEF CreateAlert
  <2>3. state'[a] = "OPEN" /\ Candidates' = {a}
    BY <2>1, <2>2 DEF Types, Candidates, Sought
  <2>. QED BY <2>1, <2>3 DEF ByAlert, Active
<1>8. CASE NothingToResolve(s)
  <2>1. UNCHANGED <<device, state, newest, ruleAlert, ruled>>
        /\ slot' = [slot EXCEPT ![s] = IdleSlot] /\ slot[s].pc = "lock" /\ slot[s].seen = {}
    BY <1>8 DEF NothingToResolve, rows, rule
  <2>2. ~newest
    BY <1>8 DEF NothingToResolve, ExcuseStale
  <2>3. \A t \in Slots \ {s} : slot'[t] = slot[t]
    BY <2>1, SlotMoves
  <2>4. Candidates' = Candidates
    BY <2>1 DEF Candidates, Sought
  <2>5. \A t \in Slots, c \in Candidates : Meets(t, c) => Meets(t, c)'
    BY <2>1, <2>3 DEF Meets
  <2>. QED BY <2>1, <2>2, <2>4, <2>5 DEF ByAlert
<1>. QED BY <1>1, <1>2, <1>3, <1>4, <1>5, <1>6, <1>7, <1>8

LEMMA ConvergingKept ==
    ASSUME TrapAssumption, Types, Inv, ConvInv, [Next]_vars
    PROVE  ConvInv'
<1>. USE DEF ConvInv
<1>1. MoreTypes' /\ HeldActive'
  BY MoreTypesKept, HeldActiveKept
<1>2. SUFFICES ASSUME device = "PAC", ~excused', ~excused PROVE Converging'
  BY <1>1, StepsExcuse DEF Converging
<1>3. newest' = alarm' \/ Due'
  BY <1>2, NewsKept DEF Converging
<1>4. IF ruled THEN ByRule ELSE ByAlert
  BY <1>2 DEF Converging
<1>5. device' = "PAC"
  BY <1>2, StepsExcuse
<1>6. ASSUME NEW c \in Codes, SendTrap(c) \/ Doubled(c) PROVE Converging'
  <2>1. UNCHANGED <<device, ruled, ruleAlert, newest, state, slot>>
    BY <1>6 DEF SendTrap, Doubled, rule, rows, history
  <2>. QED BY <1>2, <1>3, <2>1, Elsewhere
<1>7. ASSUME NEW s \in Slots, NEW c \in Codes, ProcessPac(s, c) \/ Confirm(s, c)
      PROVE  Converging'
  <2>1. UNCHANGED <<device, ruled, ruleAlert, newest, state>> /\ slot[s].pc = "idle"
    BY <1>7 DEF ProcessPac, Confirm, rule, rows, history
  <2>2. PICK next : slot' = [slot EXCEPT ![s] = next] /\ next.pc \in {"stored", "sample"}
    <3>1. /\ [IdleSlot EXCEPT !.pc = "stored", !.told = c].pc = "stored"
          /\ [IdleSlot EXCEPT !.pc = "sample", !.told = c].pc = "sample"
      BY DEF IdleSlot
    <3>2. \/ slot' = [slot EXCEPT ![s] = [IdleSlot EXCEPT !.pc = "stored", !.told = c]]
          \/ slot' = [slot EXCEPT ![s] = [IdleSlot EXCEPT !.pc = "sample", !.told = c]]
      BY <1>7 DEF ProcessPac, Confirm
    <3>. QED BY <3>1, <3>2
  <2>3. \A t \in Slots : Applying(t) \/ Applying(t)' => slot'[t] = slot[t]
    BY <2>1, <2>2, SlotMoves DEF Applying
  <2>. QED BY <1>2, <1>3, <2>1, <2>3, Elsewhere
<1>8. ASSUME NEW s \in Slots, QueueConfirmation(s) PROVE Converging'
  <2>1. /\ UNCHANGED <<device, ruled, ruleAlert, newest, state>> /\ slot[s].pc = "stored"
        /\ slot' = [slot EXCEPT ![s] = IdleSlot] /\ IdleSlot.pc = "idle"
    BY <1>8 DEF QueueConfirmation, rule, rows, history, IdleSlot
  <2>2. \A t \in Slots : Applying(t) \/ Applying(t)' => slot'[t] = slot[t]
    BY <2>1, SlotMoves DEF Applying
  <2>. QED BY <1>2, <1>3, <2>1, <2>2, Elsewhere
<1>9. ASSUME NEW s \in Slots,
             \/ Sample(s) \/ WriteReading(s) \/ Evaluate(s) \/ Select(s) \/ Lock(s)
             \/ UpdateAlert(s) \/ CreateAlert(s) \/ NothingToResolve(s)
      PROVE  Converging'
  <2>1. CASE ruled
    <3>1. ByRule' /\ ruled'
      BY <1>2, <1>4, <1>9, <2>1, RuleKept
    <3>. QED BY <1>3, <3>1 DEF Converging
  <2>2. CASE ~ruled
    <3>1. ByAlert' /\ ~ruled'
      BY <1>2, <1>4, <1>9, <2>2, AlertKept
    <3>. QED BY <1>3, <3>1 DEF Converging
  <2>. QED BY <2>1, <2>2
<1>a. ASSUME NEW a \in Alerts, ReadToAcknowledge(a) PROVE Converging'
  <2>1. UNCHANGED <<device, ruled, ruleAlert, newest, state, slot>>
    BY <1>a DEF ReadToAcknowledge, rule, rows, history
  <2>. QED BY <1>2, <1>3, <2>1, Elsewhere
<1>10. ASSUME NEW a \in Alerts, Acknowledge(a) PROVE Converging'
  <2>1. /\ UNCHANGED <<device, ruled, ruleAlert, newest, slot>> /\ a \in Existing
        /\ state' = [state EXCEPT ![a] = "ACKNOWLEDGED"]
    BY <1>10 DEF Acknowledge, rule, history, Inv
  <2>2. ~ByRule
    BY <2>1 DEF ByRule, Existing
  <2>3. Candidates' \subseteq Candidates /\ state'[a] \in Active
    BY <1>2, <2>1 DEF Types, Candidates, Sought, Active
  <2>4. ByAlert'
    BY <1>4, <2>1, <2>2, <2>3 DEF ByAlert, Meets
  <2>. QED BY <1>3, <1>4, <2>1, <2>2, <2>4 DEF Converging
<1>11. CASE UNCHANGED vars
  BY <1>2, <1>3, <1>11, Elsewhere DEF vars
<1>12. (\A s \in Slots, c \in Codes : ~ProcessUps(s, c)) /\ ~AutoResolve
  BY <1>2 DEF ProcessUps, AutoResolve
<1>13. ASSUME NEW s \in Slots, Run(s) PROVE Converging'
  BY <1>2, <1>7, <1>8, <1>9, <1>12, <1>13, StepsExcuse DEF Run
<1>. QED BY <1>2, <1>6, <1>a, <1>10, <1>11, <1>12, <1>13, StepsExcuse DEF Next

\* Traps may come late, twice or out of order (UDP, the queue, process_pac_trap_alarm_-
\* confirmation): once all are dealt with, the alerts of a PAC say what it does, unless
\* something that is excused has happened.
THEOREM AlertsConverge == ASSUME TrapAssumption PROVE Spec => []TrapsConverge
<1>1. Init => Types /\ Inv /\ ConvInv
  <2>1. ASSUME Init PROVE ConvInv
    <3>1. \A s \in Slots : slot[s].pc = "idle"
      BY <2>1 DEF Init, IdleSlot
    <3>2. MoreTypes
      BY <2>1 DEF Init, MoreTypes, None
    <3>3. Existing = {} /\ Candidates = {}
      BY <2>1 DEF Init, Existing, Candidates, Sought, Active
    <3>. QED BY <2>1, <3>1, <3>2, <3>3 DEF Init, ConvInv, HeldActive, Converging, ByRule, ByAlert
  <2>. QED BY <2>1, Initially
<1>2. Types /\ Inv /\ ConvInv /\ [Next]_vars => (Types /\ Inv /\ ConvInv)'
  BY NextKeeps, ConvergingKept
<1>3. ConvInv => TrapsConverge
  <2>1. SUFFICES ASSUME ConvInv, device = "PAC", ~excused, traps = None, confirmations = None,
                        \A s \in Slots : slot[s].pc = "idle"
                 PROVE  IF alarm THEN ruleAlert \/ \E a \in Alerts : state[a] \in Active
                        ELSE ~ruleAlert /\ Candidates = {}
    BY DEF TrapsConverge
  <2>2. ~Due
    BY <2>1 DEF Due, None
  <2>3. \A s \in Slots : ~Applying(s) /\ \A a \in Alerts : ~Meets(s, a)
    BY <2>1 DEF Applying, Meets
  <2>4. newest = alarm /\ IF ruled THEN ByRule ELSE ByAlert
    BY <2>1, <2>2 DEF ConvInv, Converging
  <2>5. Candidates \subseteq Existing /\ Candidates \subseteq Alerts
    BY DEF Candidates, Existing, Sought, Active
  <2>6. CASE ruled
    BY <2>1, <2>4, <2>5, <2>6 DEF ByRule
  <2>7. CASE ~ruled
    BY <2>3, <2>4, <2>5, <2>7 DEF ByAlert
  <2>. QED BY <2>6, <2>7
<1>. QED BY <1>1, <1>2, <1>3, PTL DEF Spec
=============================================================================
