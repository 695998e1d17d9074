------------------------- MODULE AlertEngine_proofs -------------------------
(***************************************************************************)
(* Proofs about AlertEngine, for every set of evaluators and users, every  *)
(* number of alerts and every budget of the surroundings.                  *)
(***************************************************************************)
EXTENDS AlertEngine, TLAPS

EvTypes == [pc : Pcs, cond : BOOLEAN, seen : SUBSET Alerts,
            alert : Alerts \cup {NoAlert}, found : Ages \cup {"gone"}, effect : Effects]

UserTypes == [op : {"idle", "acknowledge", "resolve"}, alert : Alerts \cup {NoAlert}]

-----------------------------------------------------------------------------
(* The inductive invariant.                                                *)

\* Between the reading's write and the commit.
Evaluating == {"select", "lock", "decide", "track", "commit"}

\* An evaluator whose statement found no alert, or has not found one yet: it
\* may go on to open one.
Looking(x) ==
    \/ x.pc = "lock"
    \/ x.pc = "decide" /\ x.alert = NoAlert
    \/ x.pc = "track"
    \/ x.effect = "open"

\* An active alert that some evaluator of e's lane opened.
Own(a, e) == a \in Active /\ opener[a] # NoOne /\ SameLane(opener[a], e)

\* The locals of an evaluator, and the locks it holds.
LocalOK(e) ==
    /\ ev[e].effect # "none" => ev[e].pc = "commit"
    /\ ev[e].effect = "open" => ev[e].alert \in Alerts /\ status[ev[e].alert] = "NONE"
    /\ ev[e].pc \notin {"decide", "commit"} => ev[e].alert = NoAlert
    /\ ev[e].effect # "open" /\ ev[e].alert # NoAlert => holder[ev[e].alert] = e
    /\ ev[e].pc = "fetch" => e \notin SnmpPolls
    /\ ev[e].pc \in Evaluating /\ e \in SnmpPolls => readingHolder = e

\* Whoever may open an alert has every alert of its lane among its candidates,
\* and opens one only when none is left.
LooksRight(e) ==
    Looking(ev[e]) =>
        /\ \A a \in Alerts : Own(a, e) => a \in ev[e].seen
        /\ ev[e].pc # "lock" => ev[e].seen = {}

\* Two evaluators never insert the same row.
DistinctNew ==
    \A e, f \in Evaluators :
        ev[e].effect = "open" /\ ev[f].effect = "open" /\ e # f
            => ev[e].alert # ev[f].alert

\* Only active alerts have an opener: a revived one has lost it.
OpenerActive == \A a \in Alerts : opener[a] # NoOne => a \in Active

IInv ==
    /\ TypeOK
    /\ \A e \in Evaluators : LocalOK(e)
    /\ \A e \in Evaluators : LooksRight(e)
    /\ DistinctNew
    /\ OpenerActive
    /\ LockedActive
    /\ OneActivePerLane

-----------------------------------------------------------------------------
(* Types.                                                                  *)

LEMMA InitTypeOK == Init => TypeOK
  <1> SUFFICES ASSUME Init PROVE TypeOK
    OBVIOUS
  <1>1. IdleEvaluator \in EvTypes
    BY DEF IdleEvaluator, EvTypes, Pcs, Ages, Effects
  <1>2. IdleUser \in UserTypes
    BY DEF IdleUser, UserTypes
  <1>3. ev \in [Evaluators -> EvTypes] /\ user \in [Users -> UserTypes]
    BY <1>1, <1>2 DEF Init
  <1>4. flips \in 0 .. MaxFlips /\ calls \in 0 .. MaxCalls /\ deaths \in 0 .. MaxDeaths
    BY EngineAssumption DEF Init
  <1>5. /\ status \in [Alerts -> Statuses \cup {"NONE", "DELETED"}]
        /\ holder \in [Alerts -> Evaluators \cup {NoOne}]
        /\ opener \in [Alerts -> Evaluators \cup {NoOne}]
    BY DEF Init
  <1>6. QED
    BY <1>3, <1>4, <1>5 DEF Init, TypeOK, EvTypes, UserTypes, Ages

(* The record each step of an evaluator leaves is well typed.              *)
LEMMA RecordType ==
    ASSUME TypeOK, NEW e \in Evaluators
    PROVE  /\ ev[e] \in EvTypes
           /\ \A c \in BOOLEAN, p \in Pcs :
                  [ev[e] EXCEPT !.pc = p, !.cond = c] \in EvTypes
           /\ \A p \in Pcs : [ev[e] EXCEPT !.pc = p] \in EvTypes
           /\ \A S \in SUBSET Alerts : [ev[e] EXCEPT !.seen = S] \in EvTypes
           /\ \A p \in Pcs, S \in SUBSET Alerts :
                  [ev[e] EXCEPT !.pc = p, !.seen = S] \in EvTypes
           /\ \A p \in Pcs, S \in SUBSET Alerts, a \in Alerts \cup {NoAlert} :
                  [ev[e] EXCEPT !.pc = p, !.seen = S, !.alert = a] \in EvTypes
           /\ \A p \in Pcs, g \in Effects :
                  [ev[e] EXCEPT !.pc = p, !.effect = g] \in EvTypes
           /\ \A p \in Pcs, g \in Effects, a \in Alerts \cup {NoAlert} :
                  [ev[e] EXCEPT !.pc = p, !.effect = g, !.alert = a] \in EvTypes
           /\ \A g \in Ages \cup {"gone"} : [ev[e] EXCEPT !.found = g] \in EvTypes
           /\ \A p \in Pcs, g \in Ages \cup {"gone"} :
                  [ev[e] EXCEPT !.pc = p, !.found = g] \in EvTypes
  BY DEF TypeOK, EvTypes

(* What the steps of an evaluator before its commit have in common.        *)
LEMMA LocalType ==
    ASSUME TypeOK, NEW e \in Evaluators, NEW x \in EvTypes, ev' = [ev EXCEPT ![e] = x],
           status' = status, condState' = condState,
           UNCHANGED <<world, api, deaths, history>>,
           reading' \in BOOLEAN,
           holder' \in [Alerts -> Evaluators \cup {NoOne}],
           condHolder' \in Evaluators \cup {NoOne},
           readingHolder' \in Evaluators \cup {NoOne}
    PROVE  TypeOK'
  <1>1. ev' \in [Evaluators -> EvTypes]
    BY DEF TypeOK, EvTypes
  <1>2. QED
    BY <1>1 DEF TypeOK, EvTypes, world, api, history

LEMMA IdleType == IdleEvaluator \in EvTypes /\ IdleUser \in UserTypes
  BY DEF IdleEvaluator, IdleUser, EvTypes, UserTypes, Pcs, Ages, Effects

-----------------------------------------------------------------------------
(* Steps that leave the alerts alone.                                      *)

(* What an evaluator keeps while others act.                               *)
LEMMA Frame ==
    ASSUME IInv, NEW f \in Evaluators,
           ev'[f].pc = ev[f].pc, ev'[f].seen = ev[f].seen,
           ev'[f].alert = ev[f].alert, ev'[f].effect = ev[f].effect,
           \A a \in Alerts : holder[a] = f => holder'[a] = f,
           readingHolder = f => readingHolder' = f,
           \A a \in Alerts : ev[f].effect = "open" /\ ev[f].alert = a
                => status'[a] = status[a],
           \A a \in Alerts : Looking(ev[f]) /\ Own(a, f)' => Own(a, f)
    PROVE  LocalOK(f)' /\ LooksRight(f)'
  <1>1. LocalOK(f) /\ LooksRight(f) /\ ev[f] \in EvTypes
    BY RecordType DEF IInv
  <1>2. LocalOK(f)'
    BY <1>1 DEF LocalOK, EvTypes, NoAlert
  <1>3. LooksRight(f)'
    BY <1>1 DEF LooksRight, Looking
  <1>4. QED
    BY <1>2, <1>3

(* An evaluator before its commit: its locals become x, and it may take    *)
(* locks that are free.                                                    *)
OwnMove(e, x) ==
    /\ x \in EvTypes
    /\ ev' = [ev EXCEPT ![e] = x]
    /\ status' = status /\ condState' = condState
    /\ UNCHANGED <<world, api, deaths, history>>
    /\ reading' \in BOOLEAN
    /\ condHolder' \in Evaluators \cup {NoOne}
    /\ \/ readingHolder' = readingHolder
       \/ readingHolder = NoOne /\ readingHolder' = e
    /\ \/ holder' = holder
       \/ \E a \in Active : holder[a] = NoOne /\ holder' = [holder EXCEPT ![a] = e]

\* What it knows of the alerts of its lane, should it go on to open one.
MayLook(e, x) ==
    Looking(x) => /\ \A a \in Alerts : Own(a, e) => a \in x.seen
                  /\ x.pc # "lock" => x.seen = {}

(* That keeps the invariant if its own part of it holds afterwards.        *)
LEMMA LocalStep ==
    ASSUME IInv, NEW e \in Evaluators, NEW x, OwnMove(e, x), LocalOK(e)', MayLook(e, x),
           x.effect = "open" =>
                \A f \in Evaluators \ {e} : ev[f].effect = "open" => ev[f].alert # x.alert
    PROVE  IInv'
  <1> USE DEF IInv, OwnMove
  <1>1. ev \in [Evaluators -> EvTypes]
    BY DEF TypeOK, EvTypes
  <1>2. ev'[e] = x /\ \A f \in Evaluators \ {e} : ev'[f] = ev[f]
    BY <1>1
  <1>3. Active' = Active /\ Active \subseteq Alerts /\ opener' = opener
    BY DEF Active, history
  <1>4. \A f \in Evaluators, a \in Alerts : Own(a, f)' = Own(a, f)
    BY <1>3 DEF Own
  <1>5. /\ holder' \in [Alerts -> Evaluators \cup {NoOne}]
        /\ \A a \in Alerts : \/ holder'[a] = holder[a]
                             \/ holder[a] = NoOne /\ a \in Active
    BY <1>3 DEF TypeOK
  <1>6. TypeOK'
    BY <1>5, LocalType DEF TypeOK
  <1>7. \A f \in Evaluators \ {e} : LocalOK(f)' /\ LooksRight(f)'
    <2> SUFFICES ASSUME NEW f \in Evaluators \ {e} PROVE LocalOK(f)' /\ LooksRight(f)'
      OBVIOUS
    <2>1. f # NoOne
      BY EngineAssumption
    <2>2. QED
      BY <1>2, <1>4, <1>5, <2>1, Frame
  <1>8. LooksRight(e)'
    BY <1>2, <1>4 DEF LooksRight, MayLook
  <1>9. DistinctNew'
    BY <1>2 DEF DistinctNew
  <1>10. OpenerActive' /\ OneActivePerLane'
    BY <1>3 DEF OpenerActive, OneActivePerLane
  <1>11. LockedActive'
    BY <1>3, <1>5 DEF LockedActive
  <1>12. QED
    BY <1>6, <1>7, <1>8, <1>9, <1>10, <1>11

LEMMA SampleStep ==
    ASSUME IInv, NEW e \in Evaluators, Sample(e)
    PROVE  IInv'
  <1> DEFINE x == [ev[e] EXCEPT !.pc = "sampled", !.cond = bad]
  <1>1. LocalOK(e) /\ LooksRight(e) /\ ev[e] \in EvTypes
    BY RecordType DEF IInv
  <1>2. x \in EvTypes
    BY RecordType DEF IInv, TypeOK, Pcs, Effects, Ages
  <1>3. ev' = [ev EXCEPT ![e] = x] /\ ev'[e] = x
    BY DEF Sample, IInv, TypeOK
  <1>4. /\ x.pc = "sampled"
        /\ x.seen = ev[e].seen
        /\ x.alert = ev[e].alert
        /\ x.effect = ev[e].effect
    BY <1>1 DEF EvTypes
  <1> HIDE DEF x
  <1>5. LocalOK(e)'
    BY <1>1, <1>3, <1>4 DEF Sample, LocalOK, Evaluating, rows, latest, EvTypes
  <1>6. MayLook(e, x)
    BY <1>1, <1>4 DEF Sample, MayLook, LooksRight, Looking, LocalOK, Own
  <1>7. x.effect # "open"
    BY <1>1, <1>4 DEF Sample, LocalOK
  <1>8. OwnMove(e, x)
    BY <1>2, <1>3 DEF Sample, OwnMove, rows, latest, IInv, TypeOK
  <1>9. QED
    BY <1>5, <1>6, <1>7, <1>8, LocalStep

LEMMA SaveInTransactionStep ==
    ASSUME IInv, NEW e \in Evaluators, SaveInTransaction(e)
    PROVE  IInv'
  <1> DEFINE x == [ev[e] EXCEPT !.pc = "select"]
  <1>1. LocalOK(e) /\ LooksRight(e) /\ ev[e] \in EvTypes
    BY RecordType DEF IInv
  <1>2. x \in EvTypes
    BY RecordType DEF IInv, TypeOK, Pcs, Effects, Ages
  <1>3. ev' = [ev EXCEPT ![e] = x] /\ ev'[e] = x
    BY DEF SaveInTransaction, IInv, TypeOK
  <1>4. /\ x.pc = "select"
        /\ x.seen = ev[e].seen
        /\ x.alert = ev[e].alert
        /\ x.effect = ev[e].effect
    BY <1>1 DEF EvTypes
  <1> HIDE DEF x
  <1>5. LocalOK(e)'
    BY <1>1, <1>3, <1>4 DEF SaveInTransaction, LocalOK, Evaluating, rows, latest, EvTypes
  <1>6. MayLook(e, x)
    BY <1>1, <1>4 DEF SaveInTransaction, MayLook, LooksRight, Looking, LocalOK, Own
  <1>7. x.effect # "open"
    BY <1>1, <1>4 DEF SaveInTransaction, LocalOK
  <1>8. OwnMove(e, x)
    BY <1>2, <1>3 DEF SaveInTransaction, OwnMove, rows, latest, IInv, TypeOK
  <1>9. QED
    BY <1>5, <1>6, <1>7, <1>8, LocalStep

LEMMA SaveReadingStep ==
    ASSUME IInv, NEW e \in Evaluators, SaveReading(e)
    PROVE  IInv'
  <1> DEFINE x == [ev[e] EXCEPT !.pc = "fetch"]
  <1>1. LocalOK(e) /\ LooksRight(e) /\ ev[e] \in EvTypes
    BY RecordType DEF IInv
  <1>2. x \in EvTypes
    BY RecordType DEF IInv, TypeOK, Pcs, Effects, Ages
  <1>3. ev' = [ev EXCEPT ![e] = x] /\ ev'[e] = x
    BY DEF SaveReading, IInv, TypeOK
  <1>4. /\ x.pc = "fetch"
        /\ x.seen = ev[e].seen
        /\ x.alert = ev[e].alert
        /\ x.effect = ev[e].effect
    BY <1>1 DEF EvTypes
  <1> HIDE DEF x
  <1>5. LocalOK(e)'
    BY <1>1, <1>3, <1>4 DEF SaveReading, LocalOK, Evaluating, rows, latest, EvTypes
  <1>6. MayLook(e, x)
    BY <1>1, <1>4 DEF SaveReading, MayLook, LooksRight, Looking, LocalOK, Own
  <1>7. x.effect # "open"
    BY <1>1, <1>4 DEF SaveReading, LocalOK
  <1>8. OwnMove(e, x)
    BY <1>2, <1>3 DEF SaveReading, OwnMove, rows, latest, IInv, TypeOK
  <1>9. QED
    BY <1>5, <1>6, <1>7, <1>8, LocalStep

LEMMA FetchReadingStep ==
    ASSUME IInv, NEW e \in Evaluators, FetchReading(e)
    PROVE  IInv'
  <1> DEFINE x == [ev[e] EXCEPT !.pc = "select", !.cond = reading]
  <1>1. LocalOK(e) /\ LooksRight(e) /\ ev[e] \in EvTypes
    BY RecordType DEF IInv
  <1>2. x \in EvTypes
    BY RecordType DEF IInv, TypeOK, Pcs, Effects, Ages
  <1>3. ev' = [ev EXCEPT ![e] = x] /\ ev'[e] = x
    BY DEF FetchReading, IInv, TypeOK
  <1>4. /\ x.pc = "select"
        /\ x.seen = ev[e].seen
        /\ x.alert = ev[e].alert
        /\ x.effect = ev[e].effect
    BY <1>1 DEF EvTypes
  <1> HIDE DEF x
  <1>5. LocalOK(e)'
    BY <1>1, <1>3, <1>4 DEF FetchReading, LocalOK, Evaluating, rows, latest, EvTypes
  <1>6. MayLook(e, x)
    BY <1>1, <1>4 DEF FetchReading, MayLook, LooksRight, Looking, LocalOK, Own
  <1>7. x.effect # "open"
    BY <1>1, <1>4 DEF FetchReading, LocalOK
  <1>8. OwnMove(e, x)
    BY <1>2, <1>3 DEF FetchReading, OwnMove, rows, latest, IInv, TypeOK
  <1>9. QED
    BY <1>5, <1>6, <1>7, <1>8, LocalStep

LEMMA SelectStep ==
    ASSUME IInv, NEW e \in Evaluators, Select(e)
    PROVE  IInv'
  <1> DEFINE x == [ev[e] EXCEPT !.pc = "lock", !.seen = Active]
  <1>1. LocalOK(e) /\ LooksRight(e) /\ ev[e] \in EvTypes
    BY RecordType DEF IInv
  <1>2. x \in EvTypes
    BY RecordType DEF IInv, TypeOK, Pcs, Effects, Ages, Active
  <1>3. ev' = [ev EXCEPT ![e] = x] /\ ev'[e] = x
    BY DEF Select, IInv, TypeOK
  <1>4. /\ x.pc = "lock"
        /\ x.seen = Active
        /\ x.alert = ev[e].alert
        /\ x.effect = ev[e].effect
    BY <1>1 DEF EvTypes
  <1> HIDE DEF x
  <1>5. LocalOK(e)'
    BY <1>1, <1>3, <1>4 DEF Select, LocalOK, Evaluating, rows, latest, EvTypes
  <1>6. MayLook(e, x)
    BY <1>1, <1>4 DEF Select, MayLook, LooksRight, Looking, LocalOK, Own
  <1>7. x.effect # "open"
    BY <1>1, <1>4 DEF Select, LocalOK
  <1>8. OwnMove(e, x)
    BY <1>2, <1>3 DEF Select, OwnMove, rows, latest, IInv, TypeOK
  <1>9. QED
    BY <1>5, <1>6, <1>7, <1>8, LocalStep

LEMMA LockAlertStep ==
    ASSUME IInv, NEW e \in Evaluators, NEW a \in Alerts, LockAlert(e, a)
    PROVE  IInv'
  <1> DEFINE x == [ev[e] EXCEPT !.pc = "decide", !.seen = {}, !.alert = a]
  <1>1. LocalOK(e) /\ LooksRight(e) /\ ev[e] \in EvTypes
    BY RecordType DEF IInv
  <1>2. x \in EvTypes
    BY RecordType DEF IInv, TypeOK, Pcs, Effects, Ages
  <1>3. ev' = [ev EXCEPT ![e] = x] /\ ev'[e] = x
    BY DEF LockAlert, IInv, TypeOK
  <1>4. /\ x.pc = "decide"
        /\ x.seen = {}
        /\ x.alert = a
        /\ x.effect = ev[e].effect
    BY <1>1 DEF EvTypes
  <1> HIDE DEF x
  <1>5. LocalOK(e)'
    BY <1>1, <1>3, <1>4 DEF LockAlert, LocalOK, Evaluating, rows, latest, EvTypes, Candidate, NoAlert, Alerts, IInv, TypeOK
  <1>6. MayLook(e, x)
    BY <1>1, <1>4 DEF LockAlert, MayLook, LooksRight, Looking, LocalOK, Own, Candidate, NoAlert, Alerts, IInv, TypeOK
  <1>7. x.effect # "open"
    BY <1>1, <1>4 DEF LockAlert, LocalOK, Candidate, NoAlert, Alerts, IInv, TypeOK
  <1>8. OwnMove(e, x)
    BY <1>2, <1>3 DEF LockAlert, OwnMove, rows, latest, IInv, TypeOK, Candidate
  <1>9. QED
    BY <1>5, <1>6, <1>7, <1>8, LocalStep

LEMMA SkipAlertStep ==
    ASSUME IInv, NEW e \in Evaluators, NEW a \in Alerts, SkipAlert(e, a)
    PROVE  IInv'
  <1> DEFINE x == [ev[e] EXCEPT !.seen = ev[e].seen \ {a}]
  <1>1. LocalOK(e) /\ LooksRight(e) /\ ev[e] \in EvTypes
    BY RecordType DEF IInv
  <1>2. x \in EvTypes
    BY RecordType DEF IInv, TypeOK, Pcs, Effects, Ages
  <1>3. ev' = [ev EXCEPT ![e] = x] /\ ev'[e] = x
    BY DEF SkipAlert, IInv, TypeOK
  <1>4. /\ x.seen = ev[e].seen \ {a}
        /\ x.pc = ev[e].pc
        /\ x.alert = ev[e].alert
        /\ x.effect = ev[e].effect
    BY <1>1 DEF EvTypes
  <1> HIDE DEF x
  <1>5. LocalOK(e)'
    BY <1>1, <1>3, <1>4 DEF SkipAlert, LocalOK, Evaluating, rows, latest, EvTypes, Candidate
  <1>6. MayLook(e, x)
    BY <1>1, <1>4 DEF SkipAlert, MayLook, LooksRight, Looking, LocalOK, Own, Candidate
  <1>7. x.effect # "open"
    BY <1>1, <1>4 DEF SkipAlert, LocalOK, Candidate
  <1>8. OwnMove(e, x)
    BY <1>2, <1>3 DEF SkipAlert, OwnMove, rows, latest, IInv, TypeOK
  <1>9. QED
    BY <1>5, <1>6, <1>7, <1>8, LocalStep

LEMMA FindNoAlertStep ==
    ASSUME IInv, NEW e \in Evaluators, FindNoAlert(e)
    PROVE  IInv'
  <1> DEFINE x == [ev[e] EXCEPT !.pc = "decide"]
  <1>1. LocalOK(e) /\ LooksRight(e) /\ ev[e] \in EvTypes
    BY RecordType DEF IInv
  <1>2. x \in EvTypes
    BY RecordType DEF IInv, TypeOK, Pcs, Effects, Ages
  <1>3. ev' = [ev EXCEPT ![e] = x] /\ ev'[e] = x
    BY DEF FindNoAlert, IInv, TypeOK
  <1>4. /\ x.pc = "decide"
        /\ x.seen = ev[e].seen
        /\ x.alert = ev[e].alert
        /\ x.effect = ev[e].effect
    BY <1>1 DEF EvTypes
  <1> HIDE DEF x
  <1>5. LocalOK(e)'
    BY <1>1, <1>3, <1>4 DEF FindNoAlert, LocalOK, Evaluating, rows, latest, EvTypes
  <1>6. MayLook(e, x)
    BY <1>1, <1>4 DEF FindNoAlert, MayLook, LooksRight, Looking, LocalOK, Own
  <1>7. x.effect # "open"
    BY <1>1, <1>4 DEF FindNoAlert, LocalOK
  <1>8. OwnMove(e, x)
    BY <1>2, <1>3 DEF FindNoAlert, OwnMove, rows, latest, IInv, TypeOK
  <1>9. QED
    BY <1>5, <1>6, <1>7, <1>8, LocalStep

LEMMA DecideTrueStep ==
    ASSUME IInv, NEW e \in Evaluators, DecideTrue(e)
    PROVE  IInv'
  <1> DEFINE x == [ev[e] EXCEPT !.pc = "commit", !.effect = (IF window THEN "suppress" ELSE "update")]
  <1>1. LocalOK(e) /\ LooksRight(e) /\ ev[e] \in EvTypes
    BY RecordType DEF IInv
  <1>2. x \in EvTypes
    BY RecordType DEF IInv, TypeOK, Pcs, Effects, Ages
  <1>3. ev' = [ev EXCEPT ![e] = x] /\ ev'[e] = x
    BY DEF DecideTrue, IInv, TypeOK
  <1>4. /\ x.pc = "commit"
        /\ x.effect = (IF window THEN "suppress" ELSE "update")
        /\ x.seen = ev[e].seen
        /\ x.alert = ev[e].alert
    BY <1>1 DEF EvTypes
  <1> HIDE DEF x
  <1>5. LocalOK(e)'
    BY <1>1, <1>3, <1>4 DEF DecideTrue, LocalOK, Evaluating, rows, latest, EvTypes
  <1>6. MayLook(e, x)
    BY <1>1, <1>4 DEF DecideTrue, MayLook, LooksRight, Looking, LocalOK, Own
  <1>7. x.effect # "open"
    BY <1>1, <1>4 DEF DecideTrue, LocalOK
  <1>8. OwnMove(e, x)
    BY <1>2, <1>3 DEF DecideTrue, OwnMove, rows, latest, IInv, TypeOK
  <1>9. QED
    BY <1>5, <1>6, <1>7, <1>8, LocalStep

LEMMA DecideSuppressedStep ==
    ASSUME IInv, NEW e \in Evaluators, DecideSuppressed(e)
    PROVE  IInv'
  <1> DEFINE x == [ev[e] EXCEPT !.pc = "commit", !.effect = "insert suppressed"]
  <1>1. LocalOK(e) /\ LooksRight(e) /\ ev[e] \in EvTypes
    BY RecordType DEF IInv
  <1>2. x \in EvTypes
    BY RecordType DEF IInv, TypeOK, Pcs, Effects, Ages
  <1>3. ev' = [ev EXCEPT ![e] = x] /\ ev'[e] = x
    BY DEF DecideSuppressed, IInv, TypeOK
  <1>4. /\ x.pc = "commit"
        /\ x.effect = "insert suppressed"
        /\ x.seen = ev[e].seen
        /\ x.alert = ev[e].alert
    BY <1>1 DEF EvTypes
  <1> HIDE DEF x
  <1>5. LocalOK(e)'
    BY <1>1, <1>3, <1>4 DEF DecideSuppressed, LocalOK, Evaluating, rows, latest, EvTypes
  <1>6. MayLook(e, x)
    BY <1>1, <1>4 DEF DecideSuppressed, MayLook, LooksRight, Looking, LocalOK, Own
  <1>7. x.effect # "open"
    BY <1>1, <1>4 DEF DecideSuppressed, LocalOK
  <1>8. OwnMove(e, x)
    BY <1>2, <1>3 DEF DecideSuppressed, OwnMove, rows, latest, IInv, TypeOK
  <1>9. QED
    BY <1>5, <1>6, <1>7, <1>8, LocalStep

LEMMA GetStateStep ==
    ASSUME IInv, NEW e \in Evaluators, GetState(e)
    PROVE  IInv'
  <1> DEFINE x == [ev[e] EXCEPT !.pc = "track", !.found = condState]
  <1>1. LocalOK(e) /\ LooksRight(e) /\ ev[e] \in EvTypes
    BY RecordType DEF IInv
  <1>2. x \in EvTypes
    BY RecordType DEF IInv, TypeOK, Pcs, Effects, Ages
  <1>3. ev' = [ev EXCEPT ![e] = x] /\ ev'[e] = x
    BY DEF GetState, IInv, TypeOK
  <1>4. /\ x.pc = "track"
        /\ x.seen = ev[e].seen
        /\ x.alert = ev[e].alert
        /\ x.effect = ev[e].effect
    BY <1>1 DEF EvTypes
  <1> HIDE DEF x
  <1>5. LocalOK(e)'
    BY <1>1, <1>3, <1>4 DEF GetState, LocalOK, Evaluating, rows, latest, EvTypes
  <1>6. MayLook(e, x)
    BY <1>1, <1>4 DEF GetState, MayLook, LooksRight, Looking, LocalOK, Own
  <1>7. x.effect # "open"
    BY <1>1, <1>4 DEF GetState, LocalOK
  <1>8. OwnMove(e, x)
    BY <1>2, <1>3 DEF GetState, OwnMove, rows, latest, IInv, TypeOK
  <1>9. QED
    BY <1>5, <1>6, <1>7, <1>8, LocalStep

LEMMA TrackFailsStep ==
    ASSUME IInv, NEW e \in Evaluators, TrackFails(e)
    PROVE  IInv'
  <1> DEFINE x == [ev[e] EXCEPT !.pc = "commit", !.effect = "none"]
  <1>1. LocalOK(e) /\ LooksRight(e) /\ ev[e] \in EvTypes
    BY RecordType DEF IInv
  <1>2. x \in EvTypes
    BY RecordType DEF IInv, TypeOK, Pcs, Effects, Ages
  <1>3. ev' = [ev EXCEPT ![e] = x] /\ ev'[e] = x
    BY DEF TrackFails, IInv, TypeOK
  <1>4. /\ x.pc = "commit"
        /\ x.effect = "none"
        /\ x.seen = ev[e].seen
        /\ x.alert = ev[e].alert
    BY <1>1 DEF EvTypes
  <1> HIDE DEF x
  <1>5. LocalOK(e)'
    BY <1>1, <1>3, <1>4 DEF TrackFails, LocalOK, Evaluating, rows, latest, EvTypes
  <1>6. MayLook(e, x)
    BY <1>1, <1>4 DEF TrackFails, MayLook, LooksRight, Looking, LocalOK, Own
  <1>7. x.effect # "open"
    BY <1>1, <1>4 DEF TrackFails, LocalOK
  <1>8. OwnMove(e, x)
    BY <1>2, <1>3 DEF TrackFails, OwnMove, rows, latest, IInv, TypeOK
  <1>9. QED
    BY <1>5, <1>6, <1>7, <1>8, LocalStep

LEMMA DecideFalseStep ==
    ASSUME IInv, NEW e \in Evaluators, DecideFalse(e)
    PROVE  IInv'
  <1> DEFINE x == [ev[e] EXCEPT !.pc = "commit", !.effect = "resolve"]
  <1>1. LocalOK(e) /\ LooksRight(e) /\ ev[e] \in EvTypes
    BY RecordType DEF IInv
  <1>2. x \in EvTypes
    BY RecordType DEF IInv, TypeOK, Pcs, Effects, Ages
  <1>3. ev' = [ev EXCEPT ![e] = x] /\ ev'[e] = x
    BY DEF DecideFalse, IInv, TypeOK
  <1>4. /\ x.pc = "commit"
        /\ x.effect = "resolve"
        /\ x.seen = ev[e].seen
        /\ x.alert = ev[e].alert
    BY <1>1 DEF EvTypes
  <1> HIDE DEF x
  <1>5. LocalOK(e)'
    BY <1>1, <1>3, <1>4 DEF DecideFalse, LocalOK, Evaluating, rows, latest, EvTypes
  <1>6. MayLook(e, x)
    BY <1>1, <1>4 DEF DecideFalse, MayLook, LooksRight, Looking, LocalOK, Own
  <1>7. x.effect # "open"
    BY <1>1, <1>4 DEF DecideFalse, LocalOK
  <1>8. OwnMove(e, x)
    BY <1>2, <1>3 DEF DecideFalse, OwnMove, rows, latest, IInv, TypeOK
  <1>9. QED
    BY <1>5, <1>6, <1>7, <1>8, LocalStep

(* The alert opened gets an id nobody has.                                 *)
LEMMA TrackStep ==
    ASSUME IInv, NEW e \in Evaluators, Track(e)
    PROVE  IInv'
  <1>1. LocalOK(e) /\ LooksRight(e) /\ ev[e] \in EvTypes
    BY RecordType DEF IInv
  <1>2. CASE ev' = [ev EXCEPT ![e].pc = "commit", ![e].effect = "track"]
    <2> DEFINE x == [ev[e] EXCEPT !.pc = "commit", !.effect = "track"]
    <2>1. x \in EvTypes
      BY RecordType DEF IInv, Pcs, Effects
    <2>2. ev' = [ev EXCEPT ![e] = x] /\ ev'[e] = x
      BY <1>2 DEF IInv, TypeOK
    <2>3. x.pc = "commit" /\ x.effect = "track" /\ x.seen = ev[e].seen /\ x.alert = ev[e].alert
      BY <1>1 DEF EvTypes
    <2> HIDE DEF x
    <2>4. LocalOK(e)'
      BY <1>1, <2>2, <2>3 DEF Track, LocalOK, Evaluating, latest, EvTypes
    <2>5. MayLook(e, x)
      BY <2>3 DEF MayLook, Looking
    <2>6. OwnMove(e, x)
      BY <2>1, <2>2 DEF Track, OwnMove, latest, IInv, TypeOK
    <2>7. QED
      BY <2>3, <2>4, <2>5, <2>6, LocalStep
  <1>3. ASSUME NEW a \in Alerts, NextAlert(a),
               ev' = [ev EXCEPT ![e].pc = "commit", ![e].effect = "open", ![e].alert = a]
        PROVE  IInv'
    <2> DEFINE x == [ev[e] EXCEPT !.pc = "commit", !.effect = "open", !.alert = a]
    <2>1. x \in EvTypes
      BY RecordType DEF IInv, Pcs, Effects
    <2>2. ev' = [ev EXCEPT ![e] = x] /\ ev'[e] = x
      BY <1>3 DEF IInv, TypeOK
    <2>3. x.pc = "commit" /\ x.effect = "open" /\ x.seen = ev[e].seen /\ x.alert = a
      BY <1>1 DEF EvTypes
    <2> HIDE DEF x
    <2>4. a \in Int /\ ~(a < a) /\ a # NoAlert
      BY DEF Alerts, NoAlert
    <2>5. a \notin Taken
      BY <1>3, <2>4 DEF NextAlert
    <2>6. /\ status[a] = "NONE"
          /\ \A f \in Evaluators : ev[f].effect = "open" => ev[f].alert # a
      BY <2>5 DEF Taken
    <2>7. LocalOK(e)'
      BY <1>1, <2>2, <2>3, <2>6 DEF Track, LocalOK, Evaluating, latest, EvTypes
    <2>8. MayLook(e, x)
      BY <1>1, <2>3 DEF Track, MayLook, LooksRight, Looking
    <2>9. OwnMove(e, x)
      BY <2>1, <2>2 DEF Track, OwnMove, latest, IInv, TypeOK
    <2>10. QED
      BY <2>3, <2>6, <2>7, <2>8, <2>9, LocalStep
  <1>4. QED
    BY <1>2, <1>3 DEF Track

LEMMA ClearStateStep ==
    ASSUME IInv, NEW e \in Evaluators, ClearState(e)
    PROVE  IInv'
  <1>1. LocalOK(e) /\ ev[e] \in EvTypes
    BY RecordType DEF IInv
  <1>2. PICK g \in {"none", "clear"} :
            ev' = [ev EXCEPT ![e].pc = "commit", ![e].effect = g]
    BY DEF ClearState
  <1> DEFINE x == [ev[e] EXCEPT !.pc = "commit", !.effect = g]
  <1>3. x \in EvTypes
    BY RecordType DEF IInv, Pcs, Effects
  <1>4. ev' = [ev EXCEPT ![e] = x] /\ ev'[e] = x
    BY <1>2 DEF IInv, TypeOK
  <1>5. x.pc = "commit" /\ x.effect = g /\ x.seen = ev[e].seen /\ x.alert = ev[e].alert
    BY <1>1 DEF EvTypes
  <1> HIDE DEF x
  <1>6. LocalOK(e)'
    BY <1>1, <1>4, <1>5 DEF ClearState, LocalOK, Evaluating, latest, EvTypes
  <1>7. MayLook(e, x)
    BY <1>5 DEF MayLook, Looking
  <1>8. OwnMove(e, x)
    BY <1>3, <1>4 DEF ClearState, OwnMove, latest, IInv, TypeOK
  <1>9. QED
    BY <1>5, <1>6, <1>7, <1>8, LocalStep

-----------------------------------------------------------------------------
(* The end of a transaction.                                               *)

LEMMA Released ==
    ASSUME TypeOK, NEW e \in Evaluators, Release(e)
    PROVE  /\ holder' \in [Alerts -> Evaluators \cup {NoOne}]
           /\ condHolder' \in Evaluators \cup {NoOne}
           /\ readingHolder' \in Evaluators \cup {NoOne}
           /\ \A f \in Evaluators \ {e}, a \in Alerts : holder[a] = f => holder'[a] = f
           /\ \A f \in Evaluators \ {e} : readingHolder = f => readingHolder' = f
           /\ \A a \in Alerts : holder'[a] # NoOne => holder[a] # NoOne /\ holder[a] # e
  BY EngineAssumption DEF TypeOK, Release

(* An evaluator that has ended owes nothing.                               *)
LEMMA IdleOK ==
    ASSUME NEW e \in Evaluators, ev'[e] = IdleEvaluator
    PROVE  LocalOK(e)' /\ LooksRight(e)' /\ ev'[e].effect # "open"
  BY DEF LocalOK, LooksRight, Looking, IdleEvaluator, Evaluating, NoAlert

LEMMA DieStep ==
    ASSUME IInv, NEW e \in Evaluators, Die(e)
    PROVE  IInv'
  <1> USE DEF IInv
  <1>1. ev \in [Evaluators -> EvTypes] /\ ev' = [ev EXCEPT ![e] = IdleEvaluator]
    BY DEF TypeOK, EvTypes, Die
  <1>2. ev'[e] = IdleEvaluator /\ \A f \in Evaluators \ {e} : ev'[f] = ev[f]
    BY <1>1
  <1>3. Release(e) /\ status' = status /\ opener' = opener /\ Active' = Active
    BY DEF Die, history, Active
  <1>4. deaths' \in 0 .. MaxDeaths
    BY EngineAssumption DEF Die, TypeOK
  <1>5. ev' \in [Evaluators -> EvTypes]
    BY <1>1, IdleType
  <1>6. TypeOK'
    BY <1>3, <1>4, <1>5, Released DEF Die, TypeOK, EvTypes, world, api, history
  <1>7. \A f \in Evaluators, a \in Alerts : Own(a, f)' = Own(a, f)
    BY <1>3 DEF Own
  <1>8. ASSUME NEW f \in Evaluators \ {e} PROVE LocalOK(f)' /\ LooksRight(f)'
    BY <1>2, <1>3, <1>7, Released, Frame
  <1>9. LocalOK(e)' /\ LooksRight(e)'
    BY <1>2, IdleOK
  <1>10. DistinctNew'
    BY <1>2, IdleOK DEF DistinctNew
  <1>11. OpenerActive' /\ OneActivePerLane' /\ LockedActive'
    BY <1>3, Released DEF OpenerActive, OneActivePerLane, LockedActive
  <1>12. QED
    BY <1>6, <1>8, <1>9, <1>10, <1>11

(* What a commit does to the alerts: it writes one that is locked, or new.  *)
LEMMA CommitWrites ==
    ASSUME IInv, NEW e \in Evaluators, Commit(e)
    PROVE  /\ \A b \in Alerts \ {ev[e].alert} :
                  status'[b] = status[b] /\ opener'[b] = opener[b]
           /\ ev[e].effect = "open" =>
                  /\ ev[e].alert \in Alerts
                  /\ status[ev[e].alert] = "NONE"
                  /\ status'[ev[e].alert] = "OPEN"
                  /\ opener'[ev[e].alert] = e
           /\ ev[e].effect # "open" /\ ev[e].alert # NoAlert =>
                  /\ ev[e].alert \in Active
                  /\ holder[ev[e].alert] = e
                  /\ status'[ev[e].alert] \in Statuses
                  /\ \/ opener'[ev[e].alert] = NoOne
                     \/ /\ opener'[ev[e].alert] = opener[ev[e].alert]
                        /\ status'[ev[e].alert] = status[ev[e].alert]
           /\ status' \in [Alerts -> Statuses \cup {"NONE", "DELETED"}]
           /\ opener' \in [Alerts -> Evaluators \cup {NoOne}]
  <1> DEFINE n == ev[e].alert
  <1>1. LocalOK(e) /\ ev[e] \in EvTypes /\ n \in Alerts \cup {NoAlert} /\ e # NoOne
    BY RecordType, EngineAssumption DEF IInv, EvTypes
  <1>2. /\ status \in [Alerts -> Statuses \cup {"NONE", "DELETED"}]
        /\ opener \in [Alerts -> Evaluators \cup {NoOne}]
    BY DEF IInv, TypeOK
  <1>3. NoAlert \notin Alerts
    BY DEF NoAlert, Alerts
  <1>4. CASE n = NoAlert
    <2>1. status' = status
      BY <1>4 DEF Commit
    <2>2. opener' = opener \/ \E v : opener' = [opener EXCEPT ![n] = v]
      BY DEF Commit
    <2>3. opener' = opener
      BY <1>2, <1>3, <1>4, <2>2
    <2>4. ev[e].effect # "open"
      BY <1>1, <1>3, <1>4 DEF LocalOK
    <2>5. QED
      BY <1>2, <1>4, <2>1, <2>3, <2>4
  <1>5. CASE n # NoAlert /\ ev[e].effect = "open"
    <2>1. n \in Alerts /\ status[n] = "NONE"
      BY <1>1, <1>5 DEF LocalOK
    <2>2. StatusAfter(e) = "OPEN"
      BY <1>5 DEF StatusAfter
    <2>3. status' = [status EXCEPT ![n] = "OPEN"]
      BY <1>5, <2>2 DEF Commit
    <2>4. opener' = [opener EXCEPT ![n] = e]
      BY <1>5 DEF Commit
    <2>5. QED
      BY <1>2, <1>5, <2>1, <2>3, <2>4 DEF Statuses, ActiveStatuses
  <1>6. CASE n # NoAlert /\ ev[e].effect # "open"
    <2>1. n \in Alerts /\ holder[n] = e
      BY <1>1, <1>6 DEF LocalOK
    <2>2. n \in Active /\ status[n] \in Statuses
      BY <1>1, <2>1 DEF IInv, LockedActive, Active, Statuses
    <2>3. CASE ev[e].effect \in {"resolve", "suppress"}
      <3>1. StatusAfter(e) \in Statuses
        BY <2>3 DEF StatusAfter, Statuses
      <3>2. status' = [status EXCEPT ![n] = StatusAfter(e)]
        BY <1>6 DEF Commit
      <3>3. opener' = [opener EXCEPT ![n] = NoOne]
        BY <2>3 DEF Commit
      <3>4. QED
        BY <1>2, <1>6, <2>1, <2>2, <3>1, <3>2, <3>3
    <2>4. CASE ev[e].effect \notin {"resolve", "suppress"}
      <3>1. StatusAfter(e) = status[n]
        BY <1>6, <2>4 DEF StatusAfter
      <3>2. status' = [status EXCEPT ![n] = status[n]]
        BY <1>6, <3>1 DEF Commit
      <3>3. opener' = opener
        BY <1>6, <2>4 DEF Commit
      <3>4. QED
        BY <1>2, <1>6, <2>1, <2>2, <3>2, <3>3
    <2>5. QED
      BY <2>3, <2>4
  <1>7. QED
    BY <1>4, <1>5, <1>6

LEMMA CommitStep ==
    ASSUME IInv, NEW e \in Evaluators, Commit(e)
    PROVE  IInv'
  <1> DEFINE n == ev[e].alert
  <1>1. /\ LocalOK(e) /\ LooksRight(e) /\ ev[e] \in EvTypes
        /\ n \in Alerts \cup {NoAlert} /\ e # NoOne /\ NoAlert \notin Alerts
    <2>1. LocalOK(e) /\ LooksRight(e) /\ ev[e] \in EvTypes
      BY RecordType DEF IInv
    <2>2. NoAlert \notin Alerts
      BY DEF NoAlert, Alerts
    <2>3. QED
      BY <2>1, <2>2, EngineAssumption DEF EvTypes
  <1>2. /\ ev'[e] = IdleEvaluator
        /\ \A f \in Evaluators \ {e} :
              /\ ev'[f] \in EvTypes
              /\ ev'[f].pc = ev[f].pc /\ ev'[f].seen = ev[f].seen
              /\ ev'[f].alert = ev[f].alert /\ ev'[f].effect = ev[f].effect
    <2>1. ev' = EvaluatorsAfter(e)
      BY DEF Commit
    <2>2. ASSUME NEW f \in Evaluators \ {e}
          PROVE  ev'[f] = ev[f] \/ ev'[f] = [ev[f] EXCEPT !.found = "gone"]
      BY <2>1 DEF EvaluatorsAfter
    <2>3. \A f \in Evaluators : ev[f] \in EvTypes /\ [ev[f] EXCEPT !.found = "gone"] \in EvTypes
      BY RecordType DEF IInv, Ages
    <2>4. ev'[e] = IdleEvaluator
      BY <2>1 DEF EvaluatorsAfter
    <2>5. QED
      BY <2>2, <2>3, <2>4 DEF EvTypes
  <1>3. DOMAIN ev' = Evaluators /\ ev' \in [Evaluators -> EvTypes]
    BY <1>2, IdleType DEF Commit, EvaluatorsAfter
  <1>4. TypeOK /\ Release(e)
    BY DEF IInv, Commit
  <1>5. TypeOK'
    <2>1. condState' \in Ages
      BY <1>4 DEF Commit, CondStateAfter, TypeOK, Ages
    <2>2. reading' \in BOOLEAN /\ interrupted' \in BOOLEAN
      BY <1>1, <1>4 DEF Commit, TypeOK, EvTypes
    <2>3. QED
      BY <1>3, <1>4, <2>1, <2>2, CommitWrites, Released
         DEF Commit, TypeOK, EvTypes, world, api
  <1>6. \A b \in Alerts : opener'[b] # NoOne =>
            \/ b \in Active /\ opener'[b] = opener[b] /\ status'[b] = status[b]
            \/ b = n /\ ev[e].effect = "open" /\ opener'[b] = e /\ status'[b] = "OPEN"
    <2> SUFFICES ASSUME NEW b \in Alerts, opener'[b] # NoOne
                 PROVE  \/ b \in Active /\ opener'[b] = opener[b] /\ status'[b] = status[b]
                        \/ b = n /\ ev[e].effect = "open" /\ opener'[b] = e /\ status'[b] = "OPEN"
      OBVIOUS
    <2>1. CASE b # n
      BY <2>1, CommitWrites DEF IInv, OpenerActive
    <2>2. CASE b = n
      BY <1>1, <2>2, CommitWrites
    <2>3. QED
      BY <2>1, <2>2
  <1>7. OpenerActive'
    BY <1>6 DEF OpenerActive, Active, ActiveStatuses
  <1>8. \* Nobody else of e's lane is between its reading and its commit.
        \A f \in Evaluators \ {e} :
            ev[e].effect = "open" /\ SameLane(e, f) => ~Looking(ev[f])
    <2> SUFFICES ASSUME NEW f \in Evaluators \ {e}, ev[e].effect = "open", SameLane(e, f),
                        Looking(ev[f])
                 PROVE  FALSE
      OBVIOUS
    <2>1. LocalOK(f)
      BY DEF IInv
    <2>2. ev[f].pc \in Evaluating
      BY <2>1 DEF Looking, LocalOK, Evaluating
    <2>3. ev[e].pc \in Evaluating
      BY DEF Commit, Evaluating
    <2>4. e \in SnmpPolls /\ f \in SnmpPolls
      BY DEF SameLane
    <2>5. QED
      BY <1>1, <2>1, <2>2, <2>3, <2>4 DEF LocalOK
  <1>9. ASSUME NEW f \in Evaluators \ {e} PROVE LocalOK(f)' /\ LooksRight(f)'
    <2>1. \A a \in Alerts : ev[f].effect = "open" /\ ev[f].alert = a => status'[a] = status[a]
      <3> SUFFICES ASSUME NEW a \in Alerts, ev[f].effect = "open", ev[f].alert = a
                   PROVE  a # n
        BY CommitWrites
      <3>1. status[a] = "NONE"
        BY DEF IInv, LocalOK
      <3>2. a \notin Active
        BY <3>1 DEF Active, ActiveStatuses
      <3>3. QED
        BY <1>1, <3>2, CommitWrites DEF IInv, DistinctNew
    <2>2. \A a \in Alerts : Looking(ev[f]) /\ Own(a, f)' => Own(a, f)
      BY <1>6, <1>8 DEF Own
    <2>3. QED
      BY <1>2, <1>4, <2>1, <2>2, Released, Frame
  <1>10. LocalOK(e)' /\ LooksRight(e)'
    BY <1>2, IdleOK
  <1>11. DistinctNew'
    BY <1>2, IdleOK DEF IInv, DistinctNew
  <1>12. LockedActive'
    <2> SUFFICES ASSUME NEW b \in Alerts, holder'[b] # NoOne PROVE b \in Active'
      BY DEF LockedActive
    <2>1. b \in Active /\ holder[b] # e
      BY <1>4, Released DEF IInv, LockedActive
    <2>2. b # n
      BY <1>1, <2>1, CommitWrites DEF Active, ActiveStatuses
    <2>3. QED
      BY <2>1, <2>2, CommitWrites DEF Active
  <1>13. OneActivePerLane'
    <2> SUFFICES ASSUME NEW a \in Alerts, NEW b \in Alerts,
                        opener'[a] # NoOne, opener'[b] # NoOne,
                        SameLane(opener'[a], opener'[b])
                 PROVE  a = b
      BY DEF OneActivePerLane, Active
    <2>1. CASE /\ a \in Active /\ opener'[a] = opener[a]
               /\ b \in Active /\ opener'[b] = opener[b]
      BY <2>1 DEF IInv, OneActivePerLane
    <2>2. ASSUME NEW c \in Alerts, c \in Active, opener'[c] = opener[c], opener[c] # NoOne,
                 ev[e].effect = "open", SameLane(opener[c], e)
          PROVE  FALSE
      <3>1. Own(c, e)
        BY <2>2 DEF Own
      <3>2. Looking(ev[e]) /\ ev[e].pc # "lock"
        BY <2>2 DEF Looking, Commit
      <3>3. QED
        BY <1>1, <3>1, <3>2 DEF LooksRight
    <2>3. SameLane(opener'[b], opener'[a])
      BY DEF SameLane
    <2>4. QED
      BY <1>6, <2>1, <2>2, <2>3
  <1>14. QED
    BY <1>5, <1>7, <1>9, <1>10, <1>11, <1>12, <1>13 DEF IInv

-----------------------------------------------------------------------------
(* Users and surroundings.                                                 *)

(* They write rows nobody holds, revive no opener and wait for no one.     *)
LEMMA OthersStep ==
    ASSUME IInv, TypeOK', UNCHANGED <<ev, holder, readingHolder>>,
           \A a \in Alerts :
                \/ status'[a] = status[a] /\ opener'[a] = opener[a]
                \/ /\ holder[a] = NoOne
                   /\ status[a] \in Statuses
                   /\ \/ opener'[a] = NoOne
                      \/ status'[a] = "ACKNOWLEDGED" /\ opener'[a] = opener[a]
    PROVE  IInv'
  <1> USE DEF IInv
  <1>1. \A a \in Alerts : opener'[a] # NoOne =>
            a \in Active /\ a \in Active' /\ opener'[a] = opener[a]
    BY DEF OpenerActive, Active, ActiveStatuses
  <1>2. ASSUME NEW f \in Evaluators PROVE LocalOK(f)' /\ LooksRight(f)'
    <2>1. \A a \in Alerts : ev[f].effect = "open" /\ ev[f].alert = a => status'[a] = status[a]
      BY DEF LocalOK, Statuses, ActiveStatuses
    <2>2. \A a \in Alerts : Looking(ev[f]) /\ Own(a, f)' => Own(a, f)
      BY <1>1 DEF Own
    <2>3. QED
      BY <2>1, <2>2, Frame
  <1>3. DistinctNew'
    BY DEF DistinctNew
  <1>4. OpenerActive' /\ OneActivePerLane'
    BY <1>1 DEF OpenerActive, OneActivePerLane, Active
  <1>5. LockedActive'
    BY DEF LockedActive, Active
  <1>6. QED
    BY <1>2, <1>3, <1>4, <1>5

LEMMA GetEventStep ==
    ASSUME IInv, NEW u \in Users, NEW a \in Alerts, NEW op \in {"acknowledge", "resolve"},
           GetEvent(u, a, op)
    PROVE  IInv'
  <1>1. TypeOK'
    BY EngineAssumption
       DEF IInv, GetEvent, TypeOK, rows, latest, world, history
  <1>2. QED
    BY <1>1, OthersStep DEF GetEvent, rows, latest, history

LEMMA AcknowledgeStep ==
    ASSUME IInv, NEW u \in Users, Acknowledge(u)
    PROVE  IInv'
  <1>1. TypeOK
    BY DEF IInv
  <1>2. user' \in [Users -> UserTypes]
    BY <1>1, IdleType DEF Acknowledge, TypeOK, UserTypes
  <1>3. /\ status' \in [Alerts -> Statuses \cup {"NONE", "DELETED"}]
        /\ \A a \in Alerts : \/ status'[a] = status[a]
                             \/ /\ holder[a] = NoOne /\ status[a] \in Statuses
                                /\ status'[a] = "ACKNOWLEDGED"
    BY <1>1 DEF Acknowledge, TypeOK, Statuses, ActiveStatuses
  <1>4. TypeOK'
    BY <1>1, <1>2, <1>3 DEF Acknowledge, TypeOK, UserTypes, latest, world, history
  <1>5. QED
    BY <1>3, <1>4, OthersStep DEF Acknowledge, latest, history

LEMMA ManuallyResolveStep ==
    ASSUME IInv, NEW u \in Users, ManuallyResolve(u)
    PROVE  IInv'
  <1>1. TypeOK
    BY DEF IInv
  <1>2. user' \in [Users -> UserTypes]
    BY <1>1, IdleType DEF ManuallyResolve, TypeOK, UserTypes
  <1>3. status' \in [Alerts -> Statuses \cup {"NONE", "DELETED"}]
    BY <1>1 DEF ManuallyResolve, TypeOK, Statuses
  <1>4. opener' \in [Alerts -> Evaluators \cup {NoOne}]
    BY <1>1 DEF ManuallyResolve, TypeOK
  <1>5. \A a \in Alerts : \/ status'[a] = status[a] /\ opener'[a] = opener[a]
                          \/ /\ holder[a] = NoOne /\ status[a] \in Statuses
                             /\ opener'[a] = NoOne
    <2> SUFFICES ASSUME NEW a \in Alerts
                 PROVE  \/ status'[a] = status[a] /\ opener'[a] = opener[a]
                        \/ /\ holder[a] = NoOne /\ status[a] \in Statuses
                           /\ opener'[a] = NoOne
      OBVIOUS
    <2>1. CASE a # user[u].alert
      BY <1>1, <2>1 DEF ManuallyResolve, TypeOK
    <2>2. CASE a = user[u].alert /\ status[a] \in Statuses
      BY <1>1, <2>2 DEF ManuallyResolve, TypeOK
    <2>3. CASE a = user[u].alert /\ status[a] \notin Statuses
      <3>1. opener[a] = NoOne
        BY <2>3 DEF IInv, OpenerActive, Active, Statuses
      <3>2. QED
        BY <1>1, <2>3, <3>1 DEF ManuallyResolve, TypeOK
    <2>4. QED
      BY <2>1, <2>2, <2>3
  <1>6. TypeOK'
    BY <1>1, <1>2, <1>3, <1>4 DEF ManuallyResolve, TypeOK, UserTypes, latest, world
  <1>7. QED
    BY <1>5, <1>6, OthersStep DEF ManuallyResolve, latest

LEMMA DestroyStep ==
    ASSUME IInv, NEW a \in Alerts, Destroy(a)
    PROVE  IInv'
  <1>1. TypeOK
    BY DEF IInv
  <1>2. calls' \in 0 .. MaxCalls
    BY <1>1, EngineAssumption DEF Destroy, TypeOK
  <1>3. /\ status' \in [Alerts -> Statuses \cup {"NONE", "DELETED"}]
        /\ opener' \in [Alerts -> Evaluators \cup {NoOne}]
    BY <1>1 DEF Destroy, TypeOK
  <1>4. TypeOK'
    BY <1>1, <1>2, <1>3 DEF Destroy, TypeOK, latest, world
  <1>5. \A b \in Alerts : \/ status'[b] = status[b] /\ opener'[b] = opener[b]
                          \/ /\ holder[b] = NoOne /\ status[b] \in Statuses
                             /\ opener'[b] = NoOne
    BY <1>1 DEF Destroy, TypeOK
  <1>6. QED
    BY <1>4, <1>5, OthersStep DEF Destroy, latest

LEMMA SurroundingsStep ==
    ASSUME IInv, EquipmentChanges \/ WindowChanges \/ DurationPasses \/ UNCHANGED vars
    PROVE  IInv'
  <1>1. UNCHANGED <<ev, holder, readingHolder, status, opener>>
    BY DEF EquipmentChanges, WindowChanges, DurationPasses, vars, rows, latest, history
  <1>2. TypeOK
    BY DEF IInv
  <1>3. CASE EquipmentChanges
    <2>1. TypeOK'
      BY <1>2, <1>3, EngineAssumption
         DEF EquipmentChanges, TypeOK, rows, latest, api, history
    <2>2. QED
      BY <1>1, <2>1, OthersStep
  <1>4. CASE WindowChanges
    <2>1. TypeOK'
      BY <1>2, <1>4, EngineAssumption
         DEF WindowChanges, TypeOK, rows, latest, api, history
    <2>2. QED
      BY <1>1, <2>1, OthersStep
  <1>5. CASE DurationPasses
    <2>1. TypeOK'
      BY <1>2, <1>5 DEF DurationPasses, TypeOK, Ages, latest, world, api, history
    <2>2. QED
      BY <1>1, <2>1, OthersStep
  <1>6. CASE UNCHANGED vars
    <2>1. TypeOK'
      BY <1>2, <1>6 DEF vars, TypeOK
    <2>2. QED
      BY <1>1, <2>1, OthersStep
  <1>7. QED
    BY <1>3, <1>4, <1>5, <1>6

-----------------------------------------------------------------------------
(* The invariant holds.                                                    *)

LEMMA InitIInv == Init => IInv
  <1> SUFFICES ASSUME Init PROVE IInv
    OBVIOUS
  <1>1. TypeOK
    BY InitTypeOK
  <1>2. \A e \in Evaluators : ev[e] = IdleEvaluator
    BY DEF Init
  <1>3. ASSUME NEW e \in Evaluators PROVE LocalOK(e) /\ LooksRight(e)
    <2>1. ev[e].pc = "idle" /\ ev[e].effect = "none" /\ ev[e].alert = NoAlert
      BY <1>2 DEF IdleEvaluator
    <2>2. QED
      BY <2>1 DEF LocalOK, LooksRight, Looking, Evaluating
  <1>4. DistinctNew
    BY <1>2 DEF DistinctNew, IdleEvaluator
  <1>5. Active = {}
    BY DEF Init, Active, ActiveStatuses
  <1>6. OpenerActive /\ LockedActive /\ OneActivePerLane
    BY <1>5 DEF Init, OpenerActive, LockedActive, OneActivePerLane
  <1>7. QED
    BY <1>1, <1>3, <1>4, <1>6 DEF IInv

LEMMA EvaluateStep ==
    ASSUME IInv, NEW e \in Evaluators, Evaluate(e)
    PROVE  IInv'
  <1>1. CASE Sample(e)
    BY <1>1, SampleStep
  <1>2. CASE SaveInTransaction(e) \/ SaveReading(e) \/ FetchReading(e)
    BY <1>2, SaveInTransactionStep, SaveReadingStep, FetchReadingStep
  <1>3. CASE Select(e) \/ FindNoAlert(e)
    BY <1>3, SelectStep, FindNoAlertStep
  <1>4. CASE \E a \in Alerts : LockAlert(e, a) \/ SkipAlert(e, a)
    BY <1>4, LockAlertStep, SkipAlertStep
  <1>5. CASE Decide(e)
    BY <1>5, DecideTrueStep, DecideSuppressedStep, DecideFalseStep, GetStateStep,
       TrackStep, TrackFailsStep, ClearStateStep DEF Decide
  <1>6. CASE Commit(e)
    BY <1>6, CommitStep
  <1>7. CASE Die(e)
    BY <1>7, DieStep
  <1>8. QED
    BY <1>1, <1>2, <1>3, <1>4, <1>5, <1>6, <1>7 DEF Evaluate, Proceed

LEMMA NextIInv == IInv /\ [Next]_vars => IInv'
  <1> SUFFICES ASSUME IInv, [Next]_vars PROVE IInv'
    OBVIOUS
  <1>1. ASSUME NEW e \in Evaluators, Evaluate(e) PROVE IInv'
    BY <1>1, EvaluateStep
  <1>2. ASSUME NEW u \in Users, Request(u) PROVE IInv'
    <2>1. CASE \E a \in Alerts, op \in {"acknowledge", "resolve"} : GetEvent(u, a, op)
      BY <2>1, GetEventStep
    <2>2. CASE Acknowledge(u)
      BY <2>2, AcknowledgeStep
    <2>3. CASE ManuallyResolve(u)
      BY <2>3, ManuallyResolveStep
    <2>4. QED
      BY <1>2, <2>1, <2>2, <2>3 DEF Request
  <1>3. ASSUME NEW a \in Alerts, Destroy(a) PROVE IInv'
    BY <1>3, DestroyStep
  <1>4. CASE EquipmentChanges \/ WindowChanges \/ DurationPasses \/ UNCHANGED vars
    BY <1>4, SurroundingsStep
  <1>5. QED
    BY <1>1, <1>2, <1>3, <1>4 DEF Next

LEMMA Invariance == Spec => []IInv
  BY InitIInv, NextIInv, PTL DEF Spec

-----------------------------------------------------------------------------
(* What follows from it.                                                   *)

\* Every row, lock and local of the alert engine keeps its type: in particular
\* an evaluator writes only to alerts that exist.
THEOREM AlertTypes == Spec => []TypeOK
  <1>1. IInv => TypeOK
    BY DEF IInv
  <1>2. QED
    BY <1>1, Invariance, PTL

\* However many collectors and users meet, the SNMP polls of a metric never
\* have two alerts of a rule active that they opened, and no other evaluator
\* has two of its own: _active_alert_for_rule under the lock of the reading's
\* row is enough, deaths, timeouts and REST calls included.
THEOREM LaneExclusion == Spec => []OneActivePerLane
  <1>1. IInv => OneActivePerLane
    BY DEF IInv
  <1>2. QED
    BY <1>1, Invariance, PTL

\* Between select_for_update and the commit the alert an evaluator found stays
\* active: no user and no other evaluator ends it.
THEOREM LockExcludes == Spec => []LockedActive
  <1>1. IInv => LockedActive
    BY DEF IInv
  <1>2. QED
    BY <1>1, Invariance, PTL

\* No evaluator ever changes an alert that is resolved, suppressed or deleted,
\* whatever it saw before: resolve_alert, suppress_alert and update_active_alert
\* only reach the alert that was locked while active.
THEOREM TerminalRespected == Spec => EngineRespectsTerminal
  <1>1. IInv /\ [Next]_vars =>
            [ev' # ev => \A a \in Alerts \ Active :
                             status[a] # "NONE" => status'[a] = status[a]]_vars
    <2> SUFFICES ASSUME IInv, Next, ev' # ev,
                        NEW a \in Alerts \ Active, status[a] # "NONE"
                 PROVE  status'[a] = status[a]
      BY DEF vars
    <2>1. PICK e \in Evaluators : Evaluate(e)
      BY DEF Next, Request, GetEvent, Acknowledge, ManuallyResolve, Destroy,
             EquipmentChanges, WindowChanges, DurationPasses
    <2>2. CASE Commit(e)
      <3>1. a # ev[e].alert
        <4>1. a # NoAlert
          BY DEF Alerts, NoAlert
        <4>2. QED
          BY <2>2, <4>1, CommitWrites
      <3>2. QED
        BY <2>2, <3>1, CommitWrites
    <2>3. CASE ~Commit(e)
      BY <2>1, <2>3
         DEF Evaluate, Proceed, Decide, Sample, SaveInTransaction, SaveReading,
             FetchReading, Select, LockAlert, SkipAlert, FindNoAlert, DecideTrue,
             DecideSuppressed, DecideFalse, GetState, Track, TrackFails, ClearState,
             Die, rows
    <2>4. QED
      BY <2>2, <2>3
  <1>2. QED
    BY <1>1, Invariance, PTL DEF Spec, EngineRespectsTerminal
=============================================================================
