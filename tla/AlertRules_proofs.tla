------------------------- MODULE AlertRules_proofs -------------------------
(***************************************************************************)
(* Proofs about Readings and AlertRules, for any readings, mappings,       *)
(* credentials, rules, windows and policies: the properties that TLC       *)
(* evaluates on small inputs.                                              *)
(*                                                                         *)
(* Lists and finite sets need induction.  It is stated of a set of numbers *)
(* (Counting), since a theorem about an arbitrary predicate cannot be      *)
(* applied here: what is to be shown of every number is the definition of  *)
(* that set.                                                               *)
(***************************************************************************)
EXTENDS AlertRules, WellFoundedInduction, FiniteSetTheorems, TLAPS

-----------------------------------------------------------------------------
(* Numbers.                                                                *)

LEMMA Least ==
    ASSUME NEW S, S \subseteq Nat, S # {}
    PROVE  \E least \in S : \A n \in S : least <= n
<1>1. IsWellFoundedOn(OpToRel(<, Nat), Nat)
  BY NatLessThanWellFounded
<1>2. PICK least \in S : \A n \in S : <<n, least>> \notin OpToRel(<, Nat)
  BY <1>1, WFMin
<1>3. \A n \in S : n \in Nat /\ least \in Nat /\ ~(n < least)
  BY <1>2 DEF OpToRel
<1>4. \A n \in S : least <= n
  BY <1>3
<1>. QED BY <1>4

\* Induction: the least number that is missing would follow one that is not.
LEMMA Counting ==
    ASSUME NEW S, 0 \in S, \A n \in Nat : n \in S => n + 1 \in S
    PROVE  Nat \subseteq S
<1>1. SUFFICES ASSUME Nat \ S # {} PROVE FALSE
  OBVIOUS
<1>2. PICK least \in Nat \ S : \A n \in Nat \ S : least <= n
  BY <1>1, Least
<1>3. least \in Nat /\ least \notin S /\ least # 0
  BY <1>2
<1>4. least - 1 \in S
  BY <1>2, <1>3
<1>. QED BY <1>3, <1>4

LEMMA MinOf ==
    ASSUME NEW S, S \subseteq Nat, S # {}
    PROVE  Min(S) \in S /\ \A n \in S : Min(S) <= n
<1>1. \E least \in S : \A n \in S : least <= n
  BY Least
<1>. QED BY <1>1 DEF Min

LEMMA MaxOf ==
    ASSUME NEW n \in Nat, NEW S, S \subseteq 1 .. n, S # {}
    PROVE  Max(S) \in S /\ \A i \in S : Max(S) >= i
<1>. DEFINE T == {n - i : i \in S}
<1>1. \A i \in S : i \in Int /\ n - i \in Nat /\ n - i \in T
  OBVIOUS
<1>2. T \subseteq Nat /\ T # {} /\ \A t \in T : \E i \in S : t = n - i
  BY <1>1
<1>. HIDE DEF T
<1>3. PICK least \in T : \A t \in T : least <= t
  BY <1>2, Least
<1>4. PICK most \in S : least = n - most
  BY <1>2
<1>5. \A i \in S : most >= i
  <2>. SUFFICES ASSUME NEW i \in S PROVE most >= i
    OBVIOUS
  <2>1. n - most <= n - i
    BY <1>1, <1>3, <1>4
  <2>. QED BY <1>1, <2>1
<1>. QED BY <1>5 DEF Max

-----------------------------------------------------------------------------
(* Mappings: what the loop over them has chosen after each of them.         *)

Merge(chosen, m) ==
    [metric \in DOMAIN chosen \cup {m.metric} |->
        IF metric = m.metric /\ (metric \notin DOMAIN chosen \/ m.specific)
        THEN m ELSE chosen[metric]]

Nothing == [metric \in {} |-> 0]

IsFold(f, list, n) ==
    f = [s \in SUBSET (1 .. n) |->
            IF s = {} THEN Nothing ELSE Merge(f[s \ {Max(s)}], list[Max(s)])]

\* The function by which a fold is defined exists.
LEMMA FoldExists == ASSUME NEW list PROVE \A n \in Nat : \E f : IsFold(f, list, n)
<1>. DEFINE S == {n \in Nat : \E f : IsFold(f, list, n)}
<1>1. 0 \in S
  <2>. DEFINE f == [s \in SUBSET (1 .. 0) |-> Nothing]
  <2>1. \A s \in SUBSET (1 .. 0) : s = {}
    OBVIOUS
  <2>2. IsFold(f, list, 0)
    BY <2>1 DEF IsFold
  <2>. QED BY <2>2
<1>2. ASSUME NEW n \in Nat, n \in S PROVE n + 1 \in S
  <2>1. PICK f : IsFold(f, list, n)
    BY <1>2
  <2>. DEFINE last == n + 1
              g == [s \in SUBSET (1 .. last) |->
                        IF last \in s THEN Merge(f[s \ {last}], list[last]) ELSE f[s]]
              by(s) == IF s = {} THEN Nothing ELSE Merge(g[s \ {Max(s)}], list[Max(s)])
  <2>2. ASSUME NEW s \in SUBSET (1 .. last) PROVE g[s] = by(s)
    <3>1. CASE last \in s
      <4>1. Max(s) = last
        <5>1. last \in Nat /\ s \subseteq 1 .. last /\ s # {}
          BY <3>1
        <5>2. Max(s) \in s /\ Max(s) >= last
          <6>. HIDE DEF last
          <6>. QED BY <3>1, <5>1, MaxOf
        <5>3. Max(s) \in 1 .. last
          BY <5>1, <5>2
        <5>. QED BY <5>2, <5>3
      <4>2. s \ {last} \in SUBSET (1 .. last) /\ last \notin s \ {last} /\ s # {}
        BY <3>1
      <4>3. g[s \ {last}] = f[s \ {last}]
        BY <4>2
      <4>. QED BY <3>1, <4>1, <4>2, <4>3
    <3>2. CASE last \notin s
      <4>1. s \in SUBSET (1 .. n)
        BY <3>2
      <4>2. g[s] = f[s]
        BY <3>2
      <4>3. f[s] = IF s = {} THEN Nothing ELSE Merge(f[s \ {Max(s)}], list[Max(s)])
        BY <2>1, <4>1 DEF IsFold
      <4>4. last \notin s \ {Max(s)} /\ s \ {Max(s)} \in SUBSET (1 .. last)
        BY <3>2
      <4>5. g[s \ {Max(s)}] = f[s \ {Max(s)}]
        BY <4>4
      <4>. QED BY <4>2, <4>3, <4>5
    <3>. QED BY <3>1, <3>2
  <2>3. g = [s \in SUBSET (1 .. last) |-> by(s)]
    <3>. HIDE DEF by
    <3>. QED BY <2>2
  <2>4. IsFold(g, list, n + 1)
    BY <2>3 DEF IsFold
  <2>. QED BY <2>4
<1>3. Nat \subseteq S
  <2>. HIDE DEF S
  <2>. QED BY <1>1, <1>2, Counting
<1>. QED BY <1>3

LEMMA DedupedFolds ==
    ASSUME NEW list, NEW n \in Nat, DOMAIN list = 1 .. n
    PROVE  \E f : IsFold(f, list, n) /\ Deduped(list) = f[1 .. n]
<1>. DEFINE f == CHOOSE f : IsFold(f, list, n)
<1>1. IsFold(f, list, n)
  BY FoldExists
<1>2. Deduped(list) = f[1 .. n]
  BY DEF Deduped, FoldLeft, MapThenFoldSet, IsFold, Merge, Nothing
<1>. QED BY <1>1, <1>2

\* What has been chosen of some mappings: one for each metric, which is specific to
\* the model of the device if any of them is.
Chosen(chosen, all) ==
    /\ DOMAIN chosen = {m.metric : m \in all}
    /\ \A metric \in DOMAIN chosen :
          /\ chosen[metric] \in {m \in all : m.metric = metric}
          /\ (\E m \in all : m.metric = metric /\ m.specific) => chosen[metric].specific

LEMMA MergeChooses ==
    ASSUME NEW chosen, NEW all, NEW m, Chosen(chosen, all)
    PROVE  Chosen(Merge(chosen, m), all \cup {m})
<1>. DEFINE next == Merge(chosen, m)
            takes(metric) == metric = m.metric /\ (metric \notin DOMAIN chosen \/ m.specific)
<1>1. /\ DOMAIN next = DOMAIN chosen \cup {m.metric}
      /\ \A metric \in DOMAIN next : next[metric] = IF takes(metric) THEN m ELSE chosen[metric]
  BY DEF Merge
<1>2. DOMAIN next = {o.metric : o \in all \cup {m}}
  BY <1>1 DEF Chosen
<1>3. ASSUME NEW metric \in DOMAIN next
      PROVE  /\ next[metric] \in {o \in all \cup {m} : o.metric = metric}
             /\ (\E o \in all \cup {m} : o.metric = metric /\ o.specific) => next[metric].specific
  <2>1. CASE takes(metric)
    <3>1. next[metric] = m /\ m.metric = metric
      BY <1>1, <2>1
    <3>2. metric \notin DOMAIN chosen \/ m.specific
      BY <2>1
    <3>3. metric \notin DOMAIN chosen => \A o \in all : o.metric # metric
      BY DEF Chosen
    <3>. QED BY <3>1, <3>2, <3>3
  <2>2. CASE ~takes(metric)
    <3>1. next[metric] = chosen[metric] /\ metric \in DOMAIN chosen
      BY <1>1, <2>2
    <3>2. metric = m.metric => ~m.specific
      BY <2>2, <3>1
    <3>. QED BY <3>1, <3>2 DEF Chosen
  <2>. QED BY <2>1, <2>2
<1>. QED BY <1>2, <1>3 DEF Chosen

\* Every metric is read once, and by a mapping of its own; one of the device's model
\* wins over the others in whatever order they come (get_device_snmp_runtime).
THEOREM MappingsAreChosen ==
    ASSUME NEW list, NEW n \in Nat, DOMAIN list = 1 .. n PROVE MappingsChosen(list)
<1>1. PICK f : IsFold(f, list, n) /\ Deduped(list) = f[1 .. n]
  BY DedupedFolds
<1>. DEFINE first(k) == {list[i] : i \in 1 .. k}
            S == {k \in Nat : k <= n => Chosen(f[1 .. k], first(k))}
<1>2. 0 \in S
  <2>1. 1 .. 0 = {} /\ {} \in SUBSET (1 .. n)
    OBVIOUS
  <2>2. f[{}] = Nothing
    BY <1>1, <2>1 DEF IsFold
  <2>3. first(0) = {}
    BY <2>1
  <2>4. Chosen(Nothing, {})
    BY DEF Chosen, Nothing
  <2>5. Chosen(f[1 .. 0], first(0))
    BY <2>1, <2>2, <2>3, <2>4
  <2>. QED BY <2>5
<1>3. ASSUME NEW k \in Nat, k \in S PROVE k + 1 \in S
  <2>. SUFFICES ASSUME k + 1 <= n PROVE Chosen(f[1 .. k + 1], first(k + 1))
    OBVIOUS
  <2>. DEFINE last == k + 1
  <2>1. 1 .. last \in SUBSET (1 .. n) /\ 1 .. last # {} /\ (1 .. last) \ {last} = 1 .. k
    OBVIOUS
  <2>2. Max(1 .. last) = last
    <3>1. last \in Nat /\ last \in 1 .. last
      OBVIOUS
    <3>2. Max(1 .. last) \in 1 .. last /\ Max(1 .. last) >= last
      <4>. HIDE DEF last
      <4>. QED BY <3>1, MaxOf
    <3>. QED BY <3>1, <3>2
  <2>3. f[1 .. last] = Merge(f[(1 .. last) \ {Max(1 .. last)}], list[Max(1 .. last)])
    BY <1>1, <2>1 DEF IsFold
  <2>4. f[1 .. last] = Merge(f[1 .. k], list[last])
    BY <2>1, <2>2, <2>3
  <2>5. first(last) = first(k) \cup {list[last]}
    OBVIOUS
  <2>6. Chosen(f[1 .. k], first(k))
    BY <1>3
  <2>7. Chosen(f[1 .. last], first(last))
    BY <2>4, <2>5, <2>6, MergeChooses
  <2>. QED BY <2>7
<1>4. Nat \subseteq S
  <2>. HIDE DEF S
  <2>. QED BY <1>2, <1>3, Counting
<1>5. Chosen(f[1 .. n], first(n))
  <2>1. n \in S
    <3>. HIDE DEF S
    <3>. QED BY <1>4
  <2>. HIDE DEF first
  <2>2. n <= n
    OBVIOUS
  <2>. QED BY <2>1, <2>2
<1>6. ToSet(list) = first(n)
  BY DEF ToSet
<1>. QED BY <1>1, <1>5, <1>6 DEF MappingsChosen, Chosen

-----------------------------------------------------------------------------
(* From the raw value to the column.                                       *)

IsRaw(protocol, raw) ==
    \/ \E x \in Int : raw = Num(x)
    \/ protocol = "SNMP" /\ \E t \in Words : raw = Text(t)
    \/ protocol = "MODBUS" /\ \E b \in BOOLEAN : raw = Bool(b)

IsInput(i) ==
    /\ i.protocol \in {"SNMP", "MODBUS"} /\ IsRaw(i.protocol, i.raw)
    /\ i.m.type \in {"number", "integer", "bool", "text"} /\ i.m.scale \in Int /\ i.m.offset \in Int
    /\ i.metric \in {"FLOAT", "INTEGER", "BOOLEAN", "TEXT"}

LEMMA Cut ==
    ASSUME NEW x \in Int
    PROVE  Truncated(x) \in Int /\ Abs(Truncated(x) - x) <= Unit - 1
<1>1. CASE x < 0
  <2>. DEFINE q == (-x) \div 100
  <2>1. q \in Int /\ 100 * q <= -x /\ -x < 100 * q + 100
    BY <1>1
  <2>2. Truncated(x) = -(100 * q)
    BY <1>1, <2>1 DEF Truncated, Sign, Abs, Unit
  <2>. HIDE DEF q
  <2>. QED BY <1>1, <2>1, <2>2 DEF Abs, Unit
<1>2. CASE ~(x < 0)
  <2>. DEFINE q == x \div 100
  <2>1. q \in Int /\ 100 * q <= x /\ x < 100 * q + 100
    BY <1>2
  <2>2. Truncated(x) = 100 * q
    BY <1>2, <2>1 DEF Truncated, Sign, Abs, Unit
  <2>. HIDE DEF q
  <2>. QED BY <1>2, <2>1, <2>2 DEF Abs, Unit
<1>. QED BY <1>1, <1>2

LEMMA Rounded ==
    ASSUME NEW x \in Int
    PROVE  HalfUp(x) \in Int /\ Abs(HalfUp(x) - x) <= Unit \div 2
<1>1. CASE x < 0
  <2>. DEFINE q == (-x + 50) \div 100
  <2>1. q \in Int /\ 100 * q <= -x + 50 /\ -x + 50 < 100 * q + 100
    BY <1>1
  <2>2. HalfUp(x) = -(100 * q)
    BY <1>1, <2>1 DEF HalfUp, Sign, Abs, Unit
  <2>. HIDE DEF q
  <2>. QED BY <1>1, <2>1, <2>2 DEF Abs, Unit
<1>2. CASE ~(x < 0)
  <2>. DEFINE q == (x + 50) \div 100
  <2>1. q \in Int /\ 100 * q <= x + 50 /\ x + 50 < 100 * q + 100
    BY <1>2
  <2>2. HalfUp(x) = 100 * q
    BY <1>2, <2>1 DEF HalfUp, Sign, Abs, Unit
  <2>. HIDE DEF q
  <2>. QED BY <1>2, <2>1, <2>2 DEF Abs, Unit
<1>. QED BY <1>1, <1>2

\* What was cut off is not rounded any more.
LEMMA CutStays == ASSUME NEW x \in Int PROVE HalfUp(Truncated(x)) = Truncated(x)
<1>1. PICK q \in Int : Truncated(x) = 100 * q
  <2>1. CASE x < 0
    <3>1. (-x) \div 100 \in Int
      BY <2>1
    <3>2. Truncated(x) = 100 * (-((-x) \div 100))
      BY <2>1, <3>1 DEF Truncated, Sign, Abs, Unit
    <3>. QED BY <3>1, <3>2
  <2>2. CASE ~(x < 0)
    <3>1. x \div 100 \in Int
      BY <2>2
    <3>2. Truncated(x) = 100 * (x \div 100)
      BY <2>2, <3>1 DEF Truncated, Sign, Abs, Unit
    <3>. QED BY <3>1, <3>2
  <2>. QED BY <2>1, <2>2
<1>2. HalfUp(100 * q) = 100 * q
  <2>1. CASE q < 0
    <3>1. 100 * q < 0 /\ (-(100 * q) + 50) \div 100 = -q
      BY <2>1
    <3>. QED BY <3>1 DEF HalfUp, Sign, Abs, Unit
  <2>2. CASE ~(q < 0)
    <3>1. ~(100 * q < 0) /\ (100 * q + 50) \div 100 = q
      BY <2>2
    <3>. QED BY <3>1 DEF HalfUp, Sign, Abs, Unit
  <2>. QED BY <2>1, <2>2
<1>. QED BY <1>1, <1>2

Cuts(i) == i.protocol = "MODBUS" /\ i.m.type = "integer"

\* A number is read as the number that was measured, but for what an integer type
\* cuts off; a boolean counts as its number.
LEMMA NumberRead ==
    ASSUME NEW i, IsInput(i), NEW x \in Int, i.raw = Num(x)
    PROVE  LET v == Final(i.protocol, i.raw, i.m)
           IN  /\ v.type \in {"number", "bool"}
               /\ v.type = "bool" => v.is \in BOOLEAN
               /\ AsNumber(v) \in Int /\ Measured(i) \in Int
               /\ Truth(v) <=> AsNumber(v) # 0
               /\ AsNumber(v) = IF Cuts(i) THEN Truncated(Measured(i)) ELSE Measured(i)
<1>. DEFINE v == Final(i.protocol, i.raw, i.m)
            n == AsNumber(v)
            b == x # 0
<1>. USE DEF Num, Bool, Text
<1>1. i.raw.type = "number" /\ i.raw.is = x
  OBVIOUS
<1>2. \A y \in Int : Scaled(y, i.m) \in Int
  BY DEF IsInput, Scaled, Unit
<1>3. Truth(i.raw) = (x # 0)
  BY <1>1 DEF Truth
<1>4. CASE i.m.type = "text"
  <2>1. v = i.raw
    BY <1>1, <1>4 DEF IsInput, Final, Applied, Parsed, Normalized
  <2>2. n = x /\ (Truth(v) <=> x # 0)
    BY <1>1, <2>1, <1>3 DEF AsNumber
  <2>3. Measured(i) = x /\ ~Cuts(i)
    BY <1>1, <1>4 DEF Measured, Cuts
  <2>. QED BY <1>1, <2>1, <2>2, <2>3
<1>5. CASE i.m.type = "bool" /\ i.protocol = "MODBUS"
  <2>1. v = Bool(Truth(i.raw))
    BY <1>5 DEF Final, Normalized
  <2>2. v.type = "bool" /\ v.is = (x # 0)
    BY <2>1, <1>3
  <2>3. n = IF x = 0 THEN 0 ELSE Unit
    BY <2>2 DEF AsNumber
  <2>4. Truth(v) <=> x # 0
    BY <2>2 DEF Truth
  <2>5. Measured(i) = (IF x = 0 THEN 0 ELSE Unit) /\ ~Cuts(i)
    BY <1>1, <1>5 DEF Measured, Cuts
  <2>6. n \in Int /\ (x # 0 <=> n # 0)
    BY <2>3 DEF Unit
  <2>. QED BY <2>2, <2>3, <2>4, <2>5, <2>6
<1>6. CASE i.m.type = "bool" /\ i.protocol = "SNMP"
  <2>. DEFINE one == IF x # 0 THEN Unit ELSE 0
  <2>1. Parsed(i.raw, i.m) = Bool(Truth(i.raw))
    BY <1>6 DEF Parsed
  <2>2. v = Applied(Bool(x # 0), i.m)
    BY <1>6, <1>3, <2>1 DEF Final
  <2>3. Measured(i) = Scaled(one, i.m) /\ ~Cuts(i)
    BY <1>1, <1>6 DEF Measured, Cuts
  <2>4. one \in Int /\ (x # 0 <=> one # 0)
    BY DEF Unit
  <2>5. CASE i.m.scale = Unit /\ i.m.offset = 0
    <3>1. v = Bool(x # 0)
      BY <1>6, <2>2, <2>5 DEF Applied
    <3>2. v.type = "bool" /\ v.is = (x # 0)
      BY <3>1
    <3>3. n = one
      BY <3>2 DEF AsNumber
    <3>4. Truth(v) <=> x # 0
      BY <3>2 DEF Truth
    <3>5. Scaled(one, i.m) = one
      BY <2>5 DEF Scaled, Unit
    <3>. QED BY <2>3, <2>4, <3>2, <3>3, <3>4, <3>5
  <2>6. CASE ~(i.m.scale = Unit /\ i.m.offset = 0)
    <3>1. v = Num(Scaled(one, i.m))
      BY <1>6, <2>2, <2>6 DEF Applied
    <3>2. v.type = "number" /\ v.is = Scaled(one, i.m)
      BY <3>1
    <3>3. n = Scaled(one, i.m) /\ (Truth(v) <=> n # 0)
      BY <3>2 DEF AsNumber, Truth
    <3>4. n \in Int
      BY <1>2, <2>4, <3>3
    <3>. QED BY <2>3, <3>2, <3>3, <3>4
  <2>. QED BY <2>5, <2>6
<1>7. CASE i.m.type \in {"number", "integer"}
  <2>. DEFINE y == Scaled(x, i.m)
  <2>1. y \in Int /\ Measured(i) = y
    BY <1>1, <1>2, <1>7 DEF Measured
  <2>2. CASE Cuts(i)
    <3>1. v = Num(Truncated(y))
      BY <1>1, <2>2 DEF Cuts, Final, Normalized
    <3>2. v.type = "number" /\ v.is = Truncated(y) /\ Truncated(y) \in Int
      BY <2>1, <3>1, Cut
    <3>. QED BY <2>1, <2>2, <3>2 DEF AsNumber, Truth
  <2>3. CASE ~Cuts(i)
    <3>1. v = Num(y)
      BY <1>1, <1>7, <2>3 DEF Cuts, Final, Normalized, Applied, Parsed, IsInput
    <3>2. v.type = "number" /\ v.is = y
      BY <3>1
    <3>. QED BY <2>1, <2>3, <3>2 DEF AsNumber, Truth
  <2>. QED BY <2>2, <2>3
<1>. QED BY <1>4, <1>5, <1>6, <1>7 DEF IsInput

\* What becomes of a number.
LEMMA NumberStored ==
    ASSUME NEW i, IsInput(i), NEW x \in Int, i.raw = Num(x)
    PROVE  LET payload == Outcome(i)
           IN  /\ Quality(i.metric, payload) = "GOOD" /\ payload.column = ColumnOf(i.metric)
               /\ payload.value.type \in {"number", "bool"}
               /\ i.metric \in {"FLOAT", "INTEGER"} =>
                     /\ payload.value.type = "number" /\ payload.value.is \in Int
                     /\ Measured(i) \in Int
                     /\ Abs(payload.value.is - Measured(i)) <= Lost(i)
               /\ i.metric = "BOOLEAN" =>
                     payload.value.type = "bool" /\ payload.value.is \in BOOLEAN
               /\ i.metric = "BOOLEAN" /\ Lost(i) = 0 =>
                     (payload.value.is <=> Measured(i) # 0)
<1>. DEFINE v == Final(i.protocol, i.raw, i.m)
            n == AsNumber(v)
            payload == Outcome(i)
<1>. USE DEF Num, Bool, Text, None
<1>1. /\ v.type \in {"number", "bool"} /\ (v.type = "bool" => v.is \in BOOLEAN)
      /\ n \in Int /\ Measured(i) \in Int
      /\ Truth(v) <=> n # 0
      /\ n = IF Cuts(i) THEN Truncated(Measured(i)) ELSE Measured(i)
  BY NumberRead
<1>2. payload = Stored(i.metric, v)
  BY DEF Outcome
<1>. HIDE DEF v, n, payload
<1>3. CASE i.metric = "TEXT"
  <2>1. payload = [column |-> "text", value |-> v]
    BY <1>1, <1>2, <1>3 DEF Stored, GoesToText
  <2>2. payload.column = "text" /\ payload.value = v
    BY <2>1
  <2>. QED BY <1>1, <1>3, <2>2 DEF Quality, ColumnOf, payload
<1>4. CASE i.metric = "FLOAT"
  <2>1. payload = [column |-> "float", value |-> Num(n)]
    BY <1>1, <1>2, <1>4 DEF Stored, GoesToText, n
  <2>2. payload.column = "float" /\ payload.value.type = "number" /\ payload.value.is = n
    BY <2>1
  <2>3. Abs(n - Measured(i)) <= Lost(i)
    <3>1. CASE Cuts(i)
      <4>1. Lost(i) = Unit - 1
        BY <1>4, <3>1 DEF Lost, Cuts
      <4>. QED BY <1>1, <3>1, <4>1, Cut
    <3>2. CASE ~Cuts(i)
      <4>1. Lost(i) = 0
        BY <1>4, <3>2 DEF Lost, Cuts
      <4>. QED BY <1>1, <3>2, <4>1 DEF Abs
    <3>. QED BY <3>1, <3>2
  <2>. QED BY <1>1, <1>4, <2>2, <2>3 DEF Quality, ColumnOf, payload
<1>5. CASE i.metric = "INTEGER"
  <2>1. payload = [column |-> "integer", value |-> Num(HalfUp(n))]
    BY <1>1, <1>2, <1>5 DEF Stored, GoesToText, n
  <2>2. payload.column = "integer" /\ payload.value.type = "number" /\ payload.value.is = HalfUp(n)
    BY <2>1
  <2>3. Abs(HalfUp(n) - Measured(i)) <= Lost(i) /\ HalfUp(n) \in Int
    <3>1. CASE Cuts(i)
      <4>1. Lost(i) = Unit - 1
        BY <1>5, <3>1 DEF Lost, Cuts
      <4>. QED BY <1>1, <3>1, <4>1, Cut, CutStays
    <3>2. CASE ~Cuts(i)
      <4>1. Lost(i) = Unit \div 2
        BY <1>5, <3>2 DEF Lost, Cuts
      <4>. QED BY <1>1, <3>2, <4>1, Rounded
    <3>. QED BY <3>1, <3>2
  <2>. QED BY <1>1, <1>5, <2>2, <2>3 DEF Quality, ColumnOf, payload
<1>6. CASE i.metric = "BOOLEAN"
  <2>1. payload = [column |-> "boolean", value |-> Bool(Truth(v))]
    BY <1>1, <1>2, <1>6 DEF Stored, GoesToText
  <2>2. payload.column = "boolean" /\ payload.value.type = "bool" /\ payload.value.is = Truth(v)
    BY <2>1
  <2>3. Truth(v) \in BOOLEAN
    BY <1>1 DEF Truth
  <2>4. Lost(i) = 0 => ~Cuts(i)
    BY <1>6 DEF Lost, Cuts, Unit
  <2>5. Lost(i) = 0 => (payload.value.is <=> Measured(i) # 0)
    BY <1>1, <2>2, <2>4
  <2>. QED BY <1>1, <1>6, <2>2, <2>3, <2>5 DEF Quality, ColumnOf, payload
<1>. QED BY <1>3, <1>4, <1>5, <1>6 DEF IsInput, payload

\* A number arrives in the column of its metric and within what the types lose; a text
\* is no number, a coil is read by boolean mappings (store_value_by_metric_type).
THEOREM ReadingsAreStored == ASSUME NEW i, IsInput(i) PROVE StoredAsMeasured(i)
<1>. DEFINE v == Final(i.protocol, i.raw, i.m)
            payload == Outcome(i)
<1>. USE DEF Num, Bool, Text, None
<1>1. payload = Stored(i.metric, v)
  BY DEF Outcome
<1>2. CASE \E x \in Int : i.raw = Num(x)
  <2>1. PICK x \in Int : i.raw = Num(x)
    BY <1>2
  <2>2. i.raw.type = "number"
    BY <2>1
  <2>. QED BY <2>1, <2>2, NumberStored DEF StoredAsMeasured
<1>3. ASSUME i.protocol = "SNMP", NEW t \in Words, i.raw = Text(t) PROVE StoredAsMeasured(i)
  <2>1. i.raw.type = "text"
    BY <1>3
  <2>2. ASSUME i.m.type # "bool", i.metric \in {"FLOAT", "INTEGER"}
        PROVE  Quality(i.metric, payload) # "GOOD"
    <3>1. v = i.raw
      BY <1>3, <2>1, <2>2 DEF IsInput, Final, Parsed, Applied
    <3>2. payload = [column |-> "text", value |-> i.raw]
      BY <1>1, <2>1, <2>2, <3>1 DEF Stored, GoesToText
    <3>3. payload.column = "text" /\ ColumnOf(i.metric) # "text"
      BY <2>2, <3>2 DEF ColumnOf
    <3>. QED BY <3>3 DEF Quality
  <2>. QED BY <2>1, <2>2 DEF StoredAsMeasured
<1>4. ASSUME i.protocol = "MODBUS", NEW b \in BOOLEAN, i.raw = Bool(b) PROVE StoredAsMeasured(i)
  <2>1. i.raw.type = "bool" /\ i.raw.is = b
    BY <1>4
  <2>2. ASSUME i.metric = "BOOLEAN"
        PROVE  /\ (Quality(i.metric, payload) = "GOOD" <=> i.m.type \in {"bool", "text"})
               /\ Quality(i.metric, payload) = "GOOD" => payload.value = i.raw
    <3>1. CASE i.m.type \in {"bool", "text"}
      <4>1. v.type # "none" /\ Truth(v) = b
        <5>1. CASE i.m.type = "bool"
          <6>1. v = Bool(Truth(i.raw)) /\ Truth(i.raw) = b
            BY <1>4, <2>1, <5>1 DEF Final, Normalized, Truth
          <6>. QED BY <6>1 DEF Truth
        <5>2. CASE i.m.type = "text"
          <6>1. v = Text(IF b THEN "on" ELSE "off")
            BY <1>4, <2>1, <5>2 DEF Final, Normalized
          <6>. QED BY <6>1 DEF Truth
        <5>. QED BY <3>1, <5>1, <5>2
      <4>2. payload = [column |-> "boolean", value |-> Bool(b)]
        BY <1>1, <2>2, <4>1 DEF Stored, GoesToText
      <4>3. payload.column = "boolean" /\ payload.value = Bool(b)
            /\ payload.value.type = "bool"
        BY <4>2
      <4>. QED BY <1>4, <2>2, <3>1, <4>3 DEF Quality, ColumnOf
    <3>2. CASE i.m.type \notin {"bool", "text"}
      <4>1. v = None
        BY <1>4, <2>1, <3>2 DEF Final, Normalized
      <4>2. payload = [column |-> "none", value |-> None]
        BY <1>1, <4>1 DEF Stored
      <4>3. payload.column = "none"
        BY <4>2
      <4>. QED BY <2>2, <3>2, <4>3 DEF Quality, ColumnOf
    <3>. QED BY <3>1, <3>2
  <2>. QED BY <2>1, <2>2 DEF StoredAsMeasured
<1>. QED BY <1>2, <1>3, <1>4 DEF IsInput, IsRaw

-----------------------------------------------------------------------------
(* Credentials.                                                            *)

IsSecret(secret) == secret = Absent \/ \E text : secret = Plain(text)

LEMMA SecretBack ==
    ASSUME NEW secret, IsSecret(secret), NEW key, NEW other, key # other
    PROVE  LET token == Encrypted(secret, key)
           IN  /\ Decrypted(secret, key) = secret
               /\ Decrypted(token, key) = secret
               /\ Decrypted(token, other) = Absent
               /\ Encrypted(token, other) = token
<1>1. CASE secret = Absent
  <2>1. secret.form = "absent"
    BY <1>1 DEF Absent
  <2>. QED BY <1>1, <2>1 DEF Encrypted, Decrypted
<1>2. ASSUME NEW text, secret = Plain(text)
      PROVE  LET token == Encrypted(secret, key)
             IN  /\ Decrypted(secret, key) = secret
                 /\ Decrypted(token, key) = secret
                 /\ Decrypted(token, other) = Absent
                 /\ Encrypted(token, other) = token
  <2>. DEFINE token == Encrypted(secret, key)
  <2>1. secret.form = "plain" /\ secret.text = text
    BY <1>2 DEF Plain
  <2>2. token = [form |-> "token", text |-> text, key |-> key]
    BY <2>1 DEF Encrypted
  <2>3. token.form = "token" /\ token.text = text /\ token.key = key
    BY <2>2
  <2>. HIDE DEF token
  <2>4. Decrypted(secret, key) = secret
    BY <2>1 DEF Decrypted
  <2>5. Decrypted(token, key) = secret /\ Decrypted(token, other) = Absent
    BY <1>2, <2>3 DEF Decrypted
  <2>6. Encrypted(token, other) = token
    BY <2>3 DEF Encrypted
  <2>. QED BY <2>4, <2>5, <2>6 DEF token
<1>. QED BY <1>1, <1>2 DEF IsSecret

\* The client uses the secrets that were set, whatever else the credential says, as
\* long as the key stays (encrypt_secret, SNMPClient._auth_data).
THEOREM SecretsAreKept ==
    ASSUME NEW o, IsSecret(o.community), IsSecret(o.authKey), IsSecret(o.privKey),
           NEW key, NEW other, key # other
    PROVE  SecretsKept(o, key, other)
<1>. DEFINE c == Saved(o, key)
            d == [c EXCEPT !.community = o.community, !.authKey = o.authKey,
                           !.privKey = o.privKey]
<1>1. /\ c.version = o.version /\ c.username = o.username
      /\ c.community = Encrypted(o.community, key)
      /\ c.auth = o.auth /\ c.authKey = Encrypted(o.authKey, key)
      /\ c.priv = o.priv /\ c.privKey = Encrypted(o.privKey, key)
  BY DEF Saved
<1>2. /\ d.version = o.version /\ d.username = o.username /\ d.community = o.community
      /\ d.auth = o.auth /\ d.authKey = o.authKey
      /\ d.priv = o.priv /\ d.privKey = o.privKey
  BY DEF Saved
<1>. HIDE DEF c, d
<1>3. AuthData(c, key) = AuthData(d, key)
  <2>1. /\ Decrypted(c.community, key) = Decrypted(d.community, key)
        /\ Decrypted(c.authKey, key) = Decrypted(d.authKey, key)
        /\ Decrypted(c.privKey, key) = Decrypted(d.privKey, key)
    BY <1>1, <1>2, SecretBack
  <2>2. /\ c.version = d.version /\ c.username = d.username
        /\ c.auth = d.auth /\ c.priv = d.priv
    BY <1>1, <1>2
  <2>. QED BY <2>1, <2>2 DEF AuthData
<1>4. Encrypted(Encrypted(o.community, key), other) = Encrypted(o.community, key)
  BY SecretBack
<1>5. o.version \in {"1", "2c"} => AuthData(c, other) = "refused"
  <2>1. Decrypted(c.community, other) = Absent
    BY <1>1, SecretBack
  <2>. QED BY <1>1, <2>1 DEF AuthData
<1>. QED BY <1>3, <1>4, <1>5 DEF SecretsKept, c, d

-----------------------------------------------------------------------------
(* Registers.                                                              *)

LEMMA AtLeastOnce == ASSUME NEW w \in Nat, NEW a \in Nat, a >= 1 PROVE w * a >= w
  OBVIOUS

LEMMA Divided ==
    ASSUME NEW w \in Nat \ {0}, NEW x \in Int
    PROVE  x \div w \in Int /\ x % w \in 0 .. w - 1 /\ x = w * (x \div w) + (x % w)
<1>1. w \in Int /\ w > 0
  OBVIOUS
<1>2. x \div w \in Int
  BY <1>1
<1>3. x % w \in 0 .. w - 1
  BY <1>1
<1>4. x = w * (x \div w) + (x % w)
  BY <1>1
<1>. QED BY <1>2, <1>3, <1>4

LEMMA DividedOnce ==
    ASSUME NEW w \in Nat \ {0}, NEW q \in Int, NEW r \in 0 .. w - 1
    PROVE  (w * q + r) \div w = q /\ (w * q + r) % w = r
<1>. DEFINE x == w * q + r
            p == x \div w
            t == x % w
<1>1. x \in Int
  OBVIOUS
<1>2. p \in Int /\ t \in 0 .. w - 1 /\ w * q + r = w * p + t
  BY <1>1, Divided
<1>. HIDE DEF p, t
<1>3. w * (q - p) = t - r
  BY <1>2
<1>4. ~(q - p >= 1)
  <2>. SUFFICES ASSUME q - p >= 1 PROVE FALSE
    OBVIOUS
  <2>1. w * (q - p) >= w
    BY <1>2, AtLeastOnce
  <2>. QED BY <1>2, <1>3, <2>1
<1>5. ~(p - q >= 1)
  <2>. SUFFICES ASSUME p - q >= 1 PROVE FALSE
    OBVIOUS
  <2>1. w * (p - q) >= w
    BY <1>2, AtLeastOnce
  <2>2. w * (p - q) = r - t
    BY <1>2
  <2>. QED BY <1>2, <2>1, <2>2
<1>6. p = q
  BY <1>2, <1>4, <1>5
<1>7. t = r
  BY <1>2, <1>6
<1>. QED BY <1>6, <1>7 DEF p, t

\* What the lower halves of a range become under \div and %.
LEMMA Wraps ==
    ASSUME NEW w \in Nat \ {0}, NEW x \in Int
    PROVE  /\ x \in 0 .. w - 1 => x % w = x
           /\ x \in -w .. -1 => x % w = x + w
<1>1. ASSUME x \in 0 .. w - 1 PROVE x % w = x
  <2>1. (w * 0 + x) % w = x
    BY <1>1, DividedOnce
  <2>2. w * 0 + x = x
    OBVIOUS
  <2>. QED BY <2>1, <2>2
<1>2. ASSUME x \in -w .. -1 PROVE x % w = x + w
  <2>1. x + w \in 0 .. w - 1 /\ -1 \in Int
    BY <1>2
  <2>2. (w * (-1) + (x + w)) % w = x + w
    BY <2>1, DividedOnce
  <2>3. w * (-1) + (x + w) = x
    OBVIOUS
  <2>. QED BY <2>2, <2>3
<1>. QED BY <1>1, <1>2

LEMMA Halves ==
    ASSUME NEW w \in Nat \ {0}, NEW h \in Nat, w = 2 * h
    PROVE  w \div 2 = h /\ w * w = 2 * (w * h) /\ (w * w) \div 2 = w * h /\ w * h \in Nat
<1>1. w \div 2 = h
  OBVIOUS
<1>2. w * w = 2 * (w * h)
  OBVIOUS
<1>. DEFINE p == w * h
<1>3. p \in Nat
  OBVIOUS
<1>. HIDE DEF p
<1>4. (2 * p) \div 2 = p
  BY <1>3
<1>. QED BY <1>1, <1>2, <1>3, <1>4 DEF p

LEMMA TwoWords ==
    ASSUME NEW w \in Nat \ {0}, NEW x \in Int, -(w * w) <= x, x < w * w
    PROVE  LET wide == ((x \div w) % w) * w + (x % w)
           IN  wide = IF x < 0 THEN x + w * w ELSE x
<1>. DEFINE q == x \div w
            r == x % w
<1>1. q \in Int /\ r \in 0 .. w - 1 /\ x = (w * q) + r
  BY Divided
<1>. HIDE DEF q, r
<1>2. CASE ~(x < 0)
  <2>1. q >= 0
    <3>. SUFFICES ASSUME -q >= 1 PROVE FALSE
      BY <1>1
    <3>1. w * (-q) >= w
      BY <1>1, AtLeastOnce
    <3>. QED BY <1>1, <1>2, <3>1
  <2>2. q < w
    <3>. SUFFICES ASSUME q - w >= 0 PROVE FALSE
      BY <1>1
    <3>1. w * (q - w) >= 0
      BY <1>1
    <3>. QED BY <1>1, <3>1
  <2>3. q % w = q
    BY <1>1, <2>1, <2>2, Wraps
  <2>4. (q % w) * w + r = IF x < 0 THEN x + w * w ELSE x
    BY <1>1, <1>2, <2>3
  <2>. QED BY <2>4 DEF q, r
<1>3. CASE x < 0
  <2>1. q <= -1
    <3>. SUFFICES ASSUME q >= 0 PROVE FALSE
      BY <1>1
    <3>1. w * q >= 0
      BY <1>1
    <3>. QED BY <1>1, <1>3, <3>1
  <2>2. -w <= q
    <3>. SUFFICES ASSUME -q - w >= 1 PROVE FALSE
      BY <1>1
    <3>1. w * (-q - w) >= w
      BY <1>1, AtLeastOnce
    <3>. QED BY <1>1, <3>1
  <2>3. q % w = q + w
    BY <1>1, <2>1, <2>2, Wraps
  <2>4. (q + w) * w + r = x + w * w
    BY <1>1
  <2>5. (q % w) * w + r = IF x < 0 THEN x + w * w ELSE x
    BY <1>3, <2>3, <2>4
  <2>. QED BY <2>5 DEF q, r
<1>. QED BY <1>2, <1>3

\* A register counts to an even number: to 2^16 in the devices.
RegisterAssumption == Word \in Nat \ {0} /\ Word % 2 = 0

LEMMA OneRegister ==
    ASSUME NEW w \in Nat \ {0}, NEW h \in Nat, w = 2 * h, NEW x \in Int, -h <= x, x < h
    PROVE  (IF x % w > h - 1 THEN (x % w) - w ELSE x % w) = x
<1>1. CASE x < 0
  <2>1. x % w = x + w
    BY <1>1, Wraps
  <2>. QED BY <1>1, <2>1
<1>2. CASE ~(x < 0)
  <2>1. x % w = x
    BY <1>2, Wraps
  <2>. QED BY <1>2, <2>1
<1>. QED BY <1>1, <1>2

\* A number that a device wrote into its registers is read as that number, with its
\* sign, and not at all when a register is missing (_read_mapping).
THEOREM RegistersAreRead ==
    ASSUME RegisterAssumption, NEW type, NEW x \in RangeOf(type)
    PROVE  RegistersRead(x, type)
<1>. DEFINE h == Word \div 2
            hi == (x \div Word) % Word
            lo == x % Word
            wide == hi * Word + lo
<1>1. Word \in Nat \ {0} /\ h \in Nat /\ Word = 2 * h
  BY DEF RegisterAssumption
<1>2. (Word * Word) \div 2 = Word * h /\ Word * Word = 2 * (Word * h) /\ Word * h \in Nat
  <2>. HIDE DEF h
  <2>. QED BY <1>1, Halves
<1>. HIDE DEF h
<1>3. CASE type \in {"uint32", "int32"}
  <2>. DEFINE regs == <<hi, lo>>
  <2>1. Encoded(x, type) = regs
    BY <1>3 DEF Encoded
  <2>. HIDE DEF hi, lo
  <2>2. Len(regs) = 2 /\ regs[1] * Word + regs[2] = wide
    OBVIOUS
  <2>3. Decoded(regs, type) =
            IF type = "int32" /\ wide > (Word * Word) \div 2 - 1
            THEN wide - Word * Word ELSE wide
    BY <1>3, <2>2 DEF Decoded
  <2>4. Decoded(<<lo>>, type) = NoNumber
    BY <1>3 DEF Decoded
  <2>. HIDE DEF regs, wide
  <2>5. x \in Int /\ -(Word * Word) <= x /\ x < Word * Word
    BY <1>1, <1>2, <1>3 DEF RangeOf
  <2>6. wide = IF x < 0 THEN x + Word * Word ELSE x
    BY <1>1, <2>5, TwoWords DEF wide, hi, lo
  <2>7. CASE type = "uint32"
    <3>1. ~(x < 0)
      BY <1>1, <2>7 DEF RangeOf
    <3>. QED BY <1>3, <2>1, <2>3, <2>4, <2>6, <2>7, <3>1 DEF RegistersRead, lo
  <2>8. CASE type = "int32"
    <3>1. -(Word * h) <= x /\ x <= Word * h - 1
      BY <1>2, <2>8 DEF RangeOf
    <3>2. wide > Word * h - 1 <=> x < 0
      BY <1>1, <1>2, <2>5, <2>6, <3>1
    <3>3. Decoded(regs, type) = x
      BY <1>1, <1>2, <2>3, <2>5, <2>6, <2>8, <3>2
    <3>. QED BY <1>3, <2>1, <2>4, <3>3 DEF RegistersRead, lo
  <2>. QED BY <1>3, <2>7, <2>8
<1>4. CASE type = "int16"
  <2>1. x \in Int /\ -h <= x /\ x < h
    BY <1>1, <1>4 DEF RangeOf, h
  <2>2. (IF x % Word > h - 1 THEN (x % Word) - Word ELSE x % Word) = x
    BY <1>1, <2>1, OneRegister
  <2>. QED BY <1>4, <2>2 DEF RegistersRead, Encoded, Decoded, h
<1>5. CASE type \notin {"uint32", "int32", "int16"}
  <2>1. x \in 0 .. Word - 1
    BY <1>5 DEF RangeOf
  <2>2. x % Word = x
    BY <1>1, <2>1, Wraps
  <2>. QED BY <1>5, <2>2 DEF RegistersRead, Encoded, Decoded
<1>. QED BY <1>3, <1>4, <1>5

-----------------------------------------------------------------------------
(* Conditions.                                                             *)

Operators == {"GT", "GTE", "LT", "LTE", "EQ", "NEQ"}

\* A threshold is set in one column, to a value of that column.
IsThreshold(t) ==
    \E column \in ToSet(Columns) :
        /\ \A other \in ToSet(Columns) \ {column} : t[other] = None
        /\ CASE column = "boolean" -> \E b \in BOOLEAN : t[column] = Bool(b)
             [] column = "text"    -> \E w \in Words : t[column] = Text(w)
             [] OTHER              -> \E x \in Int : t[column] = Num(x)

LEMMA ColumnsAre ==
    /\ DOMAIN Columns = 1 .. 4 /\ ToSet(Columns) = {"float", "integer", "boolean", "text"}
    /\ \A i, j \in DOMAIN Columns : Columns[i] = Columns[j] => i = j
<1>1. DOMAIN Columns = 1 .. 4 /\ 1 .. 4 = {1, 2, 3, 4}
  BY DEF Columns
<1>2. Columns[1] = "float" /\ Columns[2] = "integer" /\ Columns[3] = "boolean"
      /\ Columns[4] = "text"
  BY DEF Columns
<1>3. ToSet(Columns) = {Columns[i] : i \in {1, 2, 3, 4}}
  BY <1>1 DEF ToSet
<1>. HIDE DEF Columns
<1>4. ToSet(Columns) = {"float", "integer", "boolean", "text"}
  BY <1>2, <1>3
<1>5. \A i, j \in {1, 2, 3, 4} : Columns[i] = Columns[j] => i = j
  BY <1>2
<1>. QED BY <1>1, <1>4, <1>5

\* The one column that is set is found, and nothing is where none is.
LEMMA ColumnFound ==
    ASSUME NEW row, NEW column, NEW value,
           column \in ToSet(Columns) => row[column] = value /\ value # None,
           \A other \in ToSet(Columns) \ {column} : row[other] = None,
           column \notin ToSet(Columns) => value = None
    PROVE  FirstSet(row) = value
<1>. DEFINE set == {i \in DOMAIN Columns : row[Columns[i]] # None}
<1>1. \A i \in DOMAIN Columns : Columns[i] \in ToSet(Columns)
  BY DEF ToSet
<1>2. CASE column \notin ToSet(Columns)
  <2>1. set = {}
    BY <1>1, <1>2
  <2>. QED BY <1>2, <2>1 DEF FirstSet
<1>3. CASE column \in ToSet(Columns)
  <2>1. PICK k \in DOMAIN Columns : Columns[k] = column
    BY <1>3 DEF ToSet
  <2>2. set = {k}
    <3>1. k \in set
      BY <1>3, <2>1
    <3>2. \A i \in set : Columns[i] = column
      BY <1>1
    <3>. QED BY <2>1, <3>1, <3>2, ColumnsAre
  <2>3. set \subseteq Nat /\ set # {}
    BY <2>2, ColumnsAre
  <2>4. Min(set) \in set
    <3>. HIDE DEF set
    <3>. QED BY <2>3, MinOf
  <2>5. Min(set) = k
    BY <2>2, <2>4
  <2>. QED BY <1>3, <2>1, <2>2, <2>5 DEF FirstSet
<1>. QED BY <1>2, <1>3

\* A threshold is what its column holds.
LEMMA ThresholdFound ==
    ASSUME NEW t, IsThreshold(t)
    PROVE  LET threshold == FirstSet(t)
           IN  /\ threshold.type \in {"number", "bool", "text"}
               /\ threshold.type = "number" => threshold.is \in Int
               /\ threshold.type = "bool" => threshold.is \in BOOLEAN
<1>. USE DEF Num, Bool, Text, None
<1>1. PICK column \in ToSet(Columns) :
          /\ \A other \in ToSet(Columns) \ {column} : t[other] = None
          /\ CASE column = "boolean" -> \E b \in BOOLEAN : t[column] = Bool(b)
               [] column = "text"    -> \E w \in Words : t[column] = Text(w)
               [] OTHER              -> \E x \in Int : t[column] = Num(x)
  BY DEF IsThreshold
<1>. DEFINE v == t[column]
<1>2. /\ v.type \in {"number", "bool", "text"}
      /\ v.type = "number" => v.is \in Int
      /\ v.type = "bool" => v.is \in BOOLEAN
  <2>1. \/ \E b \in BOOLEAN : v = [type |-> "bool", is |-> b]
        \/ \E w \in Words : v = [type |-> "text", is |-> w]
        \/ \E x \in Int : v = [type |-> "number", is |-> x]
    BY <1>1
  <2>. HIDE DEF v
  <2>. QED BY <2>1
<1>3. v # None
  BY <1>2
<1>4. FirstSet(t) = v
  <2>. HIDE DEF None
  <2>. QED BY <1>1, <1>3, ColumnFound
<1>. QED BY <1>2, <1>4

\* What is read back of what is stored.
LEMMA ReadBack ==
    ASSUME NEW metric, metric \in {"FLOAT", "INTEGER", "BOOLEAN", "TEXT"}, NEW v
    PROVE  LET payload == Stored(metric, v)
               latest == [c \in ToSet(Columns) |->
                            IF c = payload.column THEN payload.value ELSE None]
           IN  /\ FirstSet(latest) = payload.value
               /\ payload.value # None => payload.value.type # "none"
<1>. DEFINE payload == Stored(metric, v)
            latest == [c \in ToSet(Columns) |->
                            IF c = payload.column THEN payload.value ELSE None]
<1>1. \/ payload.column = "none" /\ payload.value = None
      \/ payload.column \in {"float", "integer", "boolean", "text"}
         /\ payload.value.type # "none"
  BY DEF Stored, GoesToText, Num, Bool, Text
<1>2. "none" \notin ToSet(Columns)
  BY ColumnsAre
<1>3. payload.value.type # "none" => payload.value # None
  BY DEF None
<1>. HIDE DEF payload
<1>4. FirstSet(latest) = payload.value
  <2>1. \A c \in ToSet(Columns) :
            latest[c] = IF c = payload.column THEN payload.value ELSE None
    OBVIOUS
  <2>. HIDE DEF latest
  <2>2. CASE payload.column = "none" /\ payload.value = None
    BY <1>2, <2>1, <2>2, ColumnFound
  <2>3. CASE payload.column \in {"float", "integer", "boolean", "text"}
             /\ payload.value.type # "none"
    <3>1. payload.column \in ToSet(Columns) /\ payload.value # None
      BY <1>3, <2>3, ColumnsAre
    <3>. QED BY <2>1, <3>1, ColumnFound
  <2>. QED BY <1>1, <2>2, <2>3
<1>. QED BY <1>1, <1>4 DEF payload

LEMMA SameSide ==
    ASSUME NEW y \in Int, NEW t \in Int, NEW m \in Int, NEW lost \in Nat,
           Abs(y - m) <= lost, lost = 0 \/ Abs(m - t) > lost
    PROVE  /\ y < t <=> m - t < 0
           /\ y = t <=> m - t = 0
  BY DEF Abs

LEMMA Compared ==
    ASSUME NEW operator \in Operators,
           NEW y \in Int, NEW t \in Int, NEW m \in Int, NEW lost \in Nat,
           Abs(y - m) <= lost, lost = 0 \/ Abs(m - t) > lost
    PROVE  Ordered(operator, y, t) <=> Meets(operator, m - t)
<1>. DEFINE d == m - t
            sign == IF d = 0 THEN 0 ELSE Sign(d)
<1>1. (y < t <=> d < 0) /\ (y = t <=> d = 0)
  BY SameSide
<1>2. d \in Int
  OBVIOUS
<1>3. sign = IF y = t THEN 0 ELSE IF y < t THEN -1 ELSE 1
  BY <1>1, <1>2 DEF Sign
<1>4. Meets(operator, d) <=> sign \in Signs[operator]
  BY DEF Meets
<1>. HIDE DEF sign, d
<1>5. CASE operator = "GT"
  <2>1. Ordered(operator, y, t) <=> y > t
    BY <1>5 DEF Ordered
  <2>2. Signs[operator] = {1}
    BY <1>5 DEF Signs
  <2>3. sign \in {1} <=> y > t
    BY <1>3
  <2>. QED BY <1>4, <2>1, <2>2, <2>3 DEF d
<1>6. CASE operator = "GTE"
  <2>1. Ordered(operator, y, t) <=> y >= t
    BY <1>6 DEF Ordered
  <2>2. Signs[operator] = {0, 1}
    BY <1>6 DEF Signs
  <2>3. sign \in {0, 1} <=> y >= t
    BY <1>3
  <2>. QED BY <1>4, <2>1, <2>2, <2>3 DEF d
<1>7. CASE operator = "LT"
  <2>1. Ordered(operator, y, t) <=> y < t
    BY <1>7 DEF Ordered
  <2>2. Signs[operator] = {-1}
    BY <1>7 DEF Signs
  <2>3. sign \in {-1} <=> y < t
    BY <1>3
  <2>. QED BY <1>4, <2>1, <2>2, <2>3 DEF d
<1>8. CASE operator = "LTE"
  <2>1. Ordered(operator, y, t) <=> y <= t
    BY <1>8 DEF Ordered
  <2>2. Signs[operator] = {-1, 0}
    BY <1>8 DEF Signs
  <2>3. sign \in {-1, 0} <=> y <= t
    BY <1>3
  <2>. QED BY <1>4, <2>1, <2>2, <2>3 DEF d
<1>9. CASE operator = "EQ"
  <2>1. Ordered(operator, y, t) <=> y = t
    BY <1>9 DEF Ordered
  <2>2. Signs[operator] = {0}
    BY <1>9 DEF Signs
  <2>3. sign \in {0} <=> y = t
    BY <1>3
  <2>. QED BY <1>4, <2>1, <2>2, <2>3 DEF d
<1>10. CASE operator = "NEQ"
  <2>1. Ordered(operator, y, t) <=> y # t
    BY <1>10 DEF Ordered
  <2>2. Signs[operator] = {-1, 1}
    BY <1>10 DEF Signs
  <2>3. sign \in {-1, 1} <=> y # t
    BY <1>3
  <2>. QED BY <1>4, <2>1, <2>2, <2>3 DEF d
<1>. QED BY <1>5, <1>6, <1>7, <1>8, <1>9, <1>10 DEF Operators, d

LEMMA NumberKeys ==
    ASSUME NEW v, v.type \in {"number", "bool"}
    PROVE  Key(v) = AsNumber(v) /\ v # None /\ v.type # "text"
  BY DEF Key, None

LEMMA ComparedNumbers ==
    ASSUME NEW operator, NEW v, v.type \in {"number", "bool"},
           NEW t, t.type \in {"number", "bool"}
    PROVE  Compare(operator, v, t) <=> Ordered(operator, AsNumber(v), AsNumber(t))
  BY NumberKeys DEF Compare

\* What is stored of a reading meets a threshold exactly when what was measured does,
\* but for measures nearer to it than the types lose; and what is no number satisfies
\* no condition but NEQ (evaluate_rule_condition).
THEOREM ConditionsAreAsMeasured ==
    ASSUME NEW i, IsInput(i), NEW rule, rule.operator \in Operators,
           IsThreshold(rule.threshold)
    PROVE  ConditionAsMeasured(i, rule)
<1>. DEFINE payload == Outcome(i)
            v == payload.value
            threshold == FirstSet(rule.threshold)
            latest == [c \in ToSet(Columns) |-> IF c = payload.column THEN payload.value ELSE None]
            holds == Condition(rule, latest)
            number == i.raw.type = "number" /\ i.metric \in {"FLOAT", "INTEGER"}
            exact == Lost(i) = 0 \/ Abs(Measured(i) - threshold.is) > Lost(i)
<1>1. FirstSet(latest) = v /\ (v # None => v.type # "none")
  BY ReadBack DEF Outcome, IsInput
<1>2. /\ threshold.type \in {"number", "bool", "text"}
      /\ threshold.type = "number" => threshold.is \in Int
      /\ threshold.type = "bool" => threshold.is \in BOOLEAN
  BY ThresholdFound
<1>3. holds <=> Compare(rule.operator, v, threshold)
  BY <1>1 DEF Condition
<1>4. i.raw.type = "number" => \E x \in Int : i.raw = Num(x)
  <2>1. \A t : Text(t).type = "text" /\ Bool(t).type = "bool"
    BY DEF Text, Bool
  <2>. QED BY <2>1 DEF IsInput, IsRaw
<1>5. Lost(i) \in Nat
  BY DEF Lost, Unit
<1>. HIDE DEF holds, threshold, v
<1>6. ASSUME number, threshold.type = "number", exact
      PROVE  holds <=> Meets(rule.operator, Measured(i) - threshold.is)
  <2>1. v.type = "number" /\ v.is \in Int /\ Measured(i) \in Int
        /\ Abs(v.is - Measured(i)) <= Lost(i)
    BY <1>4, <1>6, NumberStored DEF v
  <2>2. AsNumber(v) = v.is /\ AsNumber(threshold) = threshold.is
    BY <1>6, <2>1 DEF AsNumber
  <2>3. holds <=> Ordered(rule.operator, v.is, threshold.is)
    BY <1>3, <1>6, <2>1, <2>2, ComparedNumbers
  <2>4. threshold.is \in Int
    BY <1>2, <1>6
  <2>. QED BY <1>5, <1>6, <2>1, <2>3, <2>4, Compared
<1>7. ASSUME i.raw.type = "number", i.metric = "BOOLEAN", Lost(i) = 0, threshold.type = "bool"
      PROVE  holds <=> Meets(rule.operator, (IF Measured(i) # 0 THEN Unit ELSE 0)
                                                - AsNumber(threshold))
  <2>1. v.type = "bool" /\ v.is \in BOOLEAN /\ (v.is <=> Measured(i) # 0)
    BY <1>4, <1>7, NumberStored DEF v
  <2>2. AsNumber(v) = (IF Measured(i) # 0 THEN Unit ELSE 0)
    BY <2>1 DEF AsNumber
  <2>3. AsNumber(v) \in Int /\ AsNumber(threshold) \in Int
    BY <1>2, <1>7, <2>1 DEF AsNumber, Unit
  <2>4. holds <=> Ordered(rule.operator, AsNumber(v), AsNumber(threshold))
    BY <1>3, <1>7, <2>1, ComparedNumbers
  <2>5. 0 \in Nat /\ Abs(AsNumber(v) - AsNumber(v)) <= 0
    BY <2>3 DEF Abs
  <2>6. Ordered(rule.operator, AsNumber(v), AsNumber(threshold))
            <=> Meets(rule.operator, AsNumber(v) - AsNumber(threshold))
    BY <2>3, <2>5, Compared
  <2>. QED BY <2>2, <2>4, <2>6
<1>8. ASSUME v.type \in {"none", "text"}, threshold.type # "text"
      PROVE  holds <=> rule.operator = "NEQ"
  <2>1. ~(v # None /\ (v.type = "text" <=> threshold.type = "text"))
    BY <1>1, <1>8
  <2>. QED BY <1>3, <2>1 DEF Compare
<1>. QED BY <1>6, <1>7, <1>8 DEF ConditionAsMeasured, holds, threshold, v

-----------------------------------------------------------------------------
(* Rules: a finite set of them can be sorted.                              *)

LEMMA Ranks == ASSUME NEW rule PROVE Rank(rule) \in Nat
  BY DEF Rank

LEMMA SomeRuleIsLast ==
    ASSUME NEW rules, \A rule \in rules : rule.created \in Nat, rules # {}
    PROVE  \E last \in rules : \A rule \in rules : ~Before(last, rule)
<1>. DEFINE R == {Rank(rule) : rule \in rules}
<1>1. R \subseteq Nat /\ R # {}
  BY Ranks
<1>2. PICK r \in R : \A n \in R : r <= n
  <2>. HIDE DEF R
  <2>. QED BY <1>1, Least
<1>. DEFINE C == {rule.created : rule \in {a \in rules : Rank(a) = r}}
<1>3. C \subseteq Nat /\ C # {}
  OBVIOUS
<1>4. PICK c \in C : \A n \in C : c <= n
  <2>. HIDE DEF C
  <2>. QED BY <1>3, Least
<1>5. PICK last \in rules : Rank(last) = r /\ last.created = c
  OBVIOUS
<1>6. ASSUME NEW rule \in rules PROVE ~Before(last, rule)
  <2>1. Rank(rule) \in Nat /\ r \in Nat /\ r <= Rank(rule)
    BY <1>1, <1>2
  <2>2. rule.created \in Nat /\ c \in Nat
    BY <1>3
  <2>3. Rank(rule) = r => c <= rule.created
    BY <1>4
  <2>. HIDE DEF R, C
  <2>. QED BY <1>5, <2>1, <2>2, <2>3 DEF Before
<1>. QED BY <1>6

IsSorting(list, all) ==
    /\ ToSet(list) = all
    /\ \A i, j \in DOMAIN list : i < j => ~Before(list[j], list[i])

LEMMA RulesCanBeSorted ==
    ASSUME NEW rules, \A rule \in rules : rule.created \in Nat
    PROVE  \A all \in SUBSET rules :
              IsFiniteSet(all) =>
                \E list \in [1 .. Cardinality(all) -> all] : IsSorting(list, all)
<1>. DEFINE S == {n \in Nat :
                    \A all \in SUBSET rules :
                        IsFiniteSet(all) /\ Cardinality(all) = n =>
                            \E list \in [1 .. n -> all] : IsSorting(list, all)}
<1>1. 0 \in S
  <2>. SUFFICES ASSUME NEW all \in SUBSET rules, IsFiniteSet(all), Cardinality(all) = 0
                PROVE  \E list \in [1 .. 0 -> all] : IsSorting(list, all)
    OBVIOUS
  <2>. DEFINE list == [i \in 1 .. 0 |-> i]
  <2>1. all = {} /\ 1 .. 0 = {}
    BY FS_EmptySet
  <2>2. list \in [1 .. 0 -> all] /\ IsSorting(list, all)
    BY <2>1 DEF IsSorting, ToSet
  <2>. QED BY <2>2
<1>2. ASSUME NEW n \in Nat, n \in S PROVE n + 1 \in S
  <2>. SUFFICES ASSUME NEW all \in SUBSET rules, IsFiniteSet(all), Cardinality(all) = n + 1
                PROVE  \E list \in [1 .. n + 1 -> all] : IsSorting(list, all)
    OBVIOUS
  <2>1. all # {}
    BY FS_EmptySet
  <2>2. PICK last \in all : \A rule \in all : ~Before(last, rule)
    BY <2>1, SomeRuleIsLast
  <2>. DEFINE others == all \ {last}
  <2>3. IsFiniteSet(others) /\ Cardinality(others) = n /\ others \in SUBSET rules
    <3>1. IsFiniteSet(others) /\ Cardinality(others) = Cardinality(all) - 1
      BY FS_RemoveElement
    <3>. QED BY <3>1
  <2>4. PICK short \in [1 .. n -> others] : IsSorting(short, others)
    BY <1>2, <2>3
  <2>. DEFINE list == [i \in 1 .. n + 1 |-> IF i = n + 1 THEN last ELSE short[i]]
  <2>5. \A i \in 1 .. n + 1 : i = n + 1 \/ i \in 1 .. n
    OBVIOUS
  <2>6. /\ list[n + 1] = last
        /\ \A i \in 1 .. n : list[i] = short[i] /\ short[i] \in others
    BY <2>4
  <2>7. list \in [1 .. n + 1 -> all]
    BY <2>5, <2>6
  <2>8. ToSet(list) = all
    <3>1. others = {short[i] : i \in 1 .. n}
      BY <2>4 DEF IsSorting, ToSet
    <3>2. {list[i] : i \in 1 .. n + 1} = {short[i] : i \in 1 .. n} \cup {last}
      BY <2>5, <2>6
    <3>3. all = others \cup {last}
      OBVIOUS
    <3>. HIDE DEF others
    <3>. QED BY <3>1, <3>2, <3>3 DEF ToSet
  <2>9. ASSUME NEW i \in DOMAIN list, NEW j \in DOMAIN list, i < j
        PROVE  ~Before(list[j], list[i])
    <3>1. i \in 1 .. n + 1 /\ j \in 1 .. n + 1 /\ i \in 1 .. n
      BY <2>9
    <3>. HIDE DEF list
    <3>2. CASE j = n + 1
      BY <2>2, <2>6, <3>1, <3>2
    <3>3. CASE j # n + 1
      <4>1. j \in 1 .. n
        BY <3>1, <3>3
      <4>2. ~Before(short[j], short[i])
        BY <2>4, <2>9, <3>1, <4>1 DEF IsSorting
      <4>. QED BY <2>6, <3>1, <4>1, <4>2
    <3>. QED BY <3>2, <3>3
  <2>. QED BY <2>7, <2>8, <2>9 DEF IsSorting
<1>3. Nat \subseteq S
  <2>. HIDE DEF S
  <2>. QED BY <1>1, <1>2, Counting
<1>. QED BY <1>3, FS_CardinalityType

\* A rule that names less than another ranks below it.
LEMMA LessIsLower ==
    ASSUME NEW a, NEW b, Fields(a) \subseteq Fields(b), Fields(a) # Fields(b)
    PROVE  Rank(b) > Rank(a)
<1>1. a.device = Null
  BY DEF Fields
<1>2. Fields(a) = {f \in {"center", "type"} : a[f] # Null}
  BY <1>1 DEF Fields
<1>. DEFINE A(f) == IF a[f] # Null THEN 1 ELSE 0
<1>3. Rank(a) = 2 * A("center") + A("type")
  BY <1>1 DEF Rank
<1>4. CASE b.device # Null
  BY <1>3, <1>4 DEF Rank
<1>5. CASE b.device = Null
  <2>. DEFINE B(f) == IF b[f] # Null THEN 1 ELSE 0
  <2>1. Rank(b) = 2 * B("center") + B("type")
    BY <1>5 DEF Rank
  <2>2. Fields(b) = {f \in {"center", "type"} : b[f] # Null}
    BY <1>5 DEF Fields
  <2>3. /\ a["center"] # Null => b["center"] # Null
        /\ a["type"] # Null => b["type"] # Null
        /\ \/ a["center"] = Null /\ b["center"] # Null
           \/ a["type"] = Null /\ b["type"] # Null
    BY <1>2, <2>2
  <2>. QED BY <1>3, <2>1, <2>3
<1>. QED BY <1>4, <1>5

\* A reading is judged by the rules that name nothing but what its device is, each
\* rule of the device by where it was when the rule was saved, and by none before one
\* that is more specific (get_matching_rules).
THEOREM RulesAreFound ==
    ASSUME NEW rules, IsFiniteSet(rules), \A rule \in rules : rule.created \in Nat,
           NEW device, NEW before, device.id # Null,
           \A rule \in rules : rule.device = device.id => AcceptsRule(rule, before),
           NEW metric
    PROVE  RulesFound(rules, device, before, metric)
<1>. DEFINE found == {rule \in rules : Applies(rule, device, metric)}
            list == Matching(rules, device, metric)
<1>1. /\ list \in [1 .. Cardinality(found) -> found]
      /\ IsSorting(list, found)
  <2>1. IsFiniteSet(found) /\ found \in SUBSET rules
    BY FS_Subset
  <2>2. \E l \in [1 .. Cardinality(found) -> found] : IsSorting(l, found)
    BY <2>1, RulesCanBeSorted
  <2>3. list = CHOOSE l \in [1 .. Cardinality(found) -> found] : IsSorting(l, found)
    BY DEF Matching, IsSorting
  <2>. HIDE DEF found, list
  <2>. QED BY <2>2, <2>3
<1>2. ASSUME NEW rule \in rules
      PROVE  Applies(rule, device, metric) <=>
                LET at == IF rule.device = device.id THEN before ELSE device
                IN  /\ rule.active /\ rule.metric = metric
                    /\ rule.org = device.org /\ Covers(rule.center, at.center)
                    /\ Covers(rule.type, at.type) /\ Covers(rule.device, device.id)
  <2>1. CASE rule.device = device.id
    <3>1. Covers(rule.center, before.center) /\ Covers(rule.type, before.type)
      BY <2>1 DEF AcceptsRule
    <3>. QED BY <2>1, <3>1 DEF Applies, Covers
  <2>2. CASE rule.device # device.id
    BY <2>2 DEF Applies, Covers
  <2>. QED BY <2>1, <2>2
<1>3. ASSUME NEW i \in DOMAIN list, NEW j \in DOMAIN list, i < j,
             Fields(list[i]) \subseteq Fields(list[j]), Fields(list[i]) # Fields(list[j])
      PROVE  FALSE
  <2>1. Rank(list[j]) > Rank(list[i])
    BY <1>3, LessIsLower
  <2>2. ~Before(list[j], list[i])
    BY <1>1, <1>3 DEF IsSorting
  <2>. QED BY <2>1, <2>2 DEF Before
<1>4. ToSet(list) = found
  BY <1>1 DEF IsSorting
<1>. HIDE DEF list
<1>. QED BY <1>2, <1>3, <1>4 DEF RulesFound, list

-----------------------------------------------------------------------------
(* Windows.                                                                *)

\* Of two windows of one scope, of which the second was accepted when the first was
\* there, both suppress an alert at an instant at which they meet at most; if they
\* meet, it stays suppressed throughout (AlertSuppressionWindow.clean, _has_suppression).
THEOREM WindowsAreApart ==
    ASSUME NEW first, NEW second, NEW stored, first \in stored,
           first.from \in Int, first.to \in Int, second.from \in Int, second.to \in Int,
           NEW d1, NEW others, AcceptsWindow(first, d1, others),
           NEW d2, AcceptsWindow(second, d2, stored),
           NEW device, NEW metric, NEW now \in Int
    PROVE  WindowsApart(first, second, device, metric, now)
<1>. DEFINE in(w, t) == w.from <= t /\ t <= w.to
            scope(w) == /\ w.org = device.org
                        /\ Covers(w.center, device.center) /\ Covers(w.device, device.id)
                        /\ Covers(w.metric, metric)
            by(ws, t) == Suppressed(ws, device, metric, t)
<1>. SUFFICES ASSUME SameScope(first, second), first.active, second.active
              PROVE  /\ by({first}, now) /\ by({second}, now) => now \in {first.from, first.to}
                     /\ first.to = second.from /\ now \in first.from .. second.to =>
                           by({first, second}, now) = by({first, second}, first.from)
  BY DEF WindowsApart
<1>1. scope(first) <=> scope(second)
  BY DEF SameScope
<1>2. \A t : /\ by({first}, t) <=> scope(first) /\ in(first, t)
             /\ by({second}, t) <=> scope(first) /\ in(second, t)
             /\ by({first, second}, t) <=> scope(first) /\ (in(first, t) \/ in(second, t))
  <2>. HIDE DEF in
  <2>1. \A ws, t : by(ws, t) <=> \E w \in ws : w.active /\ scope(w) /\ in(w, t)
    BY DEF Suppressed, in
  <2>. HIDE DEF by, scope
  <2>. QED BY <1>1, <2>1
<1>3. first.from < first.to /\ second.from < second.to
  BY DEF AcceptsWindow
<1>4. ~(first.from < second.to /\ first.to > second.from)
  <2>1. SameScope(second, first)
    BY DEF SameScope
  <2>. QED BY <2>1 DEF AcceptsWindow
<1>5. in(first, now) /\ in(second, now) => now \in {first.from, first.to}
  BY <1>4
<1>6. in(first, first.from)
  BY <1>3
<1>7. ASSUME first.to = second.from, now \in first.from .. second.to
      PROVE  in(first, now) \/ in(second, now)
  BY <1>7
<1>. HIDE DEF in, by, scope
<1>8. by({first, second}, now) \in BOOLEAN /\ by({first, second}, first.from) \in BOOLEAN
  BY DEF by, Suppressed
<1>. QED BY <1>2, <1>5, <1>6, <1>7, <1>8

-----------------------------------------------------------------------------
(* Escalation policies.                                                    *)

\* A policy that was accepted, beside whatever others there were.
IsPolicy(p) ==
    /\ p.unacknowledged \in Nat /\ p.unresolved \in Nat
    /\ \E stored : AcceptsPolicy(p, stored)

LEMMA WaitIsOver ==
    ASSUME NEW p, IsPolicy(p), NEW alert, alert.acknowledged = Never, NEW minutes \in Nat
    PROVE  /\ Minutes(p) \in Nat
           /\ TriggerMet(p, alert, minutes) <=> Minutes(p) <= minutes
<1>. DEFINE u == p.unacknowledged
            r == p.unresolved
            S == {r, u} \ {Never}
<1>1. u \in Nat /\ r \in Nat /\ ~(u = Never /\ r = Never)
  BY DEF IsPolicy, AcceptsPolicy
<1>2. S \subseteq Nat /\ S # {}
  BY <1>1
<1>3. Min(S) \in S /\ \A n \in S : Min(S) <= n
  <2>. HIDE DEF S
  <2>. QED BY <1>2, MinOf
<1>4. Minutes(p) = Min(S)
  BY DEF Minutes
<1>5. TriggerMet(p, alert, minutes) <=>
          (u # Never /\ minutes >= u) \/ (r # Never /\ minutes >= r)
  BY DEF TriggerMet
<1>6. Min(S) \in Nat
  <2>. HIDE DEF S
  <2>. QED BY <1>2, <1>3
<1>7. (u # Never /\ minutes >= u) \/ (r # Never /\ minutes >= r) <=>
          \E n \in S : n <= minutes
  BY <1>1
<1>8. (\E n \in S : n <= minutes) <=> Min(S) <= minutes
  <2>. HIDE DEF S
  <2>. QED BY <1>2, <1>3, <1>6
<1>. QED BY <1>4, <1>5, <1>6, <1>7, <1>8

\* The first policy that an alert of some age stops the check at.
LEMMA FirstStops ==
    ASSUME NEW S, NEW policies \in Seq(S), NEW alert, NEW minutes
    PROVE  LET met == {i \in DOMAIN policies : /\ PolicyMatches(policies[i], alert)
                                               /\ TriggerMet(policies[i], alert, minutes)}
               stop == Stopping(policies, alert, minutes)
           IN  /\ met = {} => stop = 0
               /\ met # {} => stop \in met /\ \A i \in met : stop <= i
<1>. DEFINE met == {i \in DOMAIN policies : /\ PolicyMatches(policies[i], alert)
                                            /\ TriggerMet(policies[i], alert, minutes)}
<1>1. DOMAIN policies = 1 .. Len(policies) /\ Len(policies) \in Nat
  OBVIOUS
<1>2. Stopping(policies, alert, minutes) = IF met # {} THEN Min(met) ELSE 0
  BY <1>1 DEF Stopping, SelectInSeq
<1>3. met \subseteq Nat
  BY <1>1
<1>4. met # {} => Min(met) \in met /\ \A i \in met : Min(met) <= i
  <2>. HIDE DEF met
  <2>. QED BY <1>3, MinOf
<1>. HIDE DEF met
<1>5. /\ met = {} => Stopping(policies, alert, minutes) = 0
      /\ met # {} => /\ Stopping(policies, alert, minutes) \in met
                     /\ \A i \in met : Stopping(policies, alert, minutes) <= i
  BY <1>2, <1>4
<1>. QED BY <1>5 DEF met

\* An alert that is left alone is escalated by a policy exactly if none that the
\* check looks at earlier is triggered as early (run_alert_escalation_check).
THEOREM TiersAreReached ==
    ASSUME NEW S, NEW policies \in Seq(S), \A i \in DOMAIN policies : IsPolicy(policies[i]),
           NEW alert, NEW minutes \in Nat
    PROVE  TiersReached(policies, alert, minutes)
<1>. SUFFICES ASSUME alert.acknowledged = Never
              PROVE  TiersReached(policies, alert, minutes)
  BY DEF TiersReached
<1>. DEFINE wait(i) == Minutes(policies[i])
            of == {i \in DOMAIN policies :
                    /\ policies[i].active /\ policies[i].severity = alert.severity
                    /\ \A field \in {"org", "center"} : Covers(policies[i][field], alert[field])}
            met(m) == {i \in DOMAIN policies : /\ PolicyMatches(policies[i], alert)
                                               /\ TriggerMet(policies[i], alert, m)}
            stop(m) == Stopping(policies, alert, m)
            reached == {i \in of : wait(i) <= minutes /\ \A j \in of : j < i => wait(i) < wait(j)}
<1>1. \A i \in of : wait(i) \in Nat /\ i \in Nat \ {0}
  <2>1. DOMAIN policies = 1 .. Len(policies) /\ Len(policies) \in Nat
    OBVIOUS
  <2>. QED BY <2>1, WaitIsOver
<1>2. ASSUME NEW m \in Nat PROVE met(m) = {i \in of : wait(i) <= m}
  <2>1. ASSUME NEW i \in DOMAIN policies
        PROVE  PolicyMatches(policies[i], alert) <=> i \in of
    BY DEF PolicyMatches
  <2>2. ASSUME NEW i \in DOMAIN policies
        PROVE  TriggerMet(policies[i], alert, m) <=> wait(i) <= m
    BY WaitIsOver
  <2>3. of \subseteq DOMAIN policies
    OBVIOUS
  <2>. HIDE DEF of, wait
  <2>. QED BY <2>1, <2>2, <2>3
<1>3. \A m : /\ met(m) = {} => stop(m) = 0
             /\ met(m) # {} => stop(m) \in met(m) /\ \A i \in met(m) : stop(m) <= i
  BY FirstStops
<1>. HIDE DEF of, wait, met, stop
<1>4. ASSUME NEW m \in 0 .. minutes, stop(m) # 0 PROVE stop(m) \in reached
  <2>1. m \in Nat /\ m <= minutes
    OBVIOUS
  <2>2. stop(m) \in of /\ wait(stop(m)) <= m /\ \A j \in of : wait(j) <= m => stop(m) <= j
    BY <1>2, <1>3, <1>4, <2>1
  <2>3. \A j \in of : j < stop(m) => wait(stop(m)) < wait(j)
    BY <1>1, <2>1, <2>2
  <2>. QED BY <1>1, <2>1, <2>2, <2>3
<1>5. ASSUME NEW i \in reached PROVE i \in {stop(m) : m \in 0 .. minutes} \ {0}
  <2>1. i \in of /\ wait(i) <= minutes /\ \A j \in of : j < i => wait(i) < wait(j)
    OBVIOUS
  <2>2. wait(i) \in 0 .. minutes /\ wait(i) \in Nat /\ i \in Nat \ {0}
    BY <1>1, <2>1
  <2>3. i \in met(wait(i))
    BY <1>2, <2>1, <2>2
  <2>4. stop(wait(i)) \in met(wait(i)) /\ stop(wait(i)) <= i
    BY <1>3, <2>3
  <2>5. stop(wait(i)) \in of /\ wait(stop(wait(i))) <= wait(i)
    BY <1>2, <2>2, <2>4
  <2>6. stop(wait(i)) = i
    <3>. DEFINE k == stop(wait(i))
    <3>1. k \in of /\ wait(k) <= wait(i) /\ k <= i
      BY <2>4, <2>5
    <3>. HIDE DEF k
    <3>2. k \in Nat /\ wait(k) \in Nat /\ (k < i => wait(i) < wait(k))
      BY <1>1, <2>1, <3>1
    <3>3. k = i
      BY <2>2, <3>1, <3>2
    <3>. QED BY <3>3 DEF k
  <2>. QED BY <2>2, <2>6
<1>6. Escalated(policies, alert, minutes) = {stop(m) : m \in 0 .. minutes} \ {0}
  BY DEF Escalated, stop
<1>7. Escalated(policies, alert, minutes) = reached
  <2>. HIDE DEF reached
  <2>. QED BY <1>4, <1>5, <1>6
<1>. QED BY <1>7 DEF TiersReached, of, wait

\* What escalates an alert once it is acknowledged goes by how long it is unresolved,
\* counted from then (_policy_trigger_met).
THEOREM ClocksRestart ==
    ASSUME NEW S, NEW policies \in Seq(S), \A i \in DOMAIN policies : IsPolicy(policies[i]),
           NEW alert, alert.acknowledged \in Nat, NEW minutes \in Nat
    PROVE  ClockRestarts(policies, alert, minutes)
<1>. DEFINE ack == alert.acknowledged
            stop(m) == Stopping(policies, alert, m)
<1>. SUFFICES ASSUME NEW i \in Escalated(policies, alert, minutes)
                               \ Escalated(policies, alert, ack - 1),
                     ack # Never
              PROVE  /\ policies[i].unresolved # Never
                     /\ minutes >= ack + policies[i].unresolved
  BY DEF ClockRestarts
<1>1. PICK m \in 0 .. minutes : i = stop(m) /\ i # 0
  BY DEF Escalated
<1>2. ~(m \in 0 .. ack - 1)
  <2>1. i \notin {stop(k) : k \in 0 .. ack - 1} \ {0}
    BY DEF Escalated
  <2>. HIDE DEF stop
  <2>. QED BY <1>1, <2>1
<1>3. m \in Nat /\ m <= minutes /\ ack <= m
  BY <1>2
<1>4. i \in DOMAIN policies /\ TriggerMet(policies[i], alert, m)
  BY <1>1, FirstStops
<1>5. policies[i].unresolved # Never /\ m - ack >= policies[i].unresolved
  BY <1>3, <1>4 DEF TriggerMet
<1>6. policies[i].unresolved \in Nat
  BY <1>4 DEF IsPolicy
<1>. QED BY <1>3, <1>5, <1>6
=============================================================================
