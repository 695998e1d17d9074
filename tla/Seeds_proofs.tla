---------------------------- MODULE Seeds_proofs ----------------------------
(***************************************************************************)
(* Proofs about Seeds, for any OIDs and savers and without its bound: what *)
(* the scripts promise once they have run holds after any number of        *)
(* releases, edits and runs.                                               *)
(*                                                                         *)
(* It rests on what the tables tell of each row: whether a script or an    *)
(* operator has written it.  A script writes for one model under one       *)
(* vendor, so that its keys find the rows of its own earlier runs; and a   *)
(* rule that was checked stays unlike the others until it is saved, as     *)
(* long as no other was checked meanwhile.                                 *)
(***************************************************************************)
EXTENDS Seeds, TLAPS

Ids == Nat \ {0}
Models == {"own", "alike", "any"}
Vendors == {"own", "none"}

DataTypes ==
    {"string", "integer", "float", "ipaddress", "timeticks", "counter", "gauge", "gauge32"}

MappingRows ==
    [id : Ids, model : Models, vendor : Vendors, oid : Oids, type : DataTypes, scale : Nat,
     active : BOOLEAN]
TrapRows ==
    [id : Ids, model : Models, vendor : Vendors, oid : Oids, code : Codes, active : BOOLEAN]
RuleRows ==
    [id : Nat, name : {"label", "other"}, scope : {"PAC", "all"},
     condition : {"EQ 1", "other"}, active : BOOLEAN]

Mapped == script \in DOMAIN OidScripts
Trapped == script \in DOMAIN TrapScripts

\* Rows have ids of their own, and any number of them has a first and a last.
Ordered(set) ==
    /\ \A r \in set : r.id \in Ids
    /\ \A r, o \in set : r.id = o.id => r = o
    /\ \A some \in SUBSET set : some # {} =>
          /\ \E r \in some : \A o \in some : o.id <= r.id
          /\ \E r \in some : \A o \in some : r.id <= o.id

Types ==
    /\ script \in DOMAIN OidScripts \cup DOMAIN TrapScripts \cup {"rules"}
    /\ models \in SUBSET {"own", "alike"}
    /\ table \in Tables(script)
    /\ Mapped => rows \subseteq MappingRows
    /\ Trapped => rows \subseteq TrapRows
    /\ script = "rules" => rows \subseteq RuleRows
    /\ Ordered(rows)
    /\ half \in BOOLEAN /\ (half => script = "PACTraps")
    /\ saver \in [Savers -> SUBSET [row : RuleRows, bySeed : BOOLEAN, locked : BOOLEAN]]
    /\ script # "rules" => \A p \in Savers : saver[p] = {}
    /\ seeded \in BOOLEAN /\ overlapped \in BOOLEAN

-----------------------------------------------------------------------------
(* Rows that come and go.                                                  *)

\* The next id is beyond all others.
LEMMA FreshIsLast ==
    ASSUME NEW set, Ordered(set)
    PROVE  Fresh(set) \in Ids /\ \A r \in set : r.id < Fresh(set)
<1>1. CASE set = {}
  BY <1>1 DEF Fresh, Ids
<1>2. CASE set # {}
  <2>1. PICK last \in set : \A o \in set : o.id <= last.id
    BY <1>2 DEF Ordered
  <2>2. \A r \in set : r.id \in Nat /\ r.id > 0
    BY DEF Ordered, Ids
  <2>. DEFINE P(i) == \A r \in set : r.id <= i
              ids == {r.id : r \in set}
              max == CHOOSE i \in ids : P(i)
  <2>3. last.id \in ids /\ P(last.id)
    BY <2>1
  <2>. HIDE DEF P
  <2>4. max \in ids /\ P(max)
    BY <2>3
  <2>. USE DEF P
  <2>5. max \in Nat /\ \A r \in set : r.id <= max
    BY <2>2, <2>4
  <2>6. Fresh(set) = 1 + max
    BY <1>2 DEF Fresh
  <2>. HIDE DEF max
  <2>. QED BY <2>2, <2>5, <2>6 DEF Ids
<1>. QED BY <1>1, <1>2

LEMMA FewerOrdered ==
    ASSUME NEW set, Ordered(set), NEW some \in SUBSET set
    PROVE  Ordered(some)
BY DEF Ordered

\* A row may be added whose id is not in use.
LEMMA MoreOrdered ==
    ASSUME NEW set, Ordered(set), NEW new, new.id \in Ids, \A r \in set : r.id # new.id
    PROVE  Ordered(set \cup {new})
<1>1. \A r \in set \cup {new} : r.id \in Ids
  BY DEF Ordered
<1>2. \A r, o \in set \cup {new} : r.id = o.id => r = o
  BY DEF Ordered
<1>3. ASSUME NEW some \in SUBSET (set \cup {new}), some # {}
      PROVE  /\ \E r \in some : \A o \in some : o.id <= r.id
             /\ \E r \in some : \A o \in some : r.id <= o.id
  <2>. DEFINE old == some \ {new}
  <2>1. old \in SUBSET set /\ \A r \in some : r.id \in Nat
    BY <1>1 DEF Ids
  <2>2. CASE old = {}
    <3>1. some = {new}
      BY <1>3, <2>2
    <3>. QED BY <3>1, <2>1
  <2>3. CASE old # {}
    <3>1. PICK last \in old : \A o \in old : o.id <= last.id
      BY <2>1, <2>3 DEF Ordered
    <3>2. PICK first \in old : \A o \in old : first.id <= o.id
      BY <2>1, <2>3 DEF Ordered
    <3>3. first \in some /\ last \in some /\ \A o \in some : o = new \/ o \in old
      OBVIOUS
    <3>. HIDE DEF old
    <3>4. \E r \in some : \A o \in some : o.id <= r.id
      <4>1. CASE new \in some /\ last.id <= new.id
        BY <2>1, <3>1, <3>3, <4>1
      <4>2. CASE ~(new \in some /\ last.id <= new.id)
        BY <2>1, <3>1, <3>3, <4>2
      <4>. QED BY <4>1, <4>2
    <3>5. \E r \in some : \A o \in some : r.id <= o.id
      <4>1. CASE new \in some /\ new.id <= first.id
        BY <2>1, <3>2, <3>3, <4>1
      <4>2. CASE ~(new \in some /\ new.id <= first.id)
        BY <2>1, <3>2, <3>3, <4>2
      <4>. QED BY <4>1, <4>2
    <3>. QED BY <3>4, <3>5
  <2>. QED BY <2>2, <2>3
<1>. QED BY <1>1, <1>2, <1>3 DEF Ordered

\* A row that an operator changes keeps its id, and its place among the others.
LEMMA ReplacedOrdered ==
    ASSUME NEW set, Ordered(set), NEW old \in set, NEW new, new.id = old.id
    PROVE  Ordered((set \ {old}) \cup {new})
<1>1. Ordered(set \ {old})
  BY FewerOrdered
<1>2. new.id \in Ids /\ \A r \in set \ {old} : r.id # new.id
  BY DEF Ordered
<1>. QED BY <1>1, <1>2, MoreOrdered

\* update_or_create leaves one row in the place of those that it finds, with the id of
\* one of them or a new one.
LEMMA UpsertsOne ==
    ASSUME NEW set, Ordered(set), NEW key, NEW values, "id" \in DOMAIN values
    PROVE  \E id \in Ids :
              LET new == [values EXCEPT !.id = id]
              IN  /\ Upserted(set, key, values) = (set \ Matching(set, key, values)) \cup {new}
                  /\ new.id = id
                  /\ \A r \in set \ Matching(set, key, values) : r.id # id
                  /\ Ordered(Upserted(set, key, values))
<1>. DEFINE found == Matching(set, key, values)
            id == IF found = {} THEN Fresh(set) ELSE (CHOOSE r \in found : TRUE).id
            new == [values EXCEPT !.id = id]
<1>1. found \in SUBSET set
  BY DEF Matching
<1>2. Upserted(set, key, values) = (set \ found) \cup {new}
  BY DEF Upserted
<1>3. id \in Ids /\ \A r \in set \ found : r.id # id
  <2>1. CASE found = {}
    <3>1. id = Fresh(set)
      BY <2>1
    <3>2. \A r \in set : r.id \in Nat
      BY DEF Ordered, Ids
    <3>3. Fresh(set) \in Ids /\ \A r \in set : r.id < Fresh(set)
      BY FreshIsLast
    <3>4. Fresh(set) \in Ids /\ \A r \in set : r.id # Fresh(set)
      BY <3>2, <3>3 DEF Ids
    <3>5. \A r \in set \ found : r \in set
      OBVIOUS
    <3>. HIDE DEF id, found
    <3>. QED BY <3>1, <3>4, <3>5
  <2>2. CASE found # {}
    <3>. DEFINE one == CHOOSE r \in found : TRUE
    <3>1. one \in found /\ id = one.id
      BY <2>2
    <3>. QED BY <1>1, <3>1 DEF Ordered
  <2>. QED BY <2>1, <2>2
<1>. HIDE DEF found, id
<1>4. new.id = id
  OBVIOUS
<1>5. Ordered((set \ found) \cup {new})
  <2>1. Ordered(set \ found)
    BY FewerOrdered
  <2>. QED BY <1>3, <1>4, <2>1, MoreOrdered
<1>. QED BY <1>2, <1>3, <1>4, <1>5 DEF found

-----------------------------------------------------------------------------
(* Types.                                                                  *)

Scripts == DOMAIN OidScripts \cup DOMAIN TrapScripts \cup {"rules"}

\* The three kinds of scripts.
LEMMA Kinds ==
    /\ DOMAIN OidScripts = {"ATS", "UPS", "PAC", "NetBotz", "PDU", "DCIM"}
    /\ DOMAIN TrapScripts = {"PDUTraps", "UPSTraps", "PACTraps"}
BY DEF OidScripts, TrapScripts

LEMMA Targets ==
    ASSUME Types, script \in Scripts \ {"rules", "DCIM", "PACTraps"},
           Target(script, models) # Unplaced
    PROVE  Target(script, models) \in {"own", "alike"}
BY Kinds DEF Types, Scripts, Target, Unplaced, ATSTarget, UPSTarget, PACTarget, NetBotzTarget,
             PDUTarget, PDUTrapTarget, UPSTrapTarget

\* What the tables say of a metric and its mapping.
LEMMA ItemTypes ==
    ASSUME NEW name \in DOMAIN OidScripts, NEW item \in OidScripts[name].items
    PROVE  item.mapping \in DataTypes /\ item.scale \in Nat
<1>. DEFINE Typed(i) == i.mapping \in DataTypes /\ i.scale \in Nat
<1>1. \A i \in ATSItems \cup UPSItems \cup PACItems \cup DCIMItems : Typed(i)
  BY DEF ATSItems, UPSItems, PACItems, DCIMItems, Item, DataTypes
<1>2. \A i \in NetBotzItems : Typed(i)
  <2>. TAKE i \in NetBotzItems
  <2>1. PICK m \in NetBotzMetrics, t \in {"string", "integer", "timeticks"} :
            i = Item(m, t, 100)
    BY DEF NetBotzItems
  <2>. QED BY <2>1 DEF Item, DataTypes
<1>3. \A i \in PDUItems : Typed(i)
  BY DEF PDUItems, Item, DataTypes
<1>4. OidScripts[name].items \in
          {ATSItems, UPSItems, PACItems, NetBotzItems, PDUItems, DCIMItems}
  BY Kinds DEF OidScripts
<1>. HIDE DEF Typed
<1>5. Typed(item)
  BY <1>1, <1>2, <1>3, <1>4
<1>. QED BY <1>5 DEF Typed

LEMMA TableTypes ==
    ASSUME Types
    PROVE  /\ Mapped => /\ table.oid \in Oids /\ table.item \in OidScripts[script].items
                        /\ table.item.mapping \in DataTypes /\ table.item.scale \in Nat
           /\ Trapped => /\ table["fired"] \in Oids /\ table["restored"] \in Oids
                         /\ table["fired"] # table["restored"]
<1>1. CASE Mapped
  <2>1. table \in [item : OidScripts[script].items, oid : Oids]
    BY <1>1 DEF Types, Tables, Mapped
  <2>2. table.oid \in Oids /\ table.item \in OidScripts[script].items
    BY <2>1
  <2>3. ~Trapped
    BY <1>1, Kinds DEF Mapped, Trapped
  <2>. QED BY <1>1, <2>2, <2>3, ItemTypes DEF Mapped
<1>2. CASE Trapped
  <2>1. ~Mapped
    BY <1>2, Kinds DEF Mapped, Trapped
  <2>2. table \in {t \in [Codes -> Oids] : t["fired"] # t["restored"]}
    BY <1>2, <2>1 DEF Types, Tables, Mapped, Trapped
  <2>. QED BY <2>1, <2>2 DEF Codes
<1>. QED BY <1>1, <1>2

\* The rows that the scripts write, but for their ids.
LEMMA MappingRowType ==
    ASSUME Types, Mapped, NEW target \in Models, NEW id \in Ids
    PROVE  [MappingRow(target) EXCEPT !.id = id] \in MappingRows
BY TableTypes DEF MappingRow, MappingRows, Vendor, Vendors

LEMMA TrapRowType ==
    ASSUME Types, Trapped, NEW target \in Models, NEW code \in Codes, NEW id \in Ids
    PROVE  [TrapRow(target, code) EXCEPT !.id = id] \in TrapRows
BY TableTypes DEF TrapRow, TrapRows, Vendors, Codes

LEMMA InitTypes == Init => Types
BY DEF Init, Types, Ordered

\* The row that a script leaves for a metric, among those it does not find.
LEMMA MappingUpserted ==
    ASSUME Types, Mapped, NEW target \in Models, NEW key
    PROVE  \E new \in MappingRows :
              /\ new.model = target /\ new.vendor = Vendor /\ new.oid = table.oid
              /\ new.type = table.item.mapping /\ new.scale = table.item.scale /\ new.active
              /\ Upserted(rows, key, MappingRow(target)) =
                    (rows \ Matching(rows, key, MappingRow(target))) \cup {new}
              /\ \A r \in rows \ Matching(rows, key, MappingRow(target)) : r.id # new.id
              /\ Ordered(Upserted(rows, key, MappingRow(target)))
<1>1. "id" \in DOMAIN MappingRow(target)
  BY DEF MappingRow
<1>2. PICK id \in Ids :
          LET new == [MappingRow(target) EXCEPT !.id = id]
          IN  /\ Upserted(rows, key, MappingRow(target)) =
                    (rows \ Matching(rows, key, MappingRow(target))) \cup {new}
              /\ new.id = id
              /\ \A r \in rows \ Matching(rows, key, MappingRow(target)) : r.id # id
              /\ Ordered(Upserted(rows, key, MappingRow(target)))
  BY <1>1, UpsertsOne DEF Types
<1>. DEFINE new == [MappingRow(target) EXCEPT !.id = id]
<1>3. new \in MappingRows
  BY MappingRowType
<1>4. /\ new.model = target /\ new.vendor = Vendor /\ new.oid = table.oid
      /\ new.type = table.item.mapping /\ new.scale = table.item.scale /\ new.active
  BY DEF MappingRow
<1>. HIDE DEF new
<1>5. new.id = id /\ Upserted(rows, key, MappingRow(target)) =
                        (rows \ Matching(rows, key, MappingRow(target))) \cup {new}
  BY <1>2 DEF new
<1>. QED BY <1>2, <1>3, <1>4, <1>5

\* The row that a script leaves for a trap.
LEMMA TrapUpserted ==
    ASSUME Types, Trapped, NEW target \in Models, NEW code \in Codes, NEW key,
           NEW set \in SUBSET TrapRows, Ordered(set)
    PROVE  \E new \in TrapRows :
              /\ new.model = target /\ new.vendor = "own" /\ new.oid = table[code]
              /\ new.code = code /\ new.active
              /\ Upserted(set, key, TrapRow(target, code)) =
                    (set \ Matching(set, key, TrapRow(target, code))) \cup {new}
              /\ \A r \in set \ Matching(set, key, TrapRow(target, code)) : r.id # new.id
              /\ Ordered(Upserted(set, key, TrapRow(target, code)))
              /\ Upserted(set, key, TrapRow(target, code)) \in SUBSET TrapRows
<1>1. "id" \in DOMAIN TrapRow(target, code)
  BY DEF TrapRow
<1>2. PICK id \in Ids :
          LET new == [TrapRow(target, code) EXCEPT !.id = id]
          IN  /\ Upserted(set, key, TrapRow(target, code)) =
                    (set \ Matching(set, key, TrapRow(target, code))) \cup {new}
              /\ new.id = id
              /\ \A r \in set \ Matching(set, key, TrapRow(target, code)) : r.id # id
              /\ Ordered(Upserted(set, key, TrapRow(target, code)))
  BY <1>1, UpsertsOne
<1>. DEFINE new == [TrapRow(target, code) EXCEPT !.id = id]
<1>3. new \in TrapRows
  BY TrapRowType
<1>4. /\ new.model = target /\ new.vendor = "own" /\ new.oid = table[code]
      /\ new.code = code /\ new.active
  BY DEF TrapRow
<1>. HIDE DEF new
<1>5. new.id = id /\ Upserted(set, key, TrapRow(target, code)) =
                        (set \ Matching(set, key, TrapRow(target, code))) \cup {new}
  BY <1>2 DEF new
<1>. QED BY <1>2, <1>3, <1>4, <1>5

\* The rows after each step.
RowsTyped ==
    /\ Mapped => rows \subseteq MappingRows
    /\ Trapped => rows \subseteq TrapRows
    /\ script = "rules" => rows \subseteq RuleRows
    /\ Ordered(rows)

\* A row that somebody adds.
LEMMA AddRowTyped ==
    ASSUME Types, NEW model \in {"own", "any"}, NEW vendor \in {"own", "none"},
           AddRow(model, vendor)
    PROVE  RowsTyped'
<1>1. /\ Fresh(rows) \in Ids /\ \A r \in rows : r.id # Fresh(rows)
  <2>1. Fresh(rows) \in Ids /\ \A r \in rows : r.id < Fresh(rows)
    BY FreshIsLast DEF Types
  <2>2. \A r \in rows : r.id \in Nat
    BY DEF Types, Ordered, Ids
  <2>. QED BY <2>1, <2>2 DEF Ids
<1>2. script' = script
  BY DEF AddRow
<1>3. CASE Mapped
  <2>. DEFINE new == [id |-> Fresh(rows), model |-> model, vendor |-> vendor,
                      oid |-> table.oid, type |-> table.item.mapping,
                      scale |-> 50, active |-> TRUE]
  <2>1. ~Trapped /\ script # "rules"
    BY <1>3, Kinds DEF Mapped, Trapped
  <2>2. rows' = rows \cup {new}
    BY <1>3, <2>1 DEF AddRow, Mapped, Trapped
  <2>3. new \in MappingRows /\ new.id = Fresh(rows)
    BY <1>1, <1>3, TableTypes DEF MappingRows, Models, Vendors
  <2>. HIDE DEF new
  <2>4. Ordered(rows')
    BY <1>1, <2>2, <2>3, MoreOrdered DEF Types
  <2>. QED BY <1>2, <1>3, <2>1, <2>2, <2>3, <2>4 DEF Types, RowsTyped, Mapped, Trapped
<1>4. CASE ~Mapped
  <2>1. Trapped
    BY <1>4 DEF AddRow, Mapped, Trapped
  <2>2. script # "rules"
    BY <2>1, Kinds DEF Trapped
  <2>3. PICK code \in Codes, oid \in Oids :
            rows' = rows \cup {[id |-> Fresh(rows), model |-> model, vendor |-> vendor,
                                oid |-> oid, code |-> code, active |-> TRUE]}
    BY <1>4 DEF AddRow, Mapped
  <2>. DEFINE new == [id |-> Fresh(rows), model |-> model, vendor |-> vendor,
                      oid |-> oid, code |-> code, active |-> TRUE]
  <2>4. new \in TrapRows /\ new.id = Fresh(rows)
    BY <1>1 DEF TrapRows, Models, Vendors
  <2>. HIDE DEF new
  <2>5. rows' = rows \cup {new}
    BY <2>3 DEF new
  <2>6. Ordered(rows')
    BY <1>1, <2>4, <2>5, MoreOrdered DEF Types
  <2>. QED BY <1>2, <1>4, <2>1, <2>2, <2>4, <2>5, <2>6 DEF Types, RowsTyped, Mapped, Trapped
<1>. QED BY <1>3, <1>4

\* A row that somebody changes or deletes.
LEMMA ToggleTyped ==
    ASSUME Types, NEW r \in rows, Toggle(r)
    PROVE  /\ RowsTyped'
           /\ [r EXCEPT !.active = ~@].id = r.id
<1>. DEFINE new == [r EXCEPT !.active = ~@]
<1>1. rows' = (rows \ {r}) \cup {new} /\ script' = script /\ script # "rules"
  BY DEF Toggle
<1>2. Mapped => new \in MappingRows
  BY DEF Types, MappingRows
<1>3. Trapped => new \in TrapRows
  BY DEF Types, TrapRows
<1>4. new.id = r.id
  BY <1>1, Kinds DEF Types, Mapped, Trapped, MappingRows, TrapRows
<1>. HIDE DEF new
<1>5. Ordered(rows')
  BY <1>1, <1>4, ReplacedOrdered DEF Types
<1>6. RowsTyped'
  BY <1>1, <1>2, <1>3, <1>5 DEF Types, RowsTyped, Mapped, Trapped
<1>. QED BY <1>4, <1>6 DEF new

LEMMA DeleteTyped ==
    ASSUME Types, NEW r \in rows, Delete(r)
    PROVE  RowsTyped'
<1>1. Ordered(rows')
  BY FewerOrdered DEF Types, Delete
<1>. QED BY <1>1 DEF Types, RowsTyped, Delete, Mapped, Trapped

\* The rows that a script has written.
LEMMA SeedMappingsTyped ==
    ASSUME Types, SeedMappings
    PROVE  RowsTyped' /\ models' \in SUBSET {"own", "alike"}
<1>. DEFINE target == Target(script, models)
            key == OidScripts[script].key
<1>1. Mapped /\ script \in Scripts \ {"rules", "DCIM", "PACTraps"} /\ script' = script
  BY Kinds DEF SeedMappings, Scripts, Mapped
<1>2. target \in {"own", "alike"}
  BY <1>1, Targets DEF SeedMappings
<1>3. rows' = Upserted(rows, key, MappingRow(target)) /\ models' = models \cup {target}
  BY DEF SeedMappings
<1>. HIDE DEF target, key
<1>4. target \in Models
  BY <1>2 DEF Models
<1>5. rows' \subseteq MappingRows /\ Ordered(rows')
  <2>1. PICK new \in MappingRows :
            /\ Upserted(rows, key, MappingRow(target)) =
                    (rows \ Matching(rows, key, MappingRow(target))) \cup {new}
            /\ Ordered(Upserted(rows, key, MappingRow(target)))
    BY <1>1, <1>4, MappingUpserted
  <2>. QED BY <1>1, <1>3, <2>1 DEF Types
<1>. QED BY <1>1, <1>2, <1>3, <1>5, Kinds DEF Types, RowsTyped, Mapped, Trapped

LEMMA SeedBaselineTyped ==
    ASSUME Types, SeedBaseline
    PROVE  RowsTyped'
<1>1. Mapped /\ script' = script
  BY Kinds DEF SeedBaseline, Mapped
<1>2. rows' \subseteq MappingRows /\ Ordered(rows')
  <2>1. PICK new \in MappingRows :
            /\ Upserted(rows, DCIMKey, MappingRow(DCIMTarget)) =
                    (rows \ Matching(rows, DCIMKey, MappingRow(DCIMTarget))) \cup {new}
            /\ Ordered(Upserted(rows, DCIMKey, MappingRow(DCIMTarget)))
    BY <1>1, MappingUpserted DEF DCIMTarget, Models
  <2>2. \/ rows' = rows
        \/ rows' = Upserted(rows, DCIMKey, MappingRow(DCIMTarget))
    BY DEF SeedBaseline, Kept
  <2>. QED BY <1>1, <2>1, <2>2 DEF Types
<1>. QED BY <1>1, <1>2, Kinds DEF RowsTyped, Mapped, Trapped

LEMMA SeedTrapsTyped ==
    ASSUME Types, SeedTraps
    PROVE  RowsTyped' /\ models' \in SUBSET {"own", "alike"}
<1>. DEFINE target == Target(script, models)
            key == TrapScripts[script]
            first == Upserted(rows, key, TrapRow(target, "fired"))
<1>1. Trapped /\ script \in Scripts \ {"rules", "DCIM", "PACTraps"} /\ script' = script
  BY Kinds DEF SeedTraps, Scripts, Trapped
<1>2. target \in {"own", "alike"}
  BY <1>1, Targets DEF SeedTraps
<1>3. rows' = Upserted(first, key, TrapRow(target, "restored")) /\ models' = models \cup {target}
  BY DEF SeedTraps
<1>. HIDE DEF target, key
<1>4. target \in Models /\ "fired" \in Codes /\ "restored" \in Codes
  BY <1>2 DEF Models, Codes
<1>5. first \in SUBSET TrapRows /\ Ordered(first)
  BY <1>1, <1>4, TrapUpserted DEF Types
<1>. HIDE DEF first
<1>6. rows' \in SUBSET TrapRows /\ Ordered(rows')
  BY <1>1, <1>3, <1>4, <1>5, TrapUpserted
<1>. QED BY <1>1, <1>2, <1>3, <1>6, Kinds DEF Types, RowsTyped, Mapped, Trapped

LEMMA SeedPacTrapTyped ==
    ASSUME Types, NEW code \in Codes, SeedPacTrap(code)
    PROVE  RowsTyped'
<1>1. Trapped /\ script' = script
  BY Kinds DEF SeedPacTrap, Trapped
<1>2. rows' = Upserted(rows, PACTrapKey, TrapRow("own", code))
  BY DEF SeedPacTrap
<1>3. rows' \in SUBSET TrapRows /\ Ordered(rows')
  BY <1>1, <1>2, TrapUpserted DEF Types, Models
<1>. QED BY <1>1, <1>3, Kinds DEF RowsTyped, Mapped, Trapped

\* What a process has checked, and the rows when it has saved it.
Checks == [row : RuleRows, bySeed : BOOLEAN, locked : BOOLEAN]

LEMMA CheckTyped ==
    ASSUME Types, NEW p \in Savers, NEW r \in RuleRows, NEW bySeed \in BOOLEAN,
           NEW locked \in BOOLEAN, Check(p, r, bySeed, locked)
    PROVE  /\ saver' \in [Savers -> SUBSET Checks]
           /\ overlapped' \in BOOLEAN
BY DEF Types, Check, Checks

\* Every check of a rule is one of a row of these types, which a seed makes active.
LEMMA RuleChecks ==
    ASSUME Types, NEW p \in Savers, SeedByName(p) \/ SeedByCondition(p) \/ EditRule(p)
    PROVE  \E row \in RuleRows, bySeed, locked \in BOOLEAN :
              /\ Check(p, row, bySeed, locked)
              /\ bySeed => row.active /\ row.condition = "EQ 1"
<1>0. \A r \in rows : r.id \in Nat
  BY DEF Types, Ordered, Ids
<1>1. CASE SeedByName(p)
  <2>. DEFINE wanted == RuleRow(0, "label", Scope, "EQ 1", TRUE)
              found == Matching(rows, {"name", "scope"}, wanted)
              one == CHOOSE r \in found : TRUE
              row == IF found = {} THEN wanted ELSE [wanted EXCEPT !.id = one.id]
  <2>1. Check(p, row, TRUE, found # {})
    BY <1>1 DEF SeedByName
  <2>2. wanted \in RuleRows /\ wanted.active /\ wanted.condition = "EQ 1"
    BY DEF RuleRow, RuleRows, Scope
  <2>3. found # {} => one.id \in Nat
    BY <1>0 DEF Matching
  <2>. HIDE DEF wanted, found, one
  <2>4. row \in RuleRows /\ row.active /\ row.condition = "EQ 1"
    BY <2>2, <2>3 DEF RuleRows
  <2>5. (found # {}) \in BOOLEAN
    OBVIOUS
  <2>. HIDE DEF row
  <2>. QED BY <2>1, <2>4, <2>5
<1>2. CASE SeedByCondition(p)
  <2>. DEFINE wanted == RuleRow(0, "label", "PAC", "EQ 1", TRUE)
              found == Matching(rows, {"scope", "condition"}, wanted)
              oldest == CHOOSE r \in found : \A o \in found : r.id <= o.id
              row == IF found = {} THEN wanted ELSE [wanted EXCEPT !.id = oldest.id]
  <2>1. Check(p, row, TRUE, FALSE)
    BY <1>2 DEF SeedByCondition
  <2>2. wanted \in RuleRows /\ wanted.active /\ wanted.condition = "EQ 1"
    BY DEF RuleRow, RuleRows
  <2>3. found # {} => oldest.id \in Nat
    <3>1. found \in SUBSET rows
      BY DEF Matching
    <3>. HIDE DEF found
    <3>2. found # {} => \E r \in found : \A o \in found : r.id <= o.id
      BY <3>1 DEF Types, Ordered
    <3>3. found # {} => oldest \in found
      BY <3>2
    <3>. QED BY <1>0, <3>1, <3>3
  <2>. HIDE DEF wanted, found, oldest
  <2>4. row \in RuleRows /\ row.active /\ row.condition = "EQ 1"
    BY <2>2, <2>3 DEF RuleRows
  <2>. HIDE DEF row
  <2>. QED BY <2>1, <2>4
<1>3. CASE EditRule(p)
  <2>1. PICK id \in {0} \cup {r.id : r \in rows}, name \in {"label", "other"},
             condition \in {"EQ 1", "other"}, active \in BOOLEAN :
                 Check(p, RuleRow(id, name, "PAC", condition, active), FALSE, FALSE)
    BY <1>3 DEF EditRule
  <2>2. id \in Nat
    <3>1. CASE id = 0
      BY <3>1
    <3>2. CASE id # 0
      <4>1. PICK r \in rows : id = r.id
        BY <3>2
      <4>. QED BY <1>0, <4>1
    <3>. QED BY <3>1, <3>2
  <2>3. RuleRow(id, name, "PAC", condition, active) \in RuleRows
    BY <2>2 DEF RuleRow, RuleRows
  <2>. QED BY <2>1, <2>3
<1>. QED BY <1>1, <1>2, <1>3

\* The row that is saved takes the place of the one with its id, if there is one.
LEMMA SaveRuleTyped ==
    ASSUME Types, script = "rules", NEW p \in Savers, SaveRule(p)
    PROVE  /\ RowsTyped'
           /\ \E s \in saver[p] : \E id \in Ids : \E new \in RuleRows :
                 /\ s \in Checks
                 /\ new = [s.row EXCEPT !.id = id] /\ new.id = id
                 /\ s.row.id = 0 => \A r \in rows : r.id # id
                 /\ s.row.id # 0 => id = s.row.id
                 /\ rows' = {r \in rows : r.id # id} \cup {new}
                 /\ seeded' = (s.bySeed /\ s.row.scope = Scope /\ ~overlapped)
<1>1. PICK s \in saver[p] :
          LET id == IF s.row.id = 0 THEN Fresh(rows) ELSE s.row.id
          IN  /\ rows' = {r \in rows : r.id # id} \cup {[s.row EXCEPT !.id = id]}
              /\ seeded' = (s.bySeed /\ s.row.scope = Scope /\ ~overlapped)
  BY DEF SaveRule
<1>. DEFINE id == IF s.row.id = 0 THEN Fresh(rows) ELSE s.row.id
            new == [s.row EXCEPT !.id = id]
<1>2. s \in Checks /\ s.row \in RuleRows /\ s.row.id \in Nat
  <2>1. saver[p] \in SUBSET Checks
    BY DEF Types, Checks
  <2>2. s \in Checks
    BY <2>1
  <2>3. s.row \in RuleRows
    BY <2>2 DEF Checks
  <2>. QED BY <2>2, <2>3 DEF RuleRows
<1>3. /\ Fresh(rows) \in Ids /\ \A r \in rows : r.id # Fresh(rows)
  <2>1. Fresh(rows) \in Ids /\ \A r \in rows : r.id < Fresh(rows)
    BY FreshIsLast DEF Types
  <2>2. \A r \in rows : r.id \in Nat
    BY DEF Types, Ordered, Ids
  <2>. QED BY <2>1, <2>2 DEF Ids
<1>4. id \in Ids
  BY <1>2, <1>3 DEF Ids
<1>5. s.row.id = 0 => \A r \in rows : r.id # id
  BY <1>3
<1>6. s.row.id # 0 => id = s.row.id
  OBVIOUS
<1>7. rows' = {r \in rows : r.id # id} \cup {new}
  BY <1>1
<1>. HIDE DEF id
<1>8. new \in RuleRows /\ new.id = id
  BY <1>2, <1>4 DEF RuleRows, Ids
<1>. HIDE DEF new
<1>9. RowsTyped'
  <2>1. Ordered({r \in rows : r.id # id})
    BY FewerOrdered DEF Types
  <2>2. Ordered(rows')
    BY <1>4, <1>7, <1>8, <2>1, MoreOrdered
  <2>3. script' = script
    BY DEF SaveRule
  <2>. QED BY <1>7, <1>8, <2>2, <2>3, Kinds DEF Types, RowsTyped, Mapped, Trapped
<1>. QED BY <1>1, <1>2, <1>4, <1>5, <1>6, <1>7, <1>8, <1>9 DEF new

LEMMA TypesStay == Types /\ [Next]_vars => Types'
<1>. SUFFICES ASSUME Types, [Next]_vars PROVE Types'
  OBVIOUS
<1>. DEFINE Rest ==
        /\ models' \in SUBSET {"own", "alike"}
        /\ script' = script /\ table' \in Tables(script)
        /\ half' \in BOOLEAN /\ (half' => script = "PACTraps")
        /\ saver' \in [Savers -> SUBSET Checks]
        /\ script # "rules" => \A p \in Savers : saver'[p] = {}
        /\ seeded' \in BOOLEAN /\ overlapped' \in BOOLEAN
<1>1. RowsTyped' /\ Rest => Types'
  BY DEF Types, RowsTyped, Checks
<1>2. ASSUME UNCHANGED <<script, rows>> PROVE RowsTyped'
  BY <1>2 DEF Types, RowsTyped, Mapped, Trapped
<1>. USE DEF Types, Checks
<1>3. CASE Release
  <2>1. RowsTyped'
    BY <1>2, <1>3 DEF Release
  <2>2. Rest
    BY <1>3 DEF Release
  <2>. QED BY <1>1, <2>1, <2>2
<1>4. CASE AddModel
  <2>1. RowsTyped'
    BY <1>2, <1>4 DEF AddModel
  <2>2. Rest
    BY <1>4 DEF AddModel
  <2>. QED BY <1>1, <2>1, <2>2
<1>5. CASE StopHalfway
  <2>1. RowsTyped'
    BY <1>2, <1>5 DEF StopHalfway
  <2>2. Rest
    BY <1>5 DEF StopHalfway
  <2>. QED BY <1>1, <2>1, <2>2
<1>6. ASSUME NEW model \in {"own", "any"}, NEW vendor \in {"own", "none"}, AddRow(model, vendor)
      PROVE  Types'
  <2>1. Rest
    BY <1>6 DEF AddRow
  <2>2. RowsTyped'
    BY <1>6, AddRowTyped
  <2>. QED BY <1>1, <2>1, <2>2
<1>7. ASSUME NEW r \in rows, Toggle(r) PROVE Types'
  <2>1. Rest
    BY <1>7 DEF Toggle
  <2>2. RowsTyped'
    BY <1>7, ToggleTyped
  <2>. QED BY <1>1, <2>1, <2>2
<1>8. ASSUME NEW r \in rows, Delete(r) PROVE Types'
  <2>1. Rest
    BY <1>8 DEF Delete
  <2>2. RowsTyped'
    BY <1>8, DeleteTyped
  <2>. QED BY <1>1, <2>1, <2>2
<1>9. CASE SeedMappings
  <2>1. RowsTyped' /\ models' \in SUBSET {"own", "alike"}
    BY <1>9, SeedMappingsTyped
  <2>2. Rest
    BY <1>9, <2>1 DEF SeedMappings
  <2>. QED BY <1>1, <2>1, <2>2
<1>10. CASE SeedBaseline
  <2>1. RowsTyped'
    BY <1>10, SeedBaselineTyped
  <2>2. Rest
    BY <1>10 DEF SeedBaseline
  <2>. QED BY <1>1, <2>1, <2>2
<1>11. CASE SeedTraps
  <2>1. RowsTyped' /\ models' \in SUBSET {"own", "alike"}
    BY <1>11, SeedTrapsTyped
  <2>2. Rest
    BY <1>11, <2>1 DEF SeedTraps
  <2>. QED BY <1>1, <2>1, <2>2
<1>12. ASSUME NEW code \in Codes, SeedPacTrap(code) PROVE Types'
  <2>1. RowsTyped'
    BY <1>12, SeedPacTrapTyped
  <2>2. Rest
    BY <1>12 DEF SeedPacTrap
  <2>. QED BY <1>1, <2>1, <2>2
<1>13. ASSUME NEW p \in Savers, SeedByName(p) \/ SeedByCondition(p) \/ EditRule(p) PROVE Types'
  <2>1. saver' \in [Savers -> SUBSET Checks] /\ overlapped' \in BOOLEAN
    BY <1>13, RuleChecks, CheckTyped
  <2>2. script = "rules" /\ UNCHANGED <<script, models, table, rows, half, seeded>>
    BY <1>13 DEF SeedByName, SeedByCondition, EditRule
  <2>3. RowsTyped'
    BY <1>2, <2>2
  <2>4. Rest
    BY <2>1, <2>2
  <2>. QED BY <1>1, <2>3, <2>4
<1>14. ASSUME NEW p \in Savers, SaveRule(p) PROVE Types'
  <2>1. script = "rules"
    BY <1>14 DEF SaveRule
  <2>2. RowsTyped' /\ seeded' \in BOOLEAN
    BY <1>14, <2>1, SaveRuleTyped
  <2>3. Rest
    BY <1>14, <2>2 DEF SaveRule
  <2>. QED BY <1>1, <2>2, <2>3
<1>15. CASE UNCHANGED vars
  <2>1. RowsTyped'
    BY <1>2, <1>15 DEF vars
  <2>2. Rest
    BY <1>15 DEF vars
  <2>. QED BY <1>1, <2>1, <2>2
<1>. QED BY <1>3, <1>4, <1>5, <1>6, <1>7, <1>8, <1>9, <1>10, <1>11, <1>12, <1>13, <1>14, <1>15
         DEF Next

-----------------------------------------------------------------------------
(* Alert rules.                                                            *)

Apart ==
    \A r, o \in rows : r.active /\ o.active /\ r.id # o.id =>
        <<r.scope, r.condition>> # <<o.scope, o.condition>>

OneChecked ==
    /\ \A p, q \in Savers : saver[p] # {} /\ saver[q] # {} => p = q
    /\ \A p \in Savers : \A s \in saver[p] : Unique(s.row)

SeedsAlarm ==
    /\ \A p \in Savers : \A s \in saver[p] : s.bySeed => s.row.active /\ s.row.condition = "EQ 1"
    /\ seeded => \E r \in rows : r.active /\ r.scope = Scope /\ r.condition = "EQ 1"

RulesInv == script = "rules" => (~overlapped => Apart /\ OneChecked) /\ SeedsAlarm

LEMMA InitRules == Init => RulesInv
BY DEF Init, RulesInv, Apart, OneChecked, SeedsAlarm

\* A rule is checked against the rows as they are.
LEMMA CheckKeepsRules ==
    ASSUME Types, RulesInv, script = "rules", NEW p \in Savers, NEW r \in RuleRows,
           NEW bySeed \in BOOLEAN, NEW locked \in BOOLEAN, Check(p, r, bySeed, locked),
           bySeed => r.active /\ r.condition = "EQ 1",
           UNCHANGED <<script, models, rows, seeded>>
    PROVE  RulesInv'
<1>. DEFINE checked == [row |-> r, bySeed |-> bySeed, locked |-> locked]
<1>1. saver' = [saver EXCEPT ![p] = {checked}] /\ Unique(r) /\ saver[p] = {}
  BY DEF Check
<1>2. overlapped' = (overlapped \/ \E q \in Savers : saver[q] # {})
  BY DEF Check
<1>3. checked.row = r /\ checked.bySeed = bySeed
  OBVIOUS
<1>. HIDE DEF checked
<1>4. \A q \in Savers : saver'[q] = IF q = p THEN {checked} ELSE saver[q]
  BY <1>1 DEF Types
<1>5. Apart' <=> Apart
  BY DEF Apart
<1>6. \A any : Unique(any)' <=> Unique(any)
  BY DEF Unique
<1>7. ASSUME ~overlapped' PROVE Apart' /\ OneChecked'
  <2>1. ~overlapped /\ \A q \in Savers : saver[q] = {}
    BY <1>2, <1>7
  <2>2. Apart
    BY <2>1 DEF RulesInv
  <2>3. \A q \in Savers : saver'[q] # {} => q = p /\ saver'[q] = {checked}
    BY <1>4, <2>1
  <2>4. Unique(checked.row)'
    BY <1>1, <1>3, <1>6
  <2>5. OneChecked'
    BY <2>3, <2>4 DEF OneChecked
  <2>. QED BY <1>5, <2>2, <2>5
<1>8. SeedsAlarm'
  <2>1. SeedsAlarm /\ Scope' = Scope
    BY DEF RulesInv, Scope
  <2>. QED BY <1>3, <1>4, <2>1 DEF SeedsAlarm
<1>. QED BY <1>7, <1>8 DEF RulesInv

LEMMA SaveKeepsRules ==
    ASSUME Types, RulesInv, script = "rules", NEW p \in Savers, SaveRule(p)
    PROVE  RulesInv'
<1>1. PICK s \in saver[p] : \E id \in Ids : \E new \in RuleRows :
          /\ s \in Checks
          /\ new = [s.row EXCEPT !.id = id] /\ new.id = id
          /\ s.row.id = 0 => \A r \in rows : r.id # id
          /\ s.row.id # 0 => id = s.row.id
          /\ rows' = {r \in rows : r.id # id} \cup {new}
          /\ seeded' = (s.bySeed /\ s.row.scope = Scope /\ ~overlapped)
  BY SaveRuleTyped
<1>2. PICK id \in Ids, new \in RuleRows :
          /\ s \in Checks
          /\ new = [s.row EXCEPT !.id = id] /\ new.id = id
          /\ s.row.id = 0 => \A r \in rows : r.id # id
          /\ s.row.id # 0 => id = s.row.id
          /\ rows' = {r \in rows : r.id # id} \cup {new}
          /\ seeded' = (s.bySeed /\ s.row.scope = Scope /\ ~overlapped)
  BY <1>1
<1>3. /\ new.active = s.row.active /\ new.scope = s.row.scope
      /\ new.condition = s.row.condition
  BY <1>2 DEF Checks, RuleRows
<1>4. /\ saver' = [saver EXCEPT ![p] = {}]
      /\ UNCHANGED <<script, models, overlapped>>
  BY DEF SaveRule
<1>5. \A q \in Savers : saver'[q] = IF q = p THEN {} ELSE saver[q]
  BY <1>4 DEF Types
<1>6. SeedsAlarm /\ Scope' = Scope
  BY <1>4 DEF RulesInv, Scope
<1>7. ASSUME ~overlapped' PROVE Apart' /\ OneChecked'
  <2>1. Apart /\ OneChecked
    BY <1>4, <1>7 DEF RulesInv
  <2>2. ASSUME NEW o \in rows, o.id # id, o.active, new.active
        PROVE  <<o.scope, o.condition>> # <<new.scope, new.condition>>
    <3>1. Unique(s.row)
      BY <2>1 DEF OneChecked
    <3>2. o.id # s.row.id
      BY <1>2, <2>2 DEF Types, Ordered, Ids
    <3>. QED BY <1>3, <2>2, <3>1, <3>2 DEF Unique
  <2>3. Apart'
    <3>. SUFFICES ASSUME NEW r \in rows', NEW o \in rows', r.active, o.active, r.id # o.id,
                         r.scope = o.scope, r.condition = o.condition
                  PROVE  FALSE
      BY DEF Apart
    <3>1. CASE r = new
      <4>1. o \in rows /\ o.id # id
        BY <1>2, <3>1
      <4>. QED BY <2>2, <3>1, <4>1
    <3>2. CASE o = new
      <4>1. r \in rows /\ r.id # id
        BY <1>2, <3>2
      <4>. QED BY <2>2, <3>2, <4>1
    <3>3. CASE r # new /\ o # new
      BY <1>2, <2>1, <3>3 DEF Apart
    <3>. QED BY <3>1, <3>2, <3>3
  <2>4. \A q \in Savers : saver'[q] = {}
    BY <1>5, <2>1 DEF OneChecked
  <2>. QED BY <2>3, <2>4 DEF OneChecked
<1>8. SeedsAlarm'
  <2>1. ASSUME seeded' PROVE new.active /\ new.scope = Scope /\ new.condition = "EQ 1"
    BY <1>2, <1>3, <1>6, <2>1 DEF SeedsAlarm
  <2>. QED BY <1>2, <1>5, <1>6, <2>1 DEF SeedsAlarm
<1>. QED BY <1>4, <1>7, <1>8 DEF RulesInv

LEMMA RulesStay == Types /\ RulesInv /\ [Next]_vars => RulesInv'
<1>. SUFFICES ASSUME Types, RulesInv, [Next]_vars, script = "rules" PROVE RulesInv'
  <2>1. [Next]_vars => script' = script
    BY DEF vars, Next, Release, AddModel, StopHalfway, AddRow, Toggle, Delete, SeedMappings,
           SeedBaseline, SeedTraps, SeedPacTrap, SeedByName, SeedByCondition, EditRule, SaveRule
  <2>. QED BY <2>1 DEF RulesInv
<1>a. ~Mapped /\ ~Trapped
  BY Kinds DEF Mapped, Trapped
\* Fewer rows, no seeds, and what was checked.
<1>b. ASSUME rows' \subseteq rows, ~seeded', UNCHANGED <<saver, overlapped>> PROVE RulesInv'
  BY <1>b DEF RulesInv, Apart, OneChecked, SeedsAlarm, Unique
<1>1. CASE Release
  BY <1>1, <1>b DEF Release
<1>2. CASE AddModel
  BY <1>2, <1>b DEF AddModel
<1>3. CASE StopHalfway
  BY <1>3, <1>b DEF StopHalfway
<1>4. ASSUME NEW model \in {"own", "any"}, NEW vendor \in {"own", "none"}, AddRow(model, vendor)
      PROVE  RulesInv'
  BY <1>4, <1>a DEF AddRow, Mapped, Trapped
<1>5. ASSUME NEW r \in rows, Toggle(r) PROVE RulesInv'
  BY <1>5 DEF Toggle
<1>6. ASSUME NEW r \in rows, Delete(r) PROVE RulesInv'
  BY <1>6, <1>b DEF Delete
<1>7. CASE SeedMappings \/ SeedBaseline \/ SeedTraps \/ \E code \in Codes : SeedPacTrap(code)
  BY <1>7, <1>a DEF SeedMappings, SeedBaseline, SeedTraps, SeedPacTrap, Mapped, Trapped
<1>8. ASSUME NEW p \in Savers, SeedByName(p) \/ SeedByCondition(p) \/ EditRule(p)
      PROVE  RulesInv'
  <2>1. UNCHANGED <<script, models, rows, seeded>>
    BY <1>8 DEF SeedByName, SeedByCondition, EditRule
  <2>. QED BY <1>8, <2>1, RuleChecks, CheckKeepsRules
<1>9. ASSUME NEW p \in Savers, SaveRule(p) PROVE RulesInv'
  BY <1>9, SaveKeepsRules
<1>10. CASE UNCHANGED vars
  BY <1>10 DEF vars, RulesInv, Apart, OneChecked, SeedsAlarm, Unique, Scope
<1>. QED BY <1>1, <1>2, <1>3, <1>4, <1>5, <1>6, <1>7, <1>8, <1>9, <1>10 DEF Next

-----------------------------------------------------------------------------
(* Whose rows they are.                                                    *)

\* What no operator has added, a script has written for one of its targets.
OwnRows ==
    Mapped \/ Trapped =>
        \A r \in rows : r.id \notin byHand =>
            /\ r.vendor = Vendor
            /\ IF script = "DCIM" THEN r.model = "any" ELSE r.model \in {"own", "alike"}

LEMMA InitOwn == Init => OwnRows
BY DEF Init, OwnRows

\* A row that a script writes is its own.
LEMMA UpsertKeepsOwn ==
    ASSUME OwnRows, NEW found, NEW new, rows' = (rows \ found) \cup {new},
           new.vendor = Vendor,
           IF script = "DCIM" THEN new.model = "any" ELSE new.model \in {"own", "alike"},
           UNCHANGED <<script, byHand>>
    PROVE  OwnRows'
BY DEF OwnRows, Mapped, Trapped, Vendor

LEMMA OwnStays == Types /\ OwnRows /\ [Next]_vars => OwnRows'
<1>. SUFFICES ASSUME Types, OwnRows, [Next]_vars PROVE OwnRows'
  OBVIOUS
<1>a. ASSUME rows' \subseteq rows, UNCHANGED <<script, byHand>> PROVE OwnRows'
  BY <1>a DEF OwnRows, Mapped, Trapped, Vendor
<1>1. CASE Release \/ AddModel \/ StopHalfway
  BY <1>1, <1>a DEF Release, AddModel, StopHalfway
<1>2. ASSUME NEW model \in {"own", "any"}, NEW vendor \in {"own", "none"}, AddRow(model, vendor)
      PROVE  OwnRows'
  <2>1. script' = script /\ byHand' = byHand \cup {Fresh(rows)}
    BY <1>2 DEF AddRow
  <2>2. \A r \in rows' : r \in rows \/ r.id = Fresh(rows)
    BY <1>2 DEF AddRow
  <2>. QED BY <2>1, <2>2 DEF OwnRows, Mapped, Trapped, Vendor
<1>3. ASSUME NEW r \in rows, Toggle(r) PROVE OwnRows'
  <2>1. /\ rows' = (rows \ {r}) \cup {[r EXCEPT !.active = ~@]}
        /\ UNCHANGED <<script, byHand>> /\ script # "rules"
    BY <1>3 DEF Toggle
  <2>2. /\ [r EXCEPT !.active = ~@].id = r.id
        /\ [r EXCEPT !.active = ~@].vendor = r.vendor
        /\ [r EXCEPT !.active = ~@].model = r.model
    <3>1. r \in MappingRows \/ r \in TrapRows
      BY <2>1, Kinds DEF Types, Mapped, Trapped
    <3>. QED BY <3>1 DEF MappingRows, TrapRows
  <2>. QED BY <2>1, <2>2 DEF OwnRows, Mapped, Trapped, Vendor
<1>4. ASSUME NEW r \in rows, Delete(r) PROVE OwnRows'
  <2>1. rows' = rows \ {r} /\ byHand' = byHand \ {r.id} /\ script' = script
    BY <1>4 DEF Delete
  <2>2. \A o \in rows \ {r} : o.id # r.id
    BY DEF Types, Ordered
  <2>. QED BY <2>1, <2>2 DEF OwnRows, Mapped, Trapped, Vendor
<1>5. CASE SeedMappings
  <2>. DEFINE target == Target(script, models)
              key == OidScripts[script].key
  <2>1. /\ Mapped /\ script \in Scripts \ {"rules", "DCIM", "PACTraps"}
        /\ UNCHANGED <<script, byHand>>
    BY <1>5, Kinds DEF SeedMappings, Scripts, Mapped
  <2>2. target \in {"own", "alike"}
    BY <1>5, <2>1, Targets DEF SeedMappings
  <2>3. rows' = Upserted(rows, key, MappingRow(target))
    BY <1>5 DEF SeedMappings
  <2>. HIDE DEF target, key
  <2>4. PICK new \in MappingRows :
            /\ new.model = target /\ new.vendor = Vendor
            /\ Upserted(rows, key, MappingRow(target)) =
                  (rows \ Matching(rows, key, MappingRow(target))) \cup {new}
    BY <2>1, <2>2, MappingUpserted DEF Models
  <2>. QED BY <2>1, <2>2, <2>3, <2>4, UpsertKeepsOwn
<1>6. CASE SeedBaseline
  <2>1. Mapped /\ script = "DCIM" /\ UNCHANGED <<script, byHand>>
    BY <1>6, Kinds DEF SeedBaseline, Mapped
  <2>2. PICK new \in MappingRows :
            /\ new.model = "any" /\ new.vendor = Vendor
            /\ Upserted(rows, DCIMKey, MappingRow(DCIMTarget)) =
                  (rows \ Matching(rows, DCIMKey, MappingRow(DCIMTarget))) \cup {new}
    BY <2>1, MappingUpserted DEF Models, DCIMTarget
  <2>3. CASE rows' = rows
    BY <1>a, <2>1, <2>3
  <2>4. CASE rows' = Upserted(rows, DCIMKey, MappingRow(DCIMTarget))
    BY <2>1, <2>2, <2>4, UpsertKeepsOwn
  <2>. QED BY <1>6, <2>3, <2>4 DEF SeedBaseline, Kept
<1>7. CASE SeedTraps
  <2>. DEFINE target == Target(script, models)
              key == TrapScripts[script]
              first == Upserted(rows, key, TrapRow(target, "fired"))
  <2>1. /\ Trapped /\ script \in Scripts \ {"rules", "DCIM", "PACTraps"}
        /\ UNCHANGED <<script, byHand>>
    BY <1>7, Kinds DEF SeedTraps, Scripts, Trapped
  <2>2. target \in {"own", "alike"} /\ Vendor = "own"
    BY <1>7, <2>1, Targets DEF SeedTraps, Vendor
  <2>3. rows' = Upserted(first, key, TrapRow(target, "restored"))
    BY <1>7 DEF SeedTraps
  <2>. HIDE DEF target, key
  <2>4. target \in Models /\ "fired" \in Codes /\ "restored" \in Codes
    BY <2>2 DEF Models, Codes
  <2>5. PICK one \in TrapRows :
            /\ one.model = target /\ one.vendor = "own"
            /\ first = (rows \ Matching(rows, key, TrapRow(target, "fired"))) \cup {one}
            /\ Ordered(first) /\ first \in SUBSET TrapRows
    BY <2>1, <2>4, TrapUpserted DEF Types
  <2>. HIDE DEF first
  <2>6. PICK two \in TrapRows :
            /\ two.model = target /\ two.vendor = "own"
            /\ rows' = (first \ Matching(first, key, TrapRow(target, "restored"))) \cup {two}
    BY <2>1, <2>3, <2>4, <2>5, TrapUpserted
  <2>7. \A r \in rows' : r \in rows \/ r = one \/ r = two
    BY <2>5, <2>6
  <2>. QED BY <2>1, <2>2, <2>5, <2>6, <2>7 DEF OwnRows, Mapped, Trapped, Vendor
<1>8. ASSUME NEW code \in Codes, SeedPacTrap(code) PROVE OwnRows'
  <2>1. Trapped /\ script = "PACTraps" /\ UNCHANGED <<script, byHand>> /\ Vendor = "own"
    BY <1>8, Kinds DEF SeedPacTrap, Trapped, Vendor
  <2>2. PICK new \in TrapRows :
            /\ new.model = "own" /\ new.vendor = "own"
            /\ Upserted(rows, PACTrapKey, TrapRow("own", code)) =
                  (rows \ Matching(rows, PACTrapKey, TrapRow("own", code))) \cup {new}
    BY <2>1, TrapUpserted DEF Types, Models
  <2>3. rows' = Upserted(rows, PACTrapKey, TrapRow("own", code))
    BY <1>8 DEF SeedPacTrap
  <2>. QED BY <2>1, <2>2, <2>3, UpsertKeepsOwn
<1>9. ASSUME NEW p \in Savers,
             SeedByName(p) \/ SeedByCondition(p) \/ EditRule(p) \/ SaveRule(p)
      PROVE  OwnRows'
  <2>1. script = "rules" /\ script' = script
    BY <1>9 DEF Types, SeedByName, SeedByCondition, EditRule, SaveRule
  <2>. QED BY <2>1, Kinds DEF OwnRows, Mapped, Trapped
<1>10. CASE UNCHANGED vars
  BY <1>10, <1>a DEF vars
<1>. QED BY <1>1, <1>2, <1>3, <1>4, <1>5, <1>6, <1>7, <1>8, <1>9, <1>10 DEF Next

-----------------------------------------------------------------------------
(* Mappings, once they are seeded.                                         *)

\* A row is what the table says, active, and of the model.
Described(r, model) ==
    /\ r.active /\ r.model = model /\ r.oid = table.oid
    /\ r.type = table.item.mapping /\ r.scale = table.item.scale

MappingsSeeded ==
    /\ script = "DCIM" => metric \in {"none", "INTEGER"}
    /\ Mapped /\ seeded =>
          /\ metric = IF script = "DCIM" THEN "INTEGER" ELSE SavedType(script, table.item)
          /\ script # "DCIM" =>
                \E r \in rows :
                    /\ Described(r, "own")
                    /\ \A o \in rows \ {r} : o.model = "own" /\ o.id \notin byHand =>
                          script \in OldOidsKept /\ o.oid # table.oid
          /\ script = "DCIM" /\ byHand = {} =>
                \E r \in rows :
                    /\ Described(r, "any")
                    /\ \A o \in rows \ {r} : o.oid # table.oid

LEMMA InitMappings == Init => MappingsSeeded
BY DEF Init, MappingsSeeded

\* Most scripts look for the OID, and leave the row of another one as it is; those of
\* the PAC and the PDU find what they wrote for any OID.
LEMMA KeysFind ==
    ASSUME Types, OwnRows, Mapped, script # "DCIM", NEW o \in rows, o.model = "own",
           o.id \notin byHand, o \notin Matching(rows, OidScripts[script].key, MappingRow("own"))
    PROVE  script \in OldOidsKept /\ o.oid # table.oid
<1>1. o.vendor = "own" /\ Vendor = "own"
  BY DEF OwnRows, Vendor
<1>2. /\ MappingRow("own")["vendor"] = "own" /\ MappingRow("own")["model"] = "own"
      /\ MappingRow("own")["oid"] = table.oid
  BY <1>1 DEF MappingRow
<1>3. o["vendor"] = "own" /\ o["model"] = "own"
  BY <1>1
<1>4. PICK f \in OidScripts[script].key : o[f] # MappingRow("own")[f]
  BY DEF Matching
<1>5. CASE script \in {"ATS", "UPS", "NetBotz"}
  <2>1. OidScripts[script].key = {"vendor", "model", "oid"}
    BY <1>5 DEF OidScripts, ATSKey, UPSKey, NetBotzKey
  <2>2. f = "oid"
    BY <1>2, <1>3, <1>4, <2>1
  <2>. QED BY <1>2, <1>4, <1>5, <2>2 DEF OldOidsKept
<1>6. CASE script \in {"PAC", "PDU"}
  <2>1. OidScripts[script].key \subseteq {"vendor", "model"}
    BY <1>6 DEF OidScripts, PACKey, PDUKey
  <2>. QED BY <1>2, <1>3, <1>4, <2>1
<1>. QED BY <1>5, <1>6, Kinds DEF Mapped

LEMMA SeedsMappings ==
    ASSUME Types, OwnRows, SeedMappings
    PROVE  MappingsSeeded'
<1>. DEFINE key == OidScripts[script].key
<1>1. Mapped /\ script # "DCIM"
  BY Kinds DEF SeedMappings, Mapped
<1>2. /\ UNCHANGED <<script, table, byHand>> /\ metric' = SavedType(script, table.item)
      /\ seeded' = (Target(script, models) = "own")
      /\ rows' = Upserted(rows, key, MappingRow(Target(script, models)))
  BY DEF SeedMappings
<1>3. ASSUME seeded' PROVE \E r \in rows' :
              /\ Described(r, "own")'
              /\ \A o \in rows' \ {r} : o.model = "own" /\ o.id \notin byHand =>
                    script \in OldOidsKept /\ o.oid # table.oid
  <2>1. rows' = Upserted(rows, key, MappingRow("own"))
    BY <1>2, <1>3
  <2>. HIDE DEF key
  <2>2. PICK new \in MappingRows :
            /\ new.model = "own" /\ new.oid = table.oid /\ new.type = table.item.mapping
            /\ new.scale = table.item.scale /\ new.active
            /\ rows' = (rows \ Matching(rows, key, MappingRow("own"))) \cup {new}
    BY <1>1, <2>1, MappingUpserted DEF Models
  <2>3. \A o \in rows' \ {new} :
            o \in rows /\ o \notin Matching(rows, key, MappingRow("own"))
    BY <2>2
  <2>4. \A o \in rows' \ {new} : o.model = "own" /\ o.id \notin byHand =>
            script \in OldOidsKept /\ o.oid # table.oid
    BY <1>1, <2>3, KeysFind DEF key
  <2>5. new \in rows' /\ Described(new, "own")'
    BY <1>2, <2>2 DEF Described
  <2>. QED BY <2>4, <2>5
<1>. QED BY <1>1, <1>2, <1>3 DEF MappingsSeeded

\* seed_dcim only says that it has seeded when it found nothing.
LEMMA SeedsBaseline ==
    ASSUME Types, OwnRows, MappingsSeeded, SeedBaseline
    PROVE  MappingsSeeded'
<1>. DEFINE found == Matching(rows, DCIMKey, MappingRow(DCIMTarget))
<1>1. /\ Mapped /\ script = "DCIM" /\ UNCHANGED <<script, table, byHand>>
      /\ rows' = IF found = {} THEN Upserted(rows, DCIMKey, MappingRow(DCIMTarget)) ELSE rows
      /\ metric' = IF metric = "none" THEN table.item.metric ELSE metric
      /\ seeded' = (rows' # rows)
  BY Kinds DEF SeedBaseline, Mapped, Kept
<1>2. metric' = "INTEGER"
  <2>1. table.item \in DCIMItems
    BY <1>1, TableTypes DEF OidScripts
  <2>2. table.item.metric = "INTEGER"
    BY <2>1 DEF DCIMItems, Item
  <2>. QED BY <1>1, <2>2 DEF MappingsSeeded
<1>3. ASSUME seeded', byHand = {}
      PROVE  \E r \in rows' : Described(r, "any")' /\ \A o \in rows' \ {r} : o.oid # table.oid
  <2>1. found = {} /\ rows' = Upserted(rows, DCIMKey, MappingRow("any"))
    BY <1>1, <1>3 DEF DCIMTarget
  <2>2. PICK new \in MappingRows :
            /\ new.model = "any" /\ new.oid = table.oid /\ new.type = table.item.mapping
            /\ new.scale = table.item.scale /\ new.active
            /\ rows' = (rows \ Matching(rows, DCIMKey, MappingRow("any"))) \cup {new}
    BY <1>1, <2>1, MappingUpserted DEF Models
  <2>3. ASSUME NEW o \in rows PROVE o.oid # table.oid
    <3>1. o.vendor = "none" /\ o.model = "any"
      BY <1>1, <1>3 DEF OwnRows, Vendor
    <3>2. /\ MappingRow("any")["vendor"] = "none" /\ MappingRow("any")["model"] = "any"
          /\ MappingRow("any")["oid"] = table.oid
      BY <1>1 DEF MappingRow, Vendor
    <3>3. \E f \in {"vendor", "model", "oid"} : o[f] # MappingRow("any")[f]
      BY <2>1 DEF Matching, DCIMKey, DCIMTarget
    <3>. QED BY <3>1, <3>2, <3>3
  <2>4. new \in rows' /\ Described(new, "any")'
    BY <1>1, <2>2 DEF Described
  <2>. QED BY <2>2, <2>3, <2>4
<1>. QED BY <1>1, <1>2, <1>3 DEF MappingsSeeded

LEMMA MappingsStay == Types /\ OwnRows /\ MappingsSeeded /\ [Next]_vars => MappingsSeeded'
<1>. SUFFICES ASSUME Types, OwnRows, MappingsSeeded, [Next]_vars PROVE MappingsSeeded'
  OBVIOUS
<1>a. ASSUME ~seeded' \/ ~Mapped, UNCHANGED <<script, metric>> PROVE MappingsSeeded'
  BY <1>a DEF MappingsSeeded, Mapped
<1>1. CASE \/ Release \/ AddModel \/ StopHalfway
           \/ \E model \in {"own", "any"}, vendor \in {"own", "none"} : AddRow(model, vendor)
           \/ \E r \in rows : Toggle(r) \/ Delete(r)
  BY <1>1, <1>a DEF Release, AddModel, StopHalfway, AddRow, Toggle, Delete
<1>2. CASE SeedMappings
  BY <1>2, SeedsMappings
<1>3. CASE SeedBaseline
  BY <1>3, SeedsBaseline
<1>4. CASE SeedTraps \/ \E code \in Codes : SeedPacTrap(code)
  <2>1. ~Mapped
    BY <1>4, Kinds DEF SeedTraps, SeedPacTrap, Mapped
  <2>. QED BY <1>4, <1>a, <2>1 DEF SeedTraps, SeedPacTrap
<1>5. ASSUME NEW p \in Savers,
             SeedByName(p) \/ SeedByCondition(p) \/ EditRule(p) \/ SaveRule(p)
      PROVE  MappingsSeeded'
  <2>1. script = "rules" /\ UNCHANGED <<script, metric>>
    BY <1>5 DEF Types, SeedByName, SeedByCondition, EditRule, SaveRule
  <2>. QED BY <1>a, <2>1, Kinds DEF Mapped
<1>6. CASE UNCHANGED vars
  BY <1>6 DEF vars, MappingsSeeded, Mapped, Described
<1>. QED BY <1>1, <1>2, <1>3, <1>4, <1>5, <1>6 DEF Next

-----------------------------------------------------------------------------
(* What is read with them.                                                 *)

ReadTypes == {"FLOAT", "INTEGER", "TEXT"}

\* The type that a metric has after its script.
TypeAfter(name, item) ==
    Upper(IF name = "DCIM" THEN "INTEGER" ELSE SavedType(name, item))

\* No table scales an INTEGER, which would be rounded, or means a number by a type
\* that is stored as no number.
LEMMA TablesExact ==
    ASSUME NEW name \in DOMAIN OidScripts, NEW item \in OidScripts[name].items,
           TypeAfter(name, item) = "INTEGER"
    PROVE  item.scale = 100
<1>1. CASE name = "ATS"
  BY <1>1 DEF OidScripts, ATSItems, Item, TypeAfter, SavedType, ATSMetric, ATSChoice, Upper,
              MetricDataTypes
<1>2. CASE name = "UPS"
  <2>1. item \in UPSItems
    BY <1>2 DEF OidScripts
  <2>2. item.metric = "Float" => TypeAfter(name, item) = "FLOAT"
    BY <1>2 DEF TypeAfter, SavedType, UPSMetric, UPSChoice, Upper, MetricDataTypes
  <2>. QED BY <2>1, <2>2 DEF UPSItems, Item
<1>3. CASE name = "PAC"
  <2>1. item \in PACItems
    BY <1>3 DEF OidScripts
  <2>2. item.metric = "Float" => TypeAfter(name, item) = "FLOAT"
    BY <1>3 DEF TypeAfter, SavedType, PACMetric, PACChoice, Upper, MetricDataTypes
  <2>. QED BY <2>1, <2>2 DEF PACItems, Item
<1>4. CASE name = "NetBotz"
  <2>1. item \in NetBotzItems
    BY <1>4 DEF OidScripts
  <2>2. PICK m \in NetBotzMetrics, t \in {"string", "integer", "timeticks"} :
            item = Item(m, t, 100)
    BY <2>1 DEF NetBotzItems
  <2>. QED BY <2>2 DEF Item
<1>5. CASE name = "PDU"
  <2>1. item \in PDUItems
    BY <1>5 DEF OidScripts
  <2>2. item.metric = "float" => TypeAfter(name, item) = "FLOAT"
    BY <1>5 DEF TypeAfter, SavedType, PDUMetric, Upper
  <2>. QED BY <2>1, <2>2 DEF PDUItems, Item
<1>6. CASE name = "DCIM"
  BY <1>6 DEF OidScripts, DCIMItems, Item
<1>. QED BY <1>1, <1>2, <1>3, <1>4, <1>5, <1>6, Kinds

\* A whole number of units is not changed by rounding.
LEMMA WholeStays == \A x \in {0, 200, 70000} : R!HalfUp(x) = x
BY DEF R!HalfUp, R!Sign, R!Abs, R!Unit

\* What the collector makes of a number that a mapping of no boolean type has read.
StoredRight(type, parsed, scale, raw) ==
    LET m == [type |-> parsed, scale |-> scale, offset |-> 0]
        stored == R!Outcome([protocol |-> "SNMP", raw |-> R!Num(raw), metric |-> type, m |-> m])
    IN  /\ R!Quality(type, stored) = "GOOD"
        /\ stored.value.is = IF parsed = "text" THEN raw ELSE (raw * scale) \div 100

LEMMA NumberStored ==
    ASSUME NEW type \in ReadTypes, NEW parsed \in {"number", "text"}, NEW scale \in Nat,
           NEW raw \in {0, 200, 70000}, type = "INTEGER" => scale = 100
    PROVE  StoredRight(type, parsed, scale, raw)
<1>. DEFINE m == [type |-> parsed, scale |-> scale, offset |-> 0]
            input == [protocol |-> "SNMP", raw |-> R!Num(raw), metric |-> type, m |-> m]
            x == IF parsed = "text" THEN raw ELSE (raw * scale) \div 100
            final == R!Final("SNMP", R!Num(raw), m)
<1>1. final = R!Num(x)
  <2>1. R!Num(raw).type = "number" /\ R!Num(raw).is = raw
    BY DEF R!Num
  <2>2. R!Parsed(R!Num(raw), m) = R!Num(raw)
    BY DEF R!Parsed
  <2>3. R!Scaled(raw, m) = (raw * scale) \div 100
    <3>1. (raw * scale) \div 100 \in Int
      OBVIOUS
    <3>. QED BY <3>1 DEF R!Scaled, R!Unit
  <2>4. CASE parsed = "text"
    BY <2>2, <2>4 DEF R!Final, R!Applied
  <2>5. CASE parsed = "number"
    BY <2>1, <2>2, <2>3, <2>5 DEF R!Final, R!Applied
  <2>. QED BY <2>4, <2>5
<1>2. x \in Int /\ (type = "INTEGER" => x = raw)
  <2>1. (raw * 100) \div 100 = raw
    OBVIOUS
  <2>2. (raw * scale) \div 100 \in Int
    OBVIOUS
  <2>. QED BY <2>1, <2>2
<1>. HIDE DEF x, final, m
<1>3. R!Num(x).type = "number" /\ R!Num(x).is = x
  BY DEF R!Num
<1>4. R!AsNumber(R!Num(x)) = x
  BY <1>3 DEF R!AsNumber
<1>5. R!Outcome(input) = R!Stored(type, R!Num(x))
  BY <1>1 DEF R!Outcome, final
<1>6. R!Stored(type, R!Num(x)) =
          [column |-> R!ColumnOf(type), value |-> R!Num(x)]
  <2>1. CASE type = "TEXT"
    BY <1>3, <2>1 DEF R!Stored, R!GoesToText, R!ColumnOf
  <2>2. CASE type = "FLOAT"
    BY <1>3, <1>4, <2>2 DEF R!Stored, R!GoesToText, R!ColumnOf
  <2>3. CASE type = "INTEGER"
    <3>1. R!HalfUp(x) = x
      BY <1>2, <2>3, WholeStays
    <3>. QED BY <1>3, <1>4, <2>3, <3>1 DEF R!Stored, R!GoesToText, R!ColumnOf
  <2>. QED BY <2>1, <2>2, <2>3 DEF ReadTypes
<1>7. R!Quality(type, R!Outcome(input)) = "GOOD" /\ R!Outcome(input).value.is = x
  BY <1>3, <1>5, <1>6 DEF R!Quality
<1>. QED BY <1>7 DEF StoredRight, x, m

\* The row that a table describes reads numbers as the table means them.
LEMMA DescribedReads ==
    ASSUME Types, MappingsSeeded, Mapped, seeded, NEW r \in rows, NEW model,
           Described(r, model), NEW raw \in {0, 200, 70000}
    PROVE  ReadRight(r, raw)
<1>. DEFINE type == IF Upper(metric) \in {"FLOAT", "INTEGER"} THEN Upper(metric) ELSE "TEXT"
            parsed == ReadAs(r.type)
<1>1. table.item \in OidScripts[script].items /\ script \in DOMAIN OidScripts
  BY TableTypes DEF Mapped
<1>2. Upper(metric) = TypeAfter(script, table.item)
  BY DEF MappingsSeeded, TypeAfter
<1>3. type \in ReadTypes /\ parsed \in {"number", "text"}
  BY DEF ReadTypes, ReadAs
<1>4. r.scale = table.item.scale /\ r.scale \in Nat
  BY TableTypes DEF Described
<1>5. type = "INTEGER" => r.scale = 100
  <2>1. type = "INTEGER" => Upper(metric) = "INTEGER"
    OBVIOUS
  <2>. QED BY <1>1, <1>2, <1>4, <2>1, TablesExact
<1>. HIDE DEF type, parsed
<1>6. StoredRight(type, parsed, r.scale, raw)
  BY <1>3, <1>4, <1>5, NumberStored
<1>. QED BY <1>4, <1>6 DEF StoredRight, ReadRight, type, parsed

LEMMA MetricsRead ==
    ASSUME Types, OwnRows, MappingsSeeded
    PROVE  SeededMetricsRead
<1>. SUFFICES ASSUME seeded, Mapped, script = "DCIM" => byHand = {}
              PROVE  \E r \in Choosable :
                        /\ r.oid = table.oid
                        /\ \A raw \in {0, 200, 70000} : ReadRight(r, raw)
                        /\ \A o \in Choosable \ {r} :
                              o.id \in byHand \/ (script \in OldOidsKept /\ o.oid # table.oid)
  BY DEF SeededMetricsRead, Mapped
<1>1. CASE script # "DCIM"
  <2>1. PICK r \in rows :
            /\ Described(r, "own")
            /\ \A o \in rows \ {r} : o.model = "own" /\ o.id \notin byHand =>
                  script \in OldOidsKept /\ o.oid # table.oid
    BY <1>1 DEF MappingsSeeded
  <2>2. Choosable = {o \in rows : o.active /\ o.model = "own"} /\ r \in Choosable
    BY <2>1 DEF Choosable, Described
  <2>3. \A raw \in {0, 200, 70000} : ReadRight(r, raw)
    BY <2>1, DescribedReads
  <2>. QED BY <2>1, <2>2, <2>3 DEF Described
<1>2. CASE script = "DCIM"
  <2>1. PICK r \in rows :
            Described(r, "any") /\ \A o \in rows \ {r} : o.oid # table.oid
    BY <1>2 DEF MappingsSeeded
  <2>2. \A o \in rows : o.model = "any"
    BY <1>2 DEF OwnRows, Mapped
  <2>3. Choosable = {o \in rows : o.active /\ o.model = "any"} /\ r \in Choosable
    BY <2>1, <2>2 DEF Choosable, Described
  <2>4. \A raw \in {0, 200, 70000} : ReadRight(r, raw)
    BY <2>1, DescribedReads
  <2>. QED BY <1>2, <2>1, <2>3, <2>4 DEF Described, OldOidsKept
<1>. QED BY <1>1, <1>2

-----------------------------------------------------------------------------
(* Traps, once they are seeded.                                            *)

\* While the command is between its two traps, the first is already as it should be.
TrapsSeeded ==
    Trapped /\ seeded /\ byHand = {} =>
        /\ ~half =>
              \A code \in Codes :
                  /\ \E r \in rows : r.active /\ r.model = "own" /\
                                     r.oid = table[code] /\ r.code = code
                  /\ \A r \in rows : r.model # "alike" /\ r.oid = table[code] => r.code = code
        /\ half =>
              /\ \E r \in rows : r.active /\ r.model = "own" /\
                                 r.oid = table["fired"] /\ r.code = "fired"
              /\ \A r \in rows : r.model # "alike" /\ r.code = "fired" => r.oid = table["fired"]

LEMMA InitTrapsSeeded == Init => TrapsSeeded
BY DEF Init, TrapsSeeded

\* A script finds what it wrote before for the same trap.
LEMMA TrapsFound ==
    ASSUME Types, OwnRows, Trapped, byHand = {}, NEW set \in SUBSET TrapRows, NEW o \in rows,
           o \in set, o.model # "alike", NEW code \in Codes
    PROVE  /\ o.oid = table[code] =>
                  o \in Matching(set, {"vendor", "model", "oid"}, TrapRow("own", code))
           /\ o.code = code =>
                  o \in Matching(set, {"vendor", "model", "code"}, TrapRow("own", code))
<1>1. Vendor = "own" /\ script # "DCIM"
  BY Kinds DEF Trapped, Vendor
<1>2. o["vendor"] = "own" /\ o["model"] = "own"
  BY <1>1 DEF OwnRows
<1>3. LET r == TrapRow("own", code)
      IN  r["vendor"] = "own" /\ r["model"] = "own" /\ r["oid"] = table[code] /\ r["code"] = code
  BY DEF TrapRow
<1>. QED BY <1>2, <1>3 DEF Matching

LEMMA SeedsTraps ==
    ASSUME Types, OwnRows, SeedTraps
    PROVE  TrapsSeeded'
<1>. DEFINE key == {"vendor", "model", "oid"}
            first == Upserted(rows, key, TrapRow("own", "fired"))
<1>1. Trapped /\ script # "PACTraps" /\ ~half
  BY Kinds DEF SeedTraps, Trapped, Types
<1>. SUFFICES ASSUME seeded', byHand = {} PROVE TrapsSeeded'
  BY DEF SeedTraps, TrapsSeeded
<1>2. TrapScripts[script] = key
  BY <1>1, Kinds DEF Trapped, TrapScripts, PDUTrapKey, UPSTrapKey
<1>3. Target(script, models) = "own"
  BY DEF SeedTraps
<1>4. /\ rows' = Upserted(first, key, TrapRow("own", "restored"))
      /\ UNCHANGED <<script, table, half, byHand>>
  BY <1>2, <1>3 DEF SeedTraps
<1>. HIDE DEF key
<1>5. PICK one \in TrapRows :
          /\ one.model = "own" /\ one.oid = table["fired"] /\ one.code = "fired" /\ one.active
          /\ first = (rows \ Matching(rows, key, TrapRow("own", "fired"))) \cup {one}
          /\ Ordered(first) /\ first \in SUBSET TrapRows
  BY <1>1, TrapUpserted DEF Types, Models, Codes
<1>. HIDE DEF first
<1>6. PICK two \in TrapRows :
          /\ two.model = "own" /\ two.oid = table["restored"] /\ two.code = "restored"
          /\ two.active
          /\ rows' = (first \ Matching(first, key, TrapRow("own", "restored"))) \cup {two}
  BY <1>1, <1>4, <1>5, TrapUpserted DEF Models, Codes
<1>7. table["fired"] # table["restored"]
  BY <1>1, TableTypes
<1>8. one \in rows' /\ two \in rows'
  <2>1. one \notin Matching(first, key, TrapRow("own", "restored"))
    BY <1>5, <1>7 DEF Matching, TrapRow, key
  <2>. QED BY <1>5, <1>6, <2>1
<1>9. ASSUME NEW r \in rows', r.model # "alike", NEW code \in Codes, r.oid = table[code]
      PROVE  r.code = code
  <2>1. CASE r = one \/ r = two
    BY <1>5, <1>6, <1>7, <1>9, <2>1 DEF Codes
  <2>2. CASE r # one /\ r # two
    <3>1. r \in first /\ r \in rows /\ rows \in SUBSET TrapRows
      BY <1>1, <1>5, <1>6, <2>2 DEF Types
    <3>2. /\ r \notin Matching(rows, key, TrapRow("own", "fired"))
          /\ r \notin Matching(first, key, TrapRow("own", "restored"))
      BY <1>5, <1>6, <2>2
    <3>3. r.oid # table["fired"]
      BY <1>1, <1>9, <3>1, <3>2, TrapsFound DEF key, Codes
    <3>4. r.oid # table["restored"]
      BY <1>1, <1>5, <1>9, <3>1, <3>2, TrapsFound DEF key, Codes
    <3>. QED BY <1>9, <3>3, <3>4 DEF Codes
  <2>. QED BY <2>1, <2>2
<1>10. \A code \in Codes : \E r \in rows' : r.active /\ r.model = "own" /\
                                            r.oid = table[code] /\ r.code = code
  BY <1>5, <1>6, <1>8 DEF Codes
<1>. QED BY <1>1, <1>4, <1>9, <1>10 DEF TrapsSeeded

LEMMA SeedsPacTrap ==
    ASSUME Types, OwnRows, TrapsSeeded, NEW code \in Codes, SeedPacTrap(code)
    PROVE  TrapsSeeded'
<1>1. Trapped /\ half = (code = "restored")
  BY Kinds DEF SeedPacTrap, Trapped
<1>. SUFFICES ASSUME seeded', byHand = {} PROVE TrapsSeeded'
  BY DEF SeedPacTrap, TrapsSeeded
<1>2. /\ rows' = Upserted(rows, PACTrapKey, TrapRow("own", code))
      /\ UNCHANGED <<script, table, byHand>> /\ half' = ~half /\ (half => seeded)
  BY DEF SeedPacTrap
<1>3. PICK new \in TrapRows :
          /\ new.model = "own" /\ new.oid = table[code] /\ new.code = code /\ new.active
          /\ rows' = (rows \ Matching(rows, PACTrapKey, TrapRow("own", code))) \cup {new}
  BY <1>1, <1>2, TrapUpserted DEF Types, Models
<1>4. ASSUME NEW r \in rows', r.model # "alike", r.code = code PROVE r = new
  <2>1. CASE r # new
    <3>1. r \in rows /\ rows \in SUBSET TrapRows
      BY <1>1, <1>3, <2>1 DEF Types
    <3>2. r \notin Matching(rows, PACTrapKey, TrapRow("own", code))
      BY <1>3, <2>1
    <3>. QED BY <1>1, <1>4, <3>1, <3>2, TrapsFound DEF PACTrapKey
  <2>. QED BY <2>1
<1>5. \A r \in rows : r.code # code => r \in rows'
  BY <1>3 DEF Matching, PACTrapKey, TrapRow
<1>6. CASE code = "fired"
  <2>1. ~half /\ half'
    BY <1>1, <1>2, <1>6
  <2>. QED BY <1>2, <1>3, <1>4, <1>6, <2>1 DEF TrapsSeeded
<1>7. CASE code = "restored"
  <2>1. half /\ ~half' /\ seeded
    BY <1>1, <1>2, <1>7
  <2>2. PICK one \in rows : one.active /\ one.model = "own" /\
                            one.oid = table["fired"] /\ one.code = "fired"
    BY <1>1, <2>1 DEF TrapsSeeded
  <2>3. \A r \in rows : r.model # "alike" /\ r.code = "fired" => r.oid = table["fired"]
    BY <1>1, <2>1 DEF TrapsSeeded
  <2>4. one \in rows' /\ new \in rows'
    BY <1>3, <1>5, <1>7, <2>2
  <2>5. table["fired"] # table["restored"]
    BY <1>1, TableTypes
  <2>6. ASSUME NEW r \in rows', r.model # "alike", NEW c \in Codes, r.oid = table[c]
        PROVE  r.code = c
    <3>1. r.code \in Codes
      BY <1>1, <1>3 DEF Types, TrapRows
    <3>2. r.code = "restored" => r.oid = table["restored"]
      BY <1>3, <1>4, <1>7, <2>6
    <3>3. r.code = "fired" => r.oid = table["fired"]
      BY <1>3, <1>7, <2>3, <2>6
    <3>. QED BY <2>5, <2>6, <3>1, <3>2, <3>3 DEF Codes
  <2>7. \A c \in Codes : \E r \in rows' : r.active /\ r.model = "own" /\
                                          r.oid = table[c] /\ r.code = c
    BY <1>3, <1>7, <2>2, <2>4 DEF Codes
  <2>. QED BY <1>2, <2>1, <2>6, <2>7 DEF TrapsSeeded
<1>. QED BY <1>6, <1>7 DEF Codes

LEMMA TrapsStay == Types /\ OwnRows /\ TrapsSeeded /\ [Next]_vars => TrapsSeeded'
<1>. SUFFICES ASSUME Types, OwnRows, TrapsSeeded, [Next]_vars PROVE TrapsSeeded'
  OBVIOUS
<1>a. ASSUME ~seeded' \/ ~Trapped, UNCHANGED script PROVE TrapsSeeded'
  BY <1>a DEF TrapsSeeded, Trapped
<1>1. CASE \/ Release \/ AddModel \/ StopHalfway
           \/ \E model \in {"own", "any"}, vendor \in {"own", "none"} : AddRow(model, vendor)
           \/ \E r \in rows : Toggle(r) \/ Delete(r)
  BY <1>1, <1>a DEF Release, AddModel, StopHalfway, AddRow, Toggle, Delete
<1>2. CASE SeedMappings \/ SeedBaseline
  <2>1. ~Trapped
    BY <1>2, Kinds DEF SeedMappings, SeedBaseline, Trapped
  <2>. QED BY <1>2, <1>a, <2>1 DEF SeedMappings, SeedBaseline
<1>3. CASE SeedTraps
  BY <1>3, SeedsTraps
<1>4. CASE \E code \in Codes : SeedPacTrap(code)
  BY <1>4, SeedsPacTrap
<1>5. ASSUME NEW p \in Savers,
             SeedByName(p) \/ SeedByCondition(p) \/ EditRule(p) \/ SaveRule(p)
      PROVE  TrapsSeeded'
  <2>1. script = "rules" /\ script' = script
    BY <1>5 DEF Types, SeedByName, SeedByCondition, EditRule, SaveRule
  <2>. QED BY <1>a, <2>1, Kinds DEF Trapped
<1>6. CASE UNCHANGED vars
  BY <1>6 DEF vars, TrapsSeeded, Trapped
<1>. QED BY <1>1, <1>2, <1>3, <1>4, <1>5, <1>6 DEF Next

-----------------------------------------------------------------------------

Inv == Types /\ RulesInv /\ OwnRows /\ MappingsSeeded /\ TrapsSeeded

LEMMA InvAlways == Spec => []Inv
<1>1. Init => Inv
  BY InitTypes, InitRules, InitOwn, InitMappings, InitTrapsSeeded DEF Inv
<1>2. Inv /\ [Next]_vars => Inv'
  BY TypesStay, RulesStay, OwnStays, MappingsStay, TrapsStay DEF Inv
<1>. QED BY <1>1, <1>2, PTL DEF Spec

\* After each script, and whatever releases and operators did before it, the collector,
\* the trap receiver and the alert engine read what the script's table says.
THEOREM SeedsDoTheirWork == Spec => []SeedingRight
<1>1. Inv => SeededMetricsRead
  BY MetricsRead DEF Inv
<1>2. Inv => TrapsUnderstood
  <2>. SUFFICES ASSUME Inv, seeded, ~half, Trapped, byHand = {}, NEW code \in Codes
                PROVE  {r.code : r \in {q \in rows : q.active /\ q.model # "alike" /\
                                                     q.oid = table[code]}} = {code}
    BY DEF TrapsUnderstood, Trapped
  <2>. QED BY DEF Inv, TrapsSeeded
<1>3. Inv => RulesApart
  BY DEF Inv, RulesInv, Apart, SeedsAlarm, RulesApart
<1>. QED BY <1>1, <1>2, <1>3, InvAlways, PTL DEF SeedingRight
=============================================================================
