------------------------------ MODULE Readings ------------------------------
(***************************************************************************)
(* What a reading becomes: which mapping reads a metric (get_device_snmp_- *)
(* runtime, _get_runtime), what the registers of a Modbus device mean      *)
(* (_read_mapping), and the value and quality that are stored              *)
(* (common/snmp_normalization.py, common/value_converter.py).              *)
(*                                                                         *)
(* A number is an integer count of hundredths, as exact as the decimals of *)
(* the code.  A value is a record with a type and, unless it is text or    *)
(* nothing, a number; the words that a text may be are told apart as far   *)
(* as _coerce_bool does.  Left out: numbers that are no number or infinite *)
(* and the decoding of a float32 from its bits.                            *)
(***************************************************************************)
EXTENDS Integers, Sequences, FiniteSets, SequencesExt

CONSTANT Word       \* what a register counts up to: 2^16

Num(x)  == [type |-> "number", is |-> x]
Bool(b) == [type |-> "bool", is |-> b]
Text(t) == [type |-> "text", is |-> t]
None    == [type |-> "none"]

Words == {"on", "off", "other", "empty"}    \* true words, false words, other text
Unit == 100

-----------------------------------------------------------------------------
(* Numbers.                                                                *)

Abs(x) == IF x < 0 THEN -x ELSE x
Sign(x) == IF x < 0 THEN -1 ELSE 1

\* int(): the fraction is cut off.  ROUND_HALF_UP: halves go away from zero.
Truncated(x) == Sign(x) * (Abs(x) \div Unit) * Unit
HalfUp(x) == Sign(x) * ((Abs(x) + Unit \div 2) \div Unit) * Unit

Scaled(x, m) == (x * m.scale) \div Unit + m.offset

-----------------------------------------------------------------------------
(* Mappings and registers.                                                 *)

\* One mapping per metric; those of the device's model win.  A mapping names a
\* metric and whether it is specific to a model.
Deduped(mappings) ==
    LET Merge(chosen, m) ==
            [metric \in DOMAIN chosen \cup {m.metric} |->
                IF metric = m.metric /\ (metric \notin DOMAIN chosen \/ m.specific)
                THEN m ELSE chosen[metric]]
    IN  FoldLeft(Merge, [metric \in {} |-> 0], mappings)

\* The number that registers hold, as the mapping's data type reads them; NoNumber
\* when there are too few.  The byte and word order of the mapping is not read.
NoNumber == "none"

Decoded(registers, type) ==
    LET wide == registers[1] * Word + registers[2]
    IN  CASE type = "int16" ->
                IF registers[1] > Word \div 2 - 1 THEN registers[1] - Word ELSE registers[1]
          [] type \in {"uint32", "int32"} ->
                IF Len(registers) < 2 THEN NoNumber
                ELSE IF type = "int32" /\ wide > (Word * Word) \div 2 - 1
                     THEN wide - Word * Word ELSE wide
          [] OTHER -> registers[1]

\* What a device writes into its registers for a number, most significant first.
Encoded(x, type) ==
    IF type \in {"uint32", "int32"}
    THEN <<(x \div Word) % Word, x % Word>>
    ELSE <<x % Word>>

RangeOf(type) ==
    CASE type = "int16"  -> -(Word \div 2) .. Word \div 2 - 1
      [] type = "int32"  -> -((Word * Word) \div 2) .. (Word * Word) \div 2 - 1
      [] type = "uint32" -> 0 .. Word * Word - 1
      [] OTHER           -> 0 .. Word - 1

-----------------------------------------------------------------------------
(* Credentials.  A secret is absent, plain, or encrypted under a key.      *)

Absent == [form |-> "absent"]
Plain(text) == [form |-> "plain", text |-> text]

\* encrypt_secret, decrypt_secret: encrypted twice is encrypted once; a plain
\* legacy value is its own decryption; under another key nothing comes back.
Encrypted(secret, key) ==
    IF secret.form = "plain" THEN [form |-> "token", text |-> secret.text, key |-> key]
    ELSE secret

Decrypted(secret, key) ==
    IF secret.form # "token" THEN secret
    ELSE IF secret.key = key THEN Plain(secret.text) ELSE Absent

AuthProtocols == {"NONE", "MD5", "SHA", "SHA1", "SHA224", "SHA256", "SHA384", "SHA512"}
PrivProtocols == {"NONE", "DES", "AES", "AES128", "AES192", "AES256"}

\* set_device_snmp: the credential it saves, over what an earlier run saved.
Accepts(o) ==
    /\ o.version \in {"1", "2c"} => o.community # Absent
    /\ o.version = "3" => o.username # Absent

Saved(o, key) ==
    [version |-> o.version, username |-> o.username,
     community |-> Encrypted(o.community, key),
     auth |-> o.auth, authKey |-> Encrypted(o.authKey, key),
     priv |-> o.priv, privKey |-> Encrypted(o.privKey, key)]

\* SNMPClient._auth_data, "refused" where it raises SNMPCredentialError.
AuthData(c, key) ==
    CASE c.version \in {"1", "2c"} ->
            LET community == Decrypted(c.community, key)
            IN  IF community = Absent THEN "refused" ELSE <<c.version, community>>
      [] c.version = "3" ->
            IF c.username = Absent \/ c.auth \notin AuthProtocols \/ c.priv \notin PrivProtocols
            THEN "refused"
            ELSE <<c.version, c.username, c.auth, Decrypted(c.authKey, key),
                   c.priv, Decrypted(c.privKey, key)>>
      [] OTHER -> "refused"

-----------------------------------------------------------------------------
(* From the raw value to the column.                                       *)

\* _coerce_bool.  A raw number is read as its text: zero is a false word.
Truth(v) ==
    CASE v.type = "bool"   -> v.is
      [] v.type = "number" -> v.is # 0
      [] OTHER             -> v.is \in {"on", "other"}

\* parse_snmp_raw_value: by the data type of the mapping.
Parsed(raw, m) ==
    CASE m.type = "bool" -> Bool(Truth(raw))
      [] OTHER           -> raw

\* apply_scale_offset.  Text that looks like a number stays text.
Applied(v, m) ==
    IF m.type = "text" THEN v
    ELSE CASE v.type = "number" -> Num(Scaled(v.is, m))
           [] v.type = "bool" /\ ~(m.scale = Unit /\ m.offset = 0) ->
                 Num(Scaled(IF v.is THEN Unit ELSE 0, m))
           [] OTHER -> v

\* normalize_value of the Modbus collector; bool, float or str never raise.
Normalized(raw, m) ==
    CASE m.type = "bool" -> Bool(Truth(raw))
      [] m.type = "text" ->
            IF raw.type = "bool" THEN Text(IF raw.is THEN "on" ELSE "off") ELSE raw
      [] OTHER ->
            IF raw.type # "number" THEN None
            ELSE IF m.type = "integer" THEN Num(Truncated(Scaled(raw.is, m)))
            ELSE Num(Scaled(raw.is, m))

Final(protocol, raw, m) ==
    IF protocol = "SNMP" THEN Applied(Parsed(raw, m), m) ELSE Normalized(raw, m)

AsNumber(v) == IF v.type = "bool" THEN (IF v.is THEN Unit ELSE 0) ELSE v.is

\* What a numeric metric cannot hold goes to the column of texts.
GoesToText(metric, v) == metric = "TEXT" \/ (metric # "BOOLEAN" /\ v.type = "text")

\* (Mutated form of what follows.)  Integers are truncated, not rounded.
StoredTruncated(metric, v) ==
    IF v.type = "none" THEN [column |-> "none", value |-> None]
    ELSE IF GoesToText(metric, v) THEN [column |-> "text", value |-> v]
    ELSE CASE metric = "BOOLEAN" -> [column |-> "boolean", value |-> Bool(Truth(v))]
           [] metric = "FLOAT"   -> [column |-> "float", value |-> Num(AsNumber(v))]
           [] metric = "INTEGER" ->
                 [column |-> "integer", value |-> Num(Truncated(AsNumber(v)))]

\* store_value_by_metric_type: the one column that is filled.
Stored(metric, v) ==
    IF v.type = "none" THEN [column |-> "none", value |-> None]
    ELSE IF GoesToText(metric, v) THEN [column |-> "text", value |-> v]
    ELSE CASE metric = "BOOLEAN" -> [column |-> "boolean", value |-> Bool(Truth(v))]
           [] metric = "FLOAT"   -> [column |-> "float", value |-> Num(AsNumber(v))]
           [] metric = "INTEGER" ->
                 [column |-> "integer", value |-> Num(HalfUp(AsNumber(v)))]

\* _quality_for_metric.
ColumnOf(metric) ==
    [FLOAT |-> "float", INTEGER |-> "integer", BOOLEAN |-> "boolean", TEXT |-> "text"][metric]

Quality(metric, payload) ==
    IF \/ payload.column # ColumnOf(metric)
       \/ payload.value.type = "text" /\ payload.value.is = "empty"
    THEN "BAD" ELSE "GOOD"

-----------------------------------------------------------------------------
(* Properties, of an input: protocol, raw value, mapping, metric.          *)

\* What was measured, when a number was.
Measured(i) ==
    IF i.m.type = "text" THEN i.raw.is
    ELSE IF i.m.type = "bool" /\ i.protocol = "MODBUS" THEN (IF i.raw.is = 0 THEN 0 ELSE Unit)
    ELSE Scaled(IF i.m.type = "bool" /\ i.raw.is # 0 THEN Unit ELSE i.raw.is, i.m)

\* A Modbus mapping of an integer type cuts the fraction off before the metric's
\* own type is looked at; elsewhere nothing but the rounding of an INTEGER metric
\* is lost.
Lost(i) ==
    LET cut == i.protocol = "MODBUS" /\ i.m.type = "integer"
    IN  CASE cut -> Unit - 1
          [] ~cut /\ i.metric = "INTEGER" -> Unit \div 2
          [] OTHER -> 0

Outcome(i) == Stored(i.metric, Final(i.protocol, i.raw, i.m))

\* A number arrives in the column of its metric, GOOD, and within what the types
\* lose; words are never GOOD numbers, and a coil is read by boolean mappings only.
StoredAsMeasured(i) ==
    LET payload == Outcome(i)
        good == Quality(i.metric, payload) = "GOOD"
    IN  /\ i.raw.type = "number" => good
        /\ i.raw.type = "number" /\ i.metric \in {"FLOAT", "INTEGER"} =>
              Abs(payload.value.is - Measured(i)) <= Lost(i)
        /\ i.raw.type = "number" /\ i.metric = "BOOLEAN" /\ Lost(i) = 0 =>
              (payload.value.is <=> Measured(i) # 0)
        /\ i.raw.type = "text" /\ i.m.type # "bool" /\ i.metric \in {"FLOAT", "INTEGER"} =>
              ~good
        /\ i.raw.type = "bool" /\ i.metric = "BOOLEAN" =>
              (good <=> i.m.type \in {"bool", "text"}) /\
              (good => payload.value = i.raw)

\* Reading undoes writing, for signed numbers too, and misses no register.
RegistersRead(x, type) ==
    /\ Decoded(Encoded(x, type), type) = x
    /\ type \in {"uint32", "int32"} => Decoded(<<x % Word>>, type) = NoNumber

\* Every metric is read once, by a mapping of the device's model if there is one,
\* in whatever order the database returns them.
MappingsChosen(mappings) ==
    LET chosen == Deduped(mappings)
        all == ToSet(mappings)
    IN  /\ DOMAIN chosen = {m.metric : m \in all}
        /\ \A metric \in DOMAIN chosen :
              /\ chosen[metric] \in {m \in all : m.metric = metric}
              /\ (\E m \in all : m.metric = metric /\ m.specific) => chosen[metric].specific

\* The secrets that an operator sets are those that the client uses, as long as the
\* key stays; under a new key communities are refused, and no secret is sent.
SecretsKept(o, key, other) ==
    LET asked == AuthData([Saved(o, key) EXCEPT !.community = o.community,
                                                !.authKey = o.authKey,
                                                !.privKey = o.privKey], key)
    IN  Accepts(o) =>
            /\ AuthData(Saved(o, key), key) = asked
            /\ Encrypted(Encrypted(o.community, key), other) = Encrypted(o.community, key)
            /\ o.version \in {"1", "2c"} => AuthData(Saved(o, key), other) = "refused"
=============================================================================
