--------------------------- MODULE ResultColumns ---------------------------
(***************************************************************************)
(* How the columns of a query are described to an Oracle client and how    *)
(* their values are put on the wire: pg_column_to_oracle_meta and          *)
(* pg_value_to_oracle_bytes of backend.rs, and open_cursor's columns and   *)
(* encode_value_for_column of mariadb.rs.                                  *)
(*   a column is [db, type] and, where the database reports them, mod (the *)
(*   precision and scale of a numeric, <<>> for none), yearToMonth,        *)
(*   decimals, binaryCharset, and declared ("double", "float" or "no"),    *)
(*   the BINARY_DOUBLE or BINARY_FLOAT it was declared as;                 *)
(*   a value is [k, v], k saying which form of OracleValues v has, and,    *)
(*   for a numeric of PostgreSQL, v as the server sends it; a float's v is *)
(*   its bytes and decimal the number they are.                            *)
(* The client is what it negotiated: completion, newer (describe framing), *)
(* oci.                                                                    *)
(***************************************************************************)
EXTENDS OracleValues

ThinStrict(client) == client.completion /\ ~client.newer

Meta(oracleType, precision, scale, size) ==
  [type |-> oracleType, precision |-> precision, scale |-> scale, size |-> size]

Number38 == Meta(2, 38, 0, 22)
Varchar  == Meta(1, 0, 0, 4000)
Integers10 == {"int2", "int4", "int8"}
Floats     == {"float4", "float8"}

(* A column declared BINARY_FLOAT or BINARY_DOUBLE in one of the facade's  *)
(* domains is described natively to the clients that read it               *)
(* (refine_oracle_domain_columns).                                         *)
PgMeta(col, client) ==
  CASE col.type = "numeric" ->
         IF col.mod = <<>> THEN Number38 ELSE Meta(2, col.mod[1], col.mod[2], 22)
    [] col.type \in Floats /\ col.declared # "no" /\ ThinStrict(client) ->
         IF col.declared = "double" THEN Meta(101, 0, 0, 8) ELSE Meta(100, 0, 0, 4)
    [] col.type \in Integers10 \cup Floats \cup {"oid"} -> Number38
    [] col.type = "bytea" -> Meta(23, 0, 0, 4000)
    [] col.type = "bool" -> Meta(2, 1, 0, 22)
    [] col.type = "date" -> Meta(12, 0, 0, 7)
    [] col.type = "timestamp" -> Meta(180, 0, 6, 11)
    [] col.type = "timestamptz" -> Meta(181, 0, 6, IF client.oci THEN 1 ELSE 13)
    [] col.type = "interval" ->
         IF ~ThinStrict(client) THEN Meta(1, 0, 0, 30)
         ELSE IF col.yearToMonth THEN Meta(182, 0, 0, 5) ELSE Meta(183, 0, 0, 11)
    [] OTHER -> Varchar

(* An interval as Oracle prints one, here its sign and its fields.         *)
Abs(n) == IF n < 0 THEN -n ELSE n

IntervalText(i, yearToMonth) ==
  LET rest == Abs(Rem(i.secs, 86400))
      days == i.days + 30 * i.months + Quot(i.secs, 86400)
      sign(negative) == IF negative THEN 45 ELSE 43
  IN  IF yearToMonth \/ (i.months # 0 /\ i.days = 0 /\ i.secs = 0 /\ i.micros = 0)
      THEN <<sign(i.months < 0), Abs(i.months) \div 12, Abs(i.months) % 12>>
      ELSE <<sign(days < 0 \/ i.secs < 0 \/ i.micros < 0), Abs(days),
             rest \div 3600, (rest % 3600) \div 60, rest % 60>> \o Be(Abs(i.micros), 3)

(* A value the driver does not convert to the type asked for is delivered  *)
(* as no value, and so is a number that has no NUMBER form.                *)
PgBytes(col, value, meta, client) ==
  LET encoded ==
        CASE value.k = "null" -> Refused
          [] meta.type = 2 /\ col.type \in Integers10 \cup {"bool"} -> EncodeInteger(value.v)
          [] meta.type = 2 /\ col.type = "numeric" -> EncodeNumber(FromPgNumeric(value.v))
          [] meta.type = 2 /\ col.type \in Floats ->
               IF Finite(value.v) THEN EncodeNumber(value.decimal) ELSE Refused
          [] meta.type = 2 -> Refused                                  \* an oid is no String
          [] meta.type = 23 -> value.v
          [] meta.type \in {100, 101} -> EncodeBinary(value.v)
          [] meta.type = 12 -> EncodeDate(value.v)
          [] meta.type = 180 -> EncodeTimestamp(value.v)
          [] meta.type = 181 -> EncodeTimestampTz(value.v, client.oci)
          [] meta.type = 182 -> EncodeYearToMonth(value.v)
          [] meta.type = 183 -> EncodeDayToSecond(value.v)
          [] meta.type = 1 /\ col.type = "interval" -> IntervalText(value.v, col.yearToMonth)
          [] meta.type = 1 /\ value.k = "text" -> value.v
          [] OTHER -> Refused
  IN  IF encoded = Refused THEN Null ELSE encoded

----------------------------------------------------------------------------
(* MariaDB.                                                                *)

MyNumeric == {"float", "double", "decimal", "longlong", "long", "short", "tiny", "int24", "year"}

(* The types described as NUMBER leave MEDIUMINT and YEAR out.             *)
MyDescribedNumeric == MyNumeric \ {"int24", "year"}
MyTemporal == {"date", "datetime", "timestamp"}

MyMeta(col, client) ==
  CASE col.type \in MyTemporal ->
         IF col.decimals > 0 THEN Meta(180, 0, IF col.decimals > 9 THEN 9 ELSE col.decimals, 11)
         ELSE Meta(12, 0, 0, 7)
    [] col.declared # "no" /\ col.type \in {"float", "double"} /\ ThinStrict(client) ->
         IF col.declared = "double" THEN Meta(101, 0, 0, 8) ELSE Meta(100, 0, 0, 4)
    [] col.binaryCharset /\ col.type = "string" -> Meta(23, 0, 0, 4000)
    [] col.type = "decimal" -> Meta(2, col.mod[1], col.mod[2], 22)
    [] col.type \in MyDescribedNumeric -> Number38
    [] OTHER -> Varchar

(* A statement without binds returns rows as text, one with binds returns  *)
(* them in binary, where a time loses its fraction (encode_value).  What   *)
(* is Refused fails the query, as an absent BINARY_DOUBLE does.            *)
MyBytes(col, value, meta, binary) ==
  CASE meta.type \in {100, 101} -> IF value.k = "null" THEN Refused ELSE EncodeBinary(value.v)
    [] meta.type \notin {100, 101} /\ value.k = "null" -> <<>>
    [] value.k = "number" -> EncodeNumber(value.v)
    [] value.k = "time" /\ meta.type = 180 /\ ~binary -> EncodeTimestamp(value.v)
    [] value.k = "time" /\ (meta.type # 180 \/ binary) -> EncodeDate(value.v)
    [] OTHER -> value.v
=============================================================================
