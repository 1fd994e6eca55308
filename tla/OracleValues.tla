---------------------------- MODULE OracleValues ----------------------------
(***************************************************************************)
(* Values in the forms Oracle gives them on the wire, and the conversions  *)
(* of wire.rs and backend.rs between those and the values themselves.      *)
(*   a number is a sign, its significant digits and the place of the point *)
(*   (0.d1d2d3... * 10^point), without zeros at either end; zero has none; *)
(*   a time is a calendar date and time with nanoseconds and, where it has *)
(*   one, an offset <<hours, minutes>>; an interval is months, days,       *)
(*   seconds and microseconds, the last two of one sign.                   *)
(* Text, raw and binary float values are the bytes themselves.             *)
(***************************************************************************)
EXTENDS TtcBuffer

CONSTANT Refused        \* what a conversion does not accept

Not(byte) == 255 - byte

(* Integer division and remainder of Rust, towards zero.                   *)
Quot(a, b) == IF a >= 0 THEN a \div b ELSE -((-a) \div b)
Rem(a, b)  == a - b * Quot(a, b)

(* Digits without the zeros at their end.                                  *)
Trimmed(digits) ==
  LET significant == {i \in DOMAIN digits : digits[i] # 0}
  IN  IF significant = {} THEN <<>> ELSE SubSeq(digits, 1, CHOOSE i \in significant :
                                                  \A j \in significant : j <= i)

(* The same number whatever zeros its digits had at either end.            *)
Decimal(neg, digits, point) ==
  LET t == Trimmed(digits)
      leading == CHOOSE n \in 0..Len(t) : /\ \A i \in 1..n : t[i] = 0
                                          /\ n < Len(t) => t[n + 1] # 0
  IN  IF t = <<>> THEN [neg |-> FALSE, digits |-> <<>>, point |-> 0]
      ELSE [neg |-> neg, digits |-> SubSeq(t, leading + 1, Len(t)), point |-> point - leading]

(* The four decimal digits of a base-10000 group.                          *)
Be10(group) == [i \in 1..4 |-> (group \div 10^(4 - i)) % 10]

Zero == Decimal(FALSE, <<>>, 0)

----------------------------------------------------------------------------
(* A NUMBER is an exponent byte and base-100 digits, complemented and      *)
(* closed by 102 when it is negative.                                      *)

DecodeNumber(raw) ==
  LET positive == raw[1] >= 128
      point == ((IF positive THEN raw[1] ELSE Not(raw[1])) - 193) * 2 + 2
      closed == ~positive /\ Len(raw) > 1 /\ Last(raw) = 102
      mantissa == SubSeq(raw, 2, IF closed THEN Len(raw) - 1 ELSE Len(raw))
      pair(b) == (IF positive THEN b - 1 ELSE 101 - b) % 256
      digits == FlattenSeq([i \in DOMAIN mantissa |->
                              <<pair(mantissa[i]) \div 10, pair(mantissa[i]) % 10>>])
  IN  IF raw = <<128>> THEN Zero
      ELSE IF mantissa = <<>> \/ \E i \in DOMAIN mantissa : pair(mantissa[i]) > 99 THEN Refused
      ELSE Decimal(~positive, digits, point)

(* The digits in pairs: the first pair holds one digit when the point      *)
(* falls in the middle of a pair.                                          *)
EncodeNumber(n) ==
  LET odd == n.point % 2 # 0
      padded == (IF odd THEN <<0>> ELSE <<>>) \o n.digits
      whole == IF Len(padded) % 2 = 0 THEN padded ELSE Append(padded, 0)
      pairs == [i \in 1..(Len(whole) \div 2) |-> 10 * whole[2 * i - 1] + whole[2 * i]]
      exponent == 192 + (n.point + (IF odd THEN 1 ELSE 0)) \div 2
      positive == <<exponent>> \o [i \in DOMAIN pairs |-> pairs[i] + 1]
      negative == <<Not(exponent)>> \o [i \in DOMAIN pairs |-> 101 - pairs[i]]
  IN  IF n = Zero THEN <<128>>
      ELSE IF Len(n.digits) > 40 \/ n.point \notin -129..126 THEN Refused
      ELSE IF ~n.neg THEN positive
      ELSE IF Len(negative) < 21 THEN Append(negative, 102) ELSE negative

(* An integer, whose pairs of trailing zeros are kept.                     *)
EncodeInteger(n) ==
  LET decimal == n.digits \o Zeros(n.point - Len(n.digits))
      even == IF Len(decimal) % 2 = 0 THEN decimal ELSE <<0>> \o decimal
      pairs == [i \in 1..(Len(even) \div 2) |-> 10 * even[2 * i - 1] + even[2 * i]]
  IN  IF n = Zero THEN <<128>>
      ELSE IF n.neg THEN <<63 - Len(pairs)>> \o [i \in DOMAIN pairs |-> 101 - pairs[i]] \o <<102>>
      ELSE <<192 + Len(pairs)>> \o [i \in DOMAIN pairs |-> pairs[i] + 1]

(* PostgreSQL's numeric: base-10000 groups, the weight of the first one,   *)
(* a sign and a scale; a scale of 0 cuts the fraction off.  NaN and the    *)
(* infinities have no groups and are read as 0.                            *)
FromPgNumeric(pg) ==
  LET whole == 4 * (pg.weight + 1)
      digits == FlattenSeq([i \in DOMAIN pg.groups |-> Be10(pg.groups[i])])
      kept == IF pg.scale > 0 THEN digits
              ELSE SubSeq(digits, 1, IF whole < Len(digits)
                                     THEN IF whole < 0 THEN 0 ELSE whole ELSE Len(digits))
  IN  IF pg.sign = "NaN" THEN Zero ELSE Decimal(pg.sign = "minus", kept, whole)

----------------------------------------------------------------------------
(* DATE and TIMESTAMP.  The century and the year are biased by 100, hours, *)
(* minutes and seconds by 1, an offset by 20 and 60.                       *)

DecodeTime(raw, oracleType) ==
  LET nanos == IF Len(raw) >= 11 THEN 1000 * (BigEndian(SubSeq(raw, 8, 11)) \div 1000) ELSE 0
      offset == IF oracleType \in {181, 231} /\ Len(raw) >= 13
                THEN <<raw[12] - 20, raw[13] - 60>> ELSE <<>>
  IN  IF \/ Len(raw) < 7
         \/ raw[3] \notin 1..12 \/ raw[4] \notin 1..31
         \/ raw[5] \notin 1..24 \/ raw[6] \notin 1..60 \/ raw[7] \notin 1..60
      THEN Refused
      ELSE [date |-> <<(raw[1] - 100) * 100 + raw[2] - 100, raw[3], raw[4]>>,
            clock |-> <<raw[5] - 1, raw[6] - 1, raw[7] - 1>>,
            nanos |-> nanos, offset |-> offset]

EncodeDate(t) == <<Quot(t.date[1], 100) + 100, Rem(t.date[1], 100) + 100, t.date[2], t.date[3],
                   t.clock[1] + 1, t.clock[2] + 1, t.clock[3] + 1>>

EncodeTimestamp(t) ==
  EncodeDate(t) \o Be(IF t.nanos > 999999999 THEN 999999999 ELSE t.nanos, 4)

(* The thick client wants a bit in the hour byte for an offset that is not *)
(* a named region.                                                         *)
EncodeTimestampTz(t, oci) ==
  EncodeTimestamp(t) \o <<t.offset[1] + 20 + (IF oci THEN 64 ELSE 0), t.offset[2] + 60>>

----------------------------------------------------------------------------
(* Intervals, each field biased by 60 or by 2^31; the model leaves the     *)
(* bias of the two wide fields out, as TLC's integers end there.           *)

EncodeYearToMonth(i) == <<Quot(i.months, 12), Rem(i.months, 12) + 60>>

EncodeDayToSecond(i) ==
  LET rest == Rem(i.secs, 86400)
  IN  <<i.days + 30 * i.months + Quot(i.secs, 86400),
        Quot(rest, 3600) + 60, Quot(Rem(rest, 3600), 60) + 60, Rem(rest, 60) + 60,
        1000 * i.micros>>

----------------------------------------------------------------------------
(* BINARY_FLOAT and BINARY_DOUBLE: a positive value gets its sign bit, a   *)
(* negative one is complemented, so that the bytes order as the numbers.   *)

EncodeBinary(ieee) == IF ieee[1] < 128 THEN [ieee EXCEPT ![1] = @ + 128]
                                       ELSE [i \in DOMAIN ieee |-> Not(ieee[i])]

DecodeBinary(raw) == IF raw[1] >= 128 THEN [raw EXCEPT ![1] = @ - 128]
                                      ELSE [i \in DOMAIN raw |-> Not(raw[i])]

(* A double that is an infinity or no number has no decimal form.          *)
Finite(ieee) == ~(ieee[1] % 128 = 127 /\ (IF Len(ieee) = 8 THEN ieee[2] >= 240 ELSE ieee[2] >= 128))

(* What a bind of an Oracle type means (decode_bind_value).                *)
DecodeBind(oracleType, raw) ==
  IF raw = Null THEN [t |-> "null", v |-> Null]
  ELSE CASE oracleType \in {1, 8, 9, 96} -> [t |-> "text", v |-> raw]
         [] oracleType = 2 -> [t |-> "number", v |-> IF raw = <<>> THEN Refused ELSE DecodeNumber(raw)]
         [] oracleType = 23 -> [t |-> "raw", v |-> raw]
         [] oracleType \in {12, 180, 181, 231} -> [t |-> "time", v |-> DecodeTime(raw, oracleType)]
         [] oracleType \in {100, 101} ->
              [t |-> "double", v |-> IF Len(raw) = (IF oracleType = 100 THEN 4 ELSE 8)
                                     THEN DecodeBinary(raw) ELSE Refused]
         [] oracleType = 252 -> [t |-> "boolean", v |-> raw # <<>> /\ Last(raw) # 0]
         [] OTHER -> [t |-> "unsupported", v |-> Refused]
=============================================================================
